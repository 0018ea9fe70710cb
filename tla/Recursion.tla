------------------------------ MODULE Recursion ------------------------------
(***************************************************************************)
(* Recursive functions exist.  TLA+ defines f[x \in S] == e as some f with *)
(* f = [x \in S |-> e], and says nothing of f where there is none.  Here:  *)
(* there is one whenever the body asks for values of smaller rank only.    *)
(* A user instantiates the module with the domain, the rank and the body   *)
(* of its function, each with the parameter `p` the function is in.        *)
(***************************************************************************)
EXTENDS Integers, WellFoundedInduction, TLAPS

CONSTANTS Dom(_), Rank(_), Body(_, _, _)

\* A set of numbers has a least member: what every induction below rests on.
LEMMA Least ==
  ASSUME NEW S, S \subseteq Nat, S # {}
  PROVE  \E n \in S : \A m \in S : n <= m
<1>1. IsWellFoundedOn(OpToRel(<, Nat), Nat)
  BY NatLessThanWellFounded
<1>2. \E x \in S : \A y \in S : ~(<<y, x>> \in OpToRel(<, Nat))
  BY <1>1, WFMin
<1>3. \A x, y \in S : <<y, x>> \in OpToRel(<, Nat) <=> y < x
  BY DEF OpToRel
<1>4. PICK n \in S : \A m \in S : ~(m < n)
  BY <1>2, <1>3
<1>5. n \in Nat /\ \A m \in S : m \in Nat
  OBVIOUS
<1> QED BY <1>4, <1>5

\* Induction, for a set instead of a formula.
LEMMA SetInduction ==
  ASSUME NEW S, 0 \in S, \A n \in Nat : n \in S => n + 1 \in S
  PROVE  Nat \subseteq S
<1> SUFFICES ASSUME Nat \ S # {} PROVE FALSE
  OBVIOUS
<1>1. PICK n \in Nat \ S : \A m \in Nat \ S : n <= m
  BY Least
<1>2. n - 1 \in Nat /\ n - 1 \notin S
  BY <1>1
<1> QED BY <1>1, <1>2

\* The same, from all the smaller ones.
LEMMA StrongInduction ==
  ASSUME NEW S, \A n \in Nat : (\A m \in Nat : m < n => m \in S) => n \in S
  PROVE  Nat \subseteq S
<1> SUFFICES ASSUME Nat \ S # {} PROVE FALSE
  OBVIOUS
<1>1. PICK n \in Nat \ S : \A m \in Nat \ S : n <= m
  BY Least
<1>2. \A m \in Nat : m < n => m \in S
  BY <1>1
<1> QED BY <1>1, <1>2

-----------------------------------------------------------------------------
Below(p, n) == {x \in Dom(p) : Rank(x) < n}
Fits(p, g, n) == g = [x \in Below(p, n) |-> Body(p, g, x)]

Local(p) == /\ \A x \in Dom(p) : Rank(x) \in Nat
            /\ \A x \in Dom(p) : \A g, h :
                 (\A y \in Dom(p) : Rank(y) < Rank(x) => g[y] = h[y]) => Body(p, g, x) = Body(p, h, x)

LEMMA FitsAgree ==
  ASSUME NEW p, Local(p), NEW n \in Nat, NEW k \in Nat, NEW g, NEW h, Fits(p, g, n), Fits(p, h, k),
         NEW x \in Below(p, n), x \in Below(p, k)
  PROVE  g[x] = h[x]
<1> DEFINE Bad == {Rank(y) : y \in {z \in Below(p, n) \cap Below(p, k) : g[z] # h[z]}}
<1> SUFFICES ASSUME Bad # {} PROVE FALSE
  OBVIOUS
<1>1. Bad \subseteq Nat
  BY DEF Below, Local
<1>2. PICK r \in Bad : \A s \in Bad : r <= s
  BY <1>1, Least
<1>3. PICK y \in Below(p, n) \cap Below(p, k) : g[y] # h[y] /\ Rank(y) = r
  OBVIOUS
<1>4. y \in Dom(p) /\ r \in Nat /\ r < n /\ r < k
  BY <1>3, <1>1 DEF Below
<1>5. \A z \in Dom(p) : Rank(z) < Rank(y) => g[z] = h[z]
  <2> SUFFICES ASSUME NEW z \in Dom(p), Rank(z) < Rank(y), g[z] # h[z] PROVE FALSE
    OBVIOUS
  <2>1. Rank(z) \in Nat
    BY DEF Local
  <2>2. z \in Below(p, n) \cap Below(p, k)
    BY <2>1, <1>3, <1>4 DEF Below
  <2>3. Rank(z) \in Bad
    BY <2>2
  <2>4. r <= Rank(z)
    BY <2>3, <1>2
  <2> QED BY <2>4, <2>1, <1>3, <1>4
<1>6. Body(p, g, y) = Body(p, h, y)
  BY <1>4, <1>5 DEF Local
<1>7. g[y] = Body(p, g, y) /\ h[y] = Body(p, h, y)
  BY <1>3 DEF Fits
<1> QED BY <1>3, <1>6, <1>7

LEMMA FitsExist ==
  ASSUME NEW p, Local(p)
  PROVE  \A n \in Nat : \E g : Fits(p, g, n)
<1> DEFINE S == {n \in Nat : \E g : Fits(p, g, n)}
<1>1. 0 \in S
  <2>1. Below(p, 0) = {}
    BY DEF Below, Local
  <2>2. Fits(p, [x \in {} |-> x], 0)
    BY <2>1 DEF Fits
  <2> QED BY <2>2
<1>2. ASSUME NEW n \in Nat, n \in S PROVE n + 1 \in S
  <2>1. PICK g : Fits(p, g, n)
    BY <1>2
  <2> DEFINE h == [x \in Below(p, n + 1) |-> Body(p, g, x)]
  <2>2. \A x \in Below(p, n) : x \in Below(p, n + 1) /\ h[x] = g[x]
    BY <2>1 DEF Below, Local, Fits
  <2>3. ASSUME NEW x \in Below(p, n + 1) PROVE Body(p, g, x) = Body(p, h, x)
    <3>1. x \in Dom(p) /\ Rank(x) \in Nat /\ Rank(x) < n + 1
      BY DEF Below, Local
    <3>2. \A y \in Dom(p) : Rank(y) < Rank(x) => y \in Below(p, n)
      BY <3>1 DEF Below, Local
    <3>3. \A y \in Dom(p) : Rank(y) < Rank(x) => g[y] = h[y]
      BY <3>2, <2>2
    <3> HIDE DEF h
    <3> QED BY <3>1, <3>3 DEF Local
  <2>4. h = [x \in Below(p, n + 1) |-> Body(p, h, x)]
    BY <2>3, Zenon
  <2>5. Fits(p, h, n + 1)
    BY <2>4 DEF Fits
  <2> QED BY <2>5
<1>3. Nat \subseteq S
  <2> HIDE DEF S
  <2> QED BY <1>1, <1>2, SetInduction
<1> QED BY <1>3

\* The function is there, and is defined by its body everywhere.
THEOREM Recursive ==
  ASSUME NEW p, Local(p)
  PROVE  \E f : f = [x \in Dom(p) |-> Body(p, f, x)]
<1> DEFINE G(n) == CHOOSE g : Fits(p, g, n)
           f == [x \in Dom(p) |-> G(Rank(x) + 1)[x]]
<1>1. \A n \in Nat : Fits(p, G(n), n)
  BY FitsExist
<1>2. \A x \in Dom(p) : Rank(x) \in Nat
  BY DEF Local
<1> HIDE DEF G
<1>3. ASSUME NEW x \in Dom(p) PROVE f[x] = Body(p, f, x)
  <2>1. x \in Below(p, Rank(x) + 1) /\ Rank(x) + 1 \in Nat
    BY <1>2 DEF Below
  <2>2. f[x] = Body(p, G(Rank(x) + 1), x)
    BY <2>1, <1>1 DEF Fits
  <2>3. ASSUME NEW y \in Dom(p), Rank(y) < Rank(x) PROVE G(Rank(x) + 1)[y] = f[y]
    <3>1. Rank(y) \in Nat /\ Rank(x) \in Nat
      BY <1>2
    <3>2. y \in Below(p, Rank(x) + 1) /\ y \in Below(p, Rank(y) + 1) /\ Rank(y) + 1 \in Nat
      BY <3>1, <2>3 DEF Below
    <3>3. G(Rank(x) + 1)[y] = G(Rank(y) + 1)[y]
      BY <3>2, <2>1, <1>1, FitsAgree
    <3> QED BY <3>3
  <2> HIDE DEF f
  <2>4. Body(p, G(Rank(x) + 1), x) = Body(p, f, x)
    BY <2>3 DEF Local
  <2> QED BY <2>2, <2>4
<1>4. f = [x \in Dom(p) |-> Body(p, f, x)]
  BY <1>3, Zenon
<1> QED BY <1>4
=============================================================================
