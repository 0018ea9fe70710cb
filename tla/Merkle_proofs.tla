---------------------------- MODULE Merkle_proofs ----------------------------
(***************************************************************************)
(* verify_inclusion and verify_consistency accept exactly the log's own    *)
(* proofs, for trees of every size and proofs of every length.             *)
(*                                                                         *)
(* A node of the tree over N leaves is named by its first leaf s and its   *)
(* level's width P, a power of two: it is the hash of the leaves from s up *)
(* to s + P, or up to N where the tree ends sooner.  A verifier that has   *)
(* consumed some of a proof stands at the node that contains the leaf m it *)
(* started from; what it has hashed is that node's hash exactly when it    *)
(* started from the right hash and all it was given was right (Inv).       *)
(***************************************************************************)
EXTENDS Merkle, TLAPS

\* The recursive definitions of Merkle, as bodies of Recursion.
PowDom(p) == Nat
PowRank(i) == i
PowBody(p, f, i) == IF i = 0 THEN 1 ELSE 2 * f[i - 1]
PowR == INSTANCE Recursion WITH Dom <- PowDom, Rank <- PowRank, Body <- PowBody

-----------------------------------------------------------------------------
(* Powers of two. *)
LEMMA PowEquation ==
  Pow2 = [i \in Nat |-> IF i = 0 THEN 1 ELSE 2 * Pow2[i - 1]]
<1>1. PowR!Local(0)
  BY DEF PowR!Local, PowDom, PowRank, PowBody
<1>2. \E f : f = [i \in Nat |-> IF i = 0 THEN 1 ELSE 2 * f[i - 1]]
  BY <1>1, PowR!Recursive DEF PowDom, PowBody
<1> QED BY <1>2 DEF Pow2

LEMMA PowStep ==
  /\ Pow2[0] = 1
  /\ \A i \in Nat : Pow2[i + 1] = 2 * Pow2[i]
BY PowEquation

LEMMA PowNat ==
  \A i \in Nat : Pow2[i] \in Nat /\ i < Pow2[i]
<1> DEFINE S == {i \in Nat : Pow2[i] \in Nat /\ i < Pow2[i]}
<1>1. 0 \in S
  BY PowStep
<1>2. ASSUME NEW i \in Nat, i \in S PROVE i + 1 \in S
  BY <1>2, PowStep
<1>3. Nat \subseteq S
  <2> HIDE DEF S
  <2> QED BY <1>1, <1>2, PowR!SetInduction
<1> QED BY <1>3

LEMMA PowRises ==
  \A i, j \in Nat : i < j => 2 * Pow2[i] <= Pow2[j]
<1> SUFFICES ASSUME NEW i \in Nat PROVE \A j \in Nat : i < j => 2 * Pow2[i] <= Pow2[j]
  OBVIOUS
<1> DEFINE S == {j \in Nat : i < j => 2 * Pow2[i] <= Pow2[j]}
<1>1. 0 \in S
  OBVIOUS
<1>2. ASSUME NEW j \in Nat, j \in S PROVE j + 1 \in S
  BY <1>2, PowStep, PowNat
<1>3. Nat \subseteq S
  <2> HIDE DEF S
  <2> QED BY <1>1, <1>2, PowR!SetInduction
<1> QED BY <1>3

\* _split: what it returns, and that it returns something.
LEMMA SplitIs ==
  ASSUME NEW i \in Nat, NEW n \in Nat, Pow2[i] < n, n <= 2 * Pow2[i]
  PROVE  Split(n) = Pow2[i]
<1> DEFINE K == {Pow2[j] : j \in 0..n}
<1>1. Pow2[i] \in K
  BY PowNat
<1>2. ASSUME NEW k \in K, k < n, 2 * k >= n PROVE k = Pow2[i]
  <2>1. PICK j \in 0..n : k = Pow2[j]
    OBVIOUS
  <2>2. j \in Nat /\ Pow2[j] \in Nat /\ Pow2[i] \in Nat
    BY PowNat
  <2>3. ~(i < j)
    BY <2>1, <2>2, <1>2, PowRises
  <2>4. ~(j < i)
    BY <2>1, <2>2, <1>2, PowRises
  <2> QED BY <2>1, <2>2, <2>3, <2>4
<1>3. Pow2[i] \in Nat
  BY PowNat
<1> HIDE DEF K
<1>4. (CHOOSE k \in K : k < n /\ 2 * k >= n) = Pow2[i]
  BY <1>1, <1>2, <1>3
<1> QED BY <1>4 DEF Split, K

LEMMA SplitPower ==
  ASSUME NEW n \in Nat, n > 1
  PROVE  \E i \in Nat : Pow2[i] < n /\ n <= 2 * Pow2[i] /\ Split(n) = Pow2[i]
<1> DEFINE S == {j \in Nat : n <= Pow2[j]}
<1>1. n \in S
  BY PowNat
<1>2. PICK j \in S : \A k \in S : j <= k
  BY <1>1, PowR!Least
<1>3. j # 0
  BY <1>2, PowStep
<1>4. j - 1 \in Nat /\ ~(n <= Pow2[j - 1]) /\ Pow2[j] = 2 * Pow2[j - 1]
  BY <1>2, <1>3, PowStep
<1>5. Pow2[j - 1] < n /\ n <= 2 * Pow2[j - 1]
  BY <1>2, <1>4, PowNat
<1> QED BY <1>4, <1>5, SplitIs

LEMMA SplitBetween ==
  ASSUME NEW n \in Nat, n > 1
  PROVE  Split(n) \in Nat /\ 0 < Split(n) /\ Split(n) < n
BY SplitPower, PowNat

-----------------------------------------------------------------------------
(* mth, PATH and SUBPROOF by their equations. *)
Ranges(p) == Nat \X Nat
WidthRank(r) == r[2]
MthBody(hashes, f, r) ==
  IF r[2] <= 1 THEN IF r[2] = 0 THEN EmptyRoot ELSE hashes[r[1] + 1]
  ELSE node_hash(f[LeftOf(r)], f[RightOf(r)])
MthR == INSTANCE Recursion WITH Dom <- Ranges, Rank <- WidthRank, Body <- MthBody

LEMMA Halves ==
  ASSUME NEW r \in Nat \X Nat, r[2] > 1
  PROVE  /\ LeftOf(r) \in Nat \X Nat /\ LeftOf(r)[2] < r[2] /\ LeftOf(r)[2] > 0
         /\ RightOf(r) \in Nat \X Nat /\ RightOf(r)[2] < r[2] /\ RightOf(r)[2] > 0
         /\ LeftOf(r)[2] = Split(r[2]) /\ RightOf(r)[2] = r[2] - Split(r[2])
<1>1. Split(r[2]) \in Nat /\ 0 < Split(r[2]) /\ Split(r[2]) < r[2]
  BY SplitBetween
<1> QED BY <1>1 DEF LeftOf, RightOf

LEMMA MthEquation ==
  ASSUME NEW hashes, NEW r \in Nat \X Nat
  PROVE  Mth(hashes)[r] = MthBody(hashes, Mth(hashes), r)
<1>1. MthR!Local(hashes)
  <2>1. ASSUME NEW x \in Nat \X Nat, NEW g, NEW h,
               \A y \in Nat \X Nat : WidthRank(y) < WidthRank(x) => g[y] = h[y]
        PROVE  MthBody(hashes, g, x) = MthBody(hashes, h, x)
    <3>1. CASE x[2] > 1
      <4>1. g[LeftOf(x)] = h[LeftOf(x)] /\ g[RightOf(x)] = h[RightOf(x)]
        BY <3>1, <2>1, Halves DEF WidthRank
      <4> QED BY <3>1, <4>1 DEF MthBody
    <3>2. CASE x[2] = 0 \/ x[2] = 1
      BY <3>2 DEF MthBody
    <3> QED BY <3>1, <3>2
  <2>2. \A x \in Nat \X Nat : WidthRank(x) \in Nat
    BY DEF WidthRank
  <2> QED BY <2>1, <2>2 DEF MthR!Local, Ranges
<1>2. \E f : f = [x \in Nat \X Nat |-> MthBody(hashes, f, x)]
  BY <1>1, MthR!Recursive DEF Ranges
<1>3. Mth(hashes) = CHOOSE f : f = [x \in Nat \X Nat |-> MthBody(hashes, f, x)]
  BY DEF Mth, MthBody
<1>4. Mth(hashes) = [x \in Nat \X Nat |-> MthBody(hashes, Mth(hashes), x)]
  BY <1>2, <1>3
<1> QED BY <1>4

Paths(p) == Nat \X (Nat \X Nat)
PathRank(a) == a[2][2]
PathBody(mth, f, a) ==
  IF a[2][2] <= 1 THEN <<>>
  ELSE IF a[1] < Split(a[2][2])
    THEN Append(f[<<a[1], LeftOf(a[2])>>], mth[RightOf(a[2])])
    ELSE Append(f[<<a[1] - Split(a[2][2]), RightOf(a[2])>>], mth[LeftOf(a[2])])
PathR == INSTANCE Recursion WITH Dom <- Paths, Rank <- PathRank, Body <- PathBody

LEMMA PathEquation ==
  ASSUME NEW mth, NEW i \in Nat, NEW s \in Nat, NEW w \in Nat
  PROVE  /\ w <= 1 => PathOf(mth, i, s, w) = <<>>
         /\ w > 1 /\ i < Split(w) =>
              PathOf(mth, i, s, w) = Append(PathOf(mth, i, s, Split(w)), mth[<<s + Split(w), w - Split(w)>>])
         /\ w > 1 /\ i >= Split(w) =>
              PathOf(mth, i, s, w) =
                Append(PathOf(mth, i - Split(w), s + Split(w), w - Split(w)), mth[<<s, Split(w)>>])
<1>1. PathR!Local(mth)
  <2>1. ASSUME NEW a \in Nat \X (Nat \X Nat), NEW g, NEW h,
               \A y \in Nat \X (Nat \X Nat) : PathRank(y) < PathRank(a) => g[y] = h[y]
        PROVE  PathBody(mth, g, a) = PathBody(mth, h, a)
    <3>1. CASE a[2][2] <= 1
      BY <3>1 DEF PathBody
    <3>2. CASE a[2][2] > 1
      <4>1. /\ LeftOf(a[2]) \in Nat \X Nat /\ LeftOf(a[2])[2] < a[2][2]
            /\ RightOf(a[2]) \in Nat \X Nat /\ RightOf(a[2])[2] < a[2][2]
            /\ Split(a[2][2]) \in Nat /\ a[1] \in Nat
        BY <3>2, Halves, SplitBetween
      <4>2. CASE a[1] < Split(a[2][2])
        <5>1. g[<<a[1], LeftOf(a[2])>>] = h[<<a[1], LeftOf(a[2])>>]
          BY <4>1, <2>1 DEF PathRank
        <5> QED BY <3>2, <4>1, <4>2, <5>1 DEF PathBody
      <4>3. CASE a[1] >= Split(a[2][2])
        <5>1. a[1] - Split(a[2][2]) \in Nat
          BY <4>1, <4>3
        <5>2. g[<<a[1] - Split(a[2][2]), RightOf(a[2])>>] = h[<<a[1] - Split(a[2][2]), RightOf(a[2])>>]
          BY <4>1, <5>1, <2>1 DEF PathRank
        <5> QED BY <3>2, <4>1, <4>3, <5>2 DEF PathBody
      <4> QED BY <4>1, <4>2, <4>3
    <3> QED BY <3>1, <3>2
  <2>2. \A a \in Nat \X (Nat \X Nat) : PathRank(a) \in Nat
    BY DEF PathRank
  <2> QED BY <2>1, <2>2 DEF PathR!Local, Paths
<1>2. \E f : f = [a \in Nat \X (Nat \X Nat) |-> PathBody(mth, f, a)]
  BY <1>1, PathR!Recursive DEF Paths
<1> DEFINE path == CHOOSE f : f = [a \in Nat \X (Nat \X Nat) |-> PathBody(mth, f, a)]
<1>3. \A x, y, z : PathOf(mth, x, y, z) = path[<<x, <<y, z>>>>]
  BY DEF PathOf, PathBody
<1>4. path = [a \in Nat \X (Nat \X Nat) |-> PathBody(mth, path, a)]
  BY <1>2
<1> HIDE DEF path
<1>5. path[<<i, <<s, w>>>>] = PathBody(mth, path, <<i, <<s, w>>>>)
  BY <1>4
<1>6. CASE w <= 1
  BY <1>3, <1>5, <1>6 DEF PathBody
<1>7. CASE w > 1
  <2>1. Split(w) \in Nat
    BY <1>7, SplitBetween
  <2>2. LeftOf(<<s, w>>) = <<s, Split(w)>> /\ RightOf(<<s, w>>) = <<s + Split(w), w - Split(w)>>
    BY DEF LeftOf, RightOf
  <2> DEFINE k == Split(w)
  <2>3. path[<<i, <<s, w>>>>] = IF i < k THEN Append(path[<<i, LeftOf(<<s, w>>)>>], mth[RightOf(<<s, w>>)])
                                ELSE Append(path[<<i - k, RightOf(<<s, w>>)>>], mth[LeftOf(<<s, w>>)])
    BY <1>5, <1>7 DEF PathBody
  <2>4. /\ PathOf(mth, i, s, w) = path[<<i, <<s, w>>>>]
        /\ PathOf(mth, i, s, k) = path[<<i, <<s, k>>>>]
        /\ PathOf(mth, i - k, s + k, w - k) = path[<<i - k, <<s + k, w - k>>>>]
    BY <1>3
  <2>5. i < k => PathOf(mth, i, s, w) = Append(PathOf(mth, i, s, k), mth[<<s + k, w - k>>])
    BY <2>2, <2>3, <2>4
  <2>6. i >= k => ~(i < k)
    BY <2>1
  <2>7. i >= k => PathOf(mth, i, s, w) = Append(PathOf(mth, i - k, s + k, w - k), mth[<<s, k>>])
    BY <2>2, <2>3, <2>4, <2>6
  <2> QED BY <1>7, <2>5, <2>7
<1> QED BY <1>6, <1>7

Subs(p) == {b \in Nat \X (Nat \X Nat) \X BOOLEAN : 0 < b[1] /\ b[1] <= b[2][2]}
SubBody(mth, f, a) ==
  IF a[1] = a[2][2] THEN IF a[3] THEN <<>> ELSE <<mth[a[2]]>>
  ELSE IF a[1] <= Split(a[2][2])
    THEN Append(f[<<a[1], LeftOf(a[2]), a[3]>>], mth[RightOf(a[2])])
    ELSE Append(f[<<a[1] - Split(a[2][2]), RightOf(a[2]), FALSE>>], mth[LeftOf(a[2])])
SubR == INSTANCE Recursion WITH Dom <- Subs, Rank <- PathRank, Body <- SubBody

(* The flag of SUBPROOF by name: a truth value is no term to the provers. *)
Flags == BOOLEAN
No == FALSE

SubCases(mth, i, s, w, whole) ==
  /\ i = w /\ whole # No => SubproofOf(mth, i, s, w, whole) = <<>>
  /\ i = w /\ whole = No => SubproofOf(mth, i, s, w, whole) = <<mth[<<s, w>>]>>
  /\ i # w /\ i <= Split(w) =>
       SubproofOf(mth, i, s, w, whole) =
         Append(SubproofOf(mth, i, s, Split(w), whole), mth[<<s + Split(w), w - Split(w)>>])
  /\ i # w /\ i > Split(w) =>
       SubproofOf(mth, i, s, w, whole) =
         Append(SubproofOf(mth, i - Split(w), s + Split(w), w - Split(w), No), mth[<<s, Split(w)>>])

LEMMA SubEquation ==
  ASSUME NEW mth, NEW i \in Nat, NEW s \in Nat, NEW w \in Nat, NEW whole, whole \in Flags, 0 < i, i <= w
  PROVE  SubCases(mth, i, s, w, whole)
<1>1. SubR!Local(mth)
  <2>1. ASSUME NEW a \in Subs(mth), NEW g, NEW h,
               \A y \in Subs(mth) : PathRank(y) < PathRank(a) => g[y] = h[y]
        PROVE  SubBody(mth, g, a) = SubBody(mth, h, a)
    <3>0. /\ a[1] \in Nat /\ a[2] \in Nat \X Nat /\ a[2][2] \in Nat /\ a[3] \in BOOLEAN
          /\ 0 < a[1] /\ a[1] <= a[2][2]
      BY DEF Subs
    <3>1. CASE a[1] = a[2][2]
      BY <3>1 DEF SubBody
    <3>2. CASE a[1] # a[2][2]
      <4>0. a[2][2] > 1
        BY <3>0, <3>2
      <4>1. /\ LeftOf(a[2]) \in Nat \X Nat /\ LeftOf(a[2])[2] < a[2][2] /\ LeftOf(a[2])[2] = Split(a[2][2])
            /\ RightOf(a[2]) \in Nat \X Nat /\ RightOf(a[2])[2] < a[2][2]
            /\ RightOf(a[2])[2] = a[2][2] - Split(a[2][2])
            /\ Split(a[2][2]) \in Nat
        BY <3>0, <4>0, Halves, SplitBetween
      <4>2. CASE a[1] <= Split(a[2][2])
        <5>1. <<a[1], LeftOf(a[2]), a[3]>> \in Subs(mth)
          BY <3>0, <4>1, <4>2 DEF Subs
        <5>2. g[<<a[1], LeftOf(a[2]), a[3]>>] = h[<<a[1], LeftOf(a[2]), a[3]>>]
          BY <4>1, <5>1, <2>1 DEF PathRank
        <5> QED BY <3>0, <3>2, <4>1, <4>2, <5>2 DEF SubBody
      <4>3. CASE a[1] > Split(a[2][2])
        <5>1. <<a[1] - Split(a[2][2]), RightOf(a[2]), FALSE>> \in Subs(mth)
          <6>1. a[1] - Split(a[2][2]) \in Nat /\ 0 < a[1] - Split(a[2][2])
            BY <3>0, <4>1, <4>3
          <6>2. a[1] - Split(a[2][2]) <= RightOf(a[2])[2]
            BY <3>0, <4>1
          <6> QED BY <4>1, <6>1, <6>2 DEF Subs
        <5>2. g[<<a[1] - Split(a[2][2]), RightOf(a[2]), FALSE>>] = h[<<a[1] - Split(a[2][2]), RightOf(a[2]), FALSE>>]
          BY <4>1, <5>1, <2>1 DEF PathRank
        <5> QED BY <3>0, <3>2, <4>1, <4>3, <5>2 DEF SubBody
      <4> QED BY <3>0, <4>1, <4>2, <4>3
    <3> QED BY <3>1, <3>2
  <2>2. \A a \in Subs(mth) : PathRank(a) \in Nat
    BY DEF PathRank, Subs
  <2> QED BY <2>1, <2>2 DEF SubR!Local
<1>2. \E f : f = [a \in Subs(mth) |-> SubBody(mth, f, a)]
  BY <1>1, SubR!Recursive
<1> DEFINE sub == CHOOSE f : f = [a \in Subs(mth) |-> SubBody(mth, f, a)]
<1>3. \A x, y, z, b : SubproofOf(mth, x, y, z, b) = sub[<<x, <<y, z>>, b>>]
  BY DEF SubproofOf, SubBody, Subs
<1>4. sub = [a \in Subs(mth) |-> SubBody(mth, sub, a)]
  BY <1>2
<1> HIDE DEF sub
<1>5. <<i, <<s, w>>, whole>> \in Subs(mth)
  BY DEF Subs, Flags
<1>6. sub[<<i, <<s, w>>, whole>>] = SubBody(mth, sub, <<i, <<s, w>>, whole>>)
  BY <1>4, <1>5
<1>7. LeftOf(<<s, w>>) = <<s, Split(w)>> /\ RightOf(<<s, w>>) = <<s + Split(w), w - Split(w)>>
  BY DEF LeftOf, RightOf
<1>8. CASE i = w
  <2>1. sub[<<i, <<s, w>>, whole>>] = IF whole # No THEN <<>> ELSE <<mth[<<s, w>>]>>
    BY <1>6, <1>8 DEF SubBody, Flags, No
  <2>2. SubproofOf(mth, i, s, w, whole) = IF whole # No THEN <<>> ELSE <<mth[<<s, w>>]>>
    BY <1>3, <2>1
  <2> QED BY <1>8, <2>2 DEF SubCases
<1>9. CASE i # w
  <2>1. Split(w) \in Nat
    BY <1>9, SplitBetween
  <2> DEFINE k == Split(w)
  <2>2. sub[<<i, <<s, w>>, whole>>] =
          IF i <= k THEN Append(sub[<<i, LeftOf(<<s, w>>), whole>>], mth[RightOf(<<s, w>>)])
          ELSE Append(sub[<<i - k, RightOf(<<s, w>>), No>>], mth[LeftOf(<<s, w>>)])
    BY <1>6, <1>9 DEF SubBody, No
  <2>3. /\ SubproofOf(mth, i, s, w, whole) = sub[<<i, <<s, w>>, whole>>]
        /\ SubproofOf(mth, i, s, k, whole) = sub[<<i, <<s, k>>, whole>>]
        /\ SubproofOf(mth, i - k, s + k, w - k, No) = sub[<<i - k, <<s + k, w - k>>, No>>]
    BY <1>3
  <2>4. i <= k => SubproofOf(mth, i, s, w, whole) = Append(SubproofOf(mth, i, s, k, whole), mth[<<s + k, w - k>>])
    BY <1>7, <2>2, <2>3
  <2>5. i > k => ~(i <= k)
    BY <2>1
  <2>6. i > k => SubproofOf(mth, i, s, w, whole) =
                   Append(SubproofOf(mth, i - k, s + k, w - k, No), mth[<<s, k>>])
    BY <1>7, <2>2, <2>3, <2>5
  <2> QED BY <1>9, <2>4, <2>6 DEF SubCases
<1> QED BY <1>8, <1>9

-----------------------------------------------------------------------------
(* The loops of the verifiers by their equations. *)
Pairs(p) == Nat \X Nat
FirstRank(v) == v[1]
Halves2(v) == <<v[1] \div 2, v[2] \div 2>>
ClimbBody(p, f, v) == IF Odd(v[1]) \/ v[1] = 0 THEN v ELSE f[<<v[1] \div 2, v[2] \div 2>>]
StripBody(p, f, v) == IF Odd(v[1]) THEN f[<<v[1] \div 2, v[2] \div 2>>] ELSE v
ClimbR == INSTANCE Recursion WITH Dom <- Pairs, Rank <- FirstRank, Body <- ClimbBody
StripR == INSTANCE Recursion WITH Dom <- Pairs, Rank <- FirstRank, Body <- StripBody
Climb == CHOOSE f : f = [v \in Nat \X Nat |-> ClimbBody(0, f, v)]
Strip == CHOOSE f : f = [v \in Nat \X Nat |-> StripBody(0, f, v)]

LEMMA Half ==
  ASSUME NEW n \in Nat
  PROVE  /\ n \div 2 \in Nat
         /\ Odd(n) => n = 2 * (n \div 2) + 1
         /\ ~Odd(n) => n = 2 * (n \div 2)
         /\ n # 0 => n \div 2 < n
BY DEF Odd

LEMMA ClimbEquation ==
  ASSUME NEW a \in Nat, NEW b \in Nat
  PROVE  Climb[<<a, b>>] = IF Odd(a) \/ a = 0 THEN <<a, b>> ELSE Climb[<<a \div 2, b \div 2>>]
<1>1. ClimbR!Local(0)
  <2>1. ASSUME NEW v \in Nat \X Nat, NEW g, NEW h,
               \A y \in Nat \X Nat : FirstRank(y) < FirstRank(v) => g[y] = h[y]
        PROVE  ClimbBody(0, g, v) = ClimbBody(0, h, v)
    <3>1. CASE Odd(v[1]) \/ v[1] = 0
      BY <3>1 DEF ClimbBody
    <3>2. CASE ~(Odd(v[1]) \/ v[1] = 0)
      <4>1. <<v[1] \div 2, v[2] \div 2>> \in Nat \X Nat /\ v[1] \div 2 < v[1]
        BY <3>2, Half
      <4>2. g[<<v[1] \div 2, v[2] \div 2>>] = h[<<v[1] \div 2, v[2] \div 2>>]
        BY <4>1, <2>1 DEF FirstRank
      <4> QED BY <3>2, <4>2 DEF ClimbBody
    <3> QED BY <3>1, <3>2
  <2>2. \A v \in Nat \X Nat : FirstRank(v) \in Nat
    BY DEF FirstRank
  <2> QED BY <2>1, <2>2 DEF ClimbR!Local, Pairs
<1>2. \E f : f = [v \in Nat \X Nat |-> ClimbBody(0, f, v)]
  BY <1>1, ClimbR!Recursive DEF Pairs
<1>3. Climb = [v \in Nat \X Nat |-> ClimbBody(0, Climb, v)]
  BY <1>2 DEF Climb
<1>4. Climb[<<a, b>>] = ClimbBody(0, Climb, <<a, b>>)
  BY <1>3
<1> QED BY <1>4 DEF ClimbBody

LEMMA StripEquation ==
  ASSUME NEW a \in Nat, NEW b \in Nat
  PROVE  Strip[<<a, b>>] = IF Odd(a) THEN Strip[<<a \div 2, b \div 2>>] ELSE <<a, b>>
<1>1. StripR!Local(0)
  <2>1. ASSUME NEW v \in Nat \X Nat, NEW g, NEW h,
               \A y \in Nat \X Nat : FirstRank(y) < FirstRank(v) => g[y] = h[y]
        PROVE  StripBody(0, g, v) = StripBody(0, h, v)
    <3>1. CASE Odd(v[1])
      <4>1. <<v[1] \div 2, v[2] \div 2>> \in Nat \X Nat /\ v[1] \div 2 < v[1]
        BY <3>1, Half DEF Odd
      <4>2. g[<<v[1] \div 2, v[2] \div 2>>] = h[<<v[1] \div 2, v[2] \div 2>>]
        BY <4>1, <2>1 DEF FirstRank
      <4> QED BY <3>1, <4>2 DEF StripBody
    <3>2. CASE ~Odd(v[1])
      BY <3>2 DEF StripBody
    <3> QED BY <3>1, <3>2
  <2>2. \A v \in Nat \X Nat : FirstRank(v) \in Nat
    BY DEF FirstRank
  <2> QED BY <2>1, <2>2 DEF StripR!Local, Pairs
<1>2. \E f : f = [v \in Nat \X Nat |-> StripBody(0, f, v)]
  BY <1>1, StripR!Recursive DEF Pairs
<1>3. Strip = [v \in Nat \X Nat |-> StripBody(0, Strip, v)]
  BY <1>2 DEF Strip
<1>4. Strip[<<a, b>>] = StripBody(0, Strip, <<a, b>>)
  BY <1>3
<1> QED BY <1>4 DEF StripBody

Steps(p) == 0..Len(p[2])
StepRank(i) == i
StepBody(p, f, i) == IF i = 0 THEN p[1] ELSE Advanced(f[i - 1], p[2][i])
WalkR == INSTANCE Recursion WITH Dom <- Steps, Rank <- StepRank, Body <- StepBody

\* The verifier after each hash of the proof.
LEMMA WalkEquation ==
  ASSUME NEW start, NEW S, NEW proof \in Seq(S)
  PROVE  \E walk : /\ walk[0] = start
                   /\ \A i \in 1..Len(proof) : walk[i] = Advanced(walk[i - 1], proof[i])
                   /\ Walk(start, proof) = walk[Len(proof)]
<1> DEFINE p == <<start, proof>>
<1>1. WalkR!Local(p)
  <2>1. ASSUME NEW i \in Steps(p), NEW g, NEW h,
               \A j \in Steps(p) : StepRank(j) < StepRank(i) => g[j] = h[j]
        PROVE  StepBody(p, g, i) = StepBody(p, h, i)
    <3>1. i \in Nat /\ i <= Len(proof) /\ Len(proof) \in Nat
      BY DEF Steps
    <3>2. i # 0 => i - 1 \in Steps(p) /\ i - 1 < i
      BY <3>1 DEF Steps
    <3>3. i # 0 => g[i - 1] = h[i - 1]
      BY <3>2, <2>1 DEF StepRank
    <3> QED BY <3>3 DEF StepBody
  <2>2. \A i \in Steps(p) : StepRank(i) \in Nat
    BY DEF StepRank, Steps
  <2> QED BY <2>1, <2>2 DEF WalkR!Local
<1>2. \E f : f = [i \in Steps(p) |-> StepBody(p, f, i)]
  BY <1>1, WalkR!Recursive
<1> DEFINE walk == CHOOSE f : f = [i \in 0..Len(proof) |-> IF i = 0 THEN start ELSE Advanced(f[i - 1], proof[i])]
<1>3. Walk(start, proof) = walk[Len(proof)]
  BY DEF Walk
<1>4. walk = [i \in 0..Len(proof) |-> IF i = 0 THEN start ELSE Advanced(walk[i - 1], proof[i])]
  BY <1>2 DEF Steps, StepBody
<1> HIDE DEF walk
<1>5. 0 \in 0..Len(proof) /\ \A i \in 1..Len(proof) : i \in 0..Len(proof) /\ i # 0
  OBVIOUS
<1>6. walk[0] = start
  BY <1>4, <1>5
<1>7. \A i \in 1..Len(proof) : walk[i] = Advanced(walk[i - 1], proof[i])
  BY <1>4, <1>5
<1> QED BY <1>3, <1>6, <1>7

-----------------------------------------------------------------------------
(***************************************************************************)
(* A ladder: the levels of a tree as a verifier passes them, numbered from *)
(* the leaves.  At level i, fn[i] and sn[i] are the numbers of the node    *)
(* above the leaf it started from and of the last node; own[i] is the      *)
(* first one's hash, sib[i] the hash beside it, old[i] the hash of what    *)
(* the old tree had of it; path[i] is what a verifier that begins at level *)
(* `from` has to be given to get there.                                    *)
(***************************************************************************)
Joins(L, i) == Odd(L.fn[i]) \/ L.fn[i] < L.sn[i]

Rung(L, i) ==
  /\ Odd(L.fn[i]) => /\ L.own[i + 1] = node_hash(L.sib[i], L.own[i])
                     /\ L.old[i + 1] = node_hash(L.sib[i], L.old[i])
  /\ ~Odd(L.fn[i]) => L.old[i + 1] = L.old[i]
  /\ ~Odd(L.fn[i]) /\ L.fn[i] < L.sn[i] => L.own[i + 1] = node_hash(L.own[i], L.sib[i])
  /\ ~Joins(L, i) => L.own[i + 1] = L.own[i] /\ L.path[i + 1] = L.path[i]
  /\ Joins(L, i) => L.sib[i] \in L.hashes /\ L.path[i + 1] = Append(L.path[i], L.sib[i])

Levels(L) ==
  \A i \in Nat : /\ L.fn[i] \in Nat /\ L.sn[i] \in Nat /\ L.fn[i] <= L.sn[i]
                 /\ L.fn[i + 1] = L.fn[i] \div 2 /\ L.sn[i + 1] = L.sn[i] \div 2

Ladder(L) ==
  /\ L.from \in Nat /\ L.top \in Nat /\ L.top >= L.from /\ L.sn[L.top] = 0
  /\ Levels(L)
  /\ \A i \in Nat : L.path[i] \in Seq(L.hashes)
  /\ \A i \in Nat : i >= L.from => Rung(L, i)
  /\ L.path[L.from] = <<L.own[L.from]>> /\ L.old[L.from] = L.own[L.from]

LEMMA AppendIs ==
  ASSUME NEW S, NEW s \in Seq(S), NEW x \in S
  PROVE  /\ Append(s, x) \in Seq(S) /\ Len(Append(s, x)) = Len(s) + 1
         /\ \A j \in 1..Len(s) : Append(s, x)[j] = s[j]
         /\ Append(s, x)[Len(s) + 1] = x
OBVIOUS

LEMMA SameElements ==
  ASSUME NEW S, NEW s \in Seq(S), NEW T, NEW t \in Seq(T), Len(s) = Len(t),
         \A j \in 1..Len(s) : s[j] = t[j]
  PROVE  s = t
<1>1. s = [j \in 1..Len(s) |-> s[j]] /\ t = [j \in 1..Len(t) |-> t[j]]
  OBVIOUS
<1> QED BY <1>1

LEMMA LongerByOne ==
  ASSUME NEW L, Ladder(L), NEW i \in Nat, i >= L.from
  PROVE  /\ Len(L.path[i]) \in Nat
         /\ Joins(L, i) =>
              /\ Len(L.path[i + 1]) = Len(L.path[i]) + 1
              /\ \A j \in 1..Len(L.path[i]) : L.path[i + 1][j] = L.path[i][j]
              /\ L.path[i + 1][Len(L.path[i]) + 1] = L.sib[i]
<1>1. L.path[i] \in Seq(L.hashes) /\ Rung(L, i)
  BY DEF Ladder
<1>2. Joins(L, i) => L.sib[i] \in L.hashes /\ L.path[i + 1] = Append(L.path[i], L.sib[i])
  BY <1>1 DEF Rung
<1> QED BY <1>1, <1>2, AppendIs

LEMMA LastNode ==
  ASSUME NEW L, Ladder(L), NEW i \in Nat, L.sn[i] = 0
  PROVE  L.fn[i] = 0 /\ ~Joins(L, i) /\ L.sn[i + 1] = 0
<1>1. L.fn[i] \in Nat /\ L.sn[i] \in Nat /\ L.fn[i] <= L.sn[i] /\ L.sn[i + 1] = L.sn[i] \div 2
  BY DEF Ladder, Levels
<1> QED BY <1>1 DEF Joins, Odd

\* Above the root nothing changes.
LEMMA Above ==
  ASSUME NEW L, Ladder(L), NEW i \in Nat, i >= L.from, L.sn[i] = 0
  PROVE  \A k \in Nat : k >= i => /\ L.sn[k] = 0 /\ L.path[k] = L.path[i]
                                  /\ L.own[k] = L.own[i] /\ L.old[k] = L.old[i]
<1> DEFINE S == {d \in Nat : /\ L.sn[i + d] = 0 /\ L.path[i + d] = L.path[i]
                             /\ L.own[i + d] = L.own[i] /\ L.old[i + d] = L.old[i]}
<1>1. 0 \in S
  OBVIOUS
<1>2. ASSUME NEW d \in Nat, d \in S PROVE d + 1 \in S
  <2> DEFINE k == i + d
  <2>1. k \in Nat /\ k >= L.from /\ L.sn[k] = 0 /\ i + (d + 1) = k + 1
    BY <1>2 DEF Ladder
  <2>2. L.fn[k] = 0 /\ ~Joins(L, k) /\ L.sn[k + 1] = 0 /\ ~Odd(L.fn[k])
    BY <2>1, LastNode DEF Joins
  <2>3. Rung(L, k)
    BY <2>1 DEF Ladder
  <2>4. L.own[k + 1] = L.own[k] /\ L.path[k + 1] = L.path[k] /\ L.old[k + 1] = L.old[k]
    BY <2>2, <2>3 DEF Rung
  <2> QED BY <1>2, <2>1, <2>2, <2>4
<1>3. Nat \subseteq S
  <2> HIDE DEF S
  <2> QED BY <1>1, <1>2, PowR!SetInduction
<1> QED
  <2> SUFFICES ASSUME NEW k \in Nat, k >= i
               PROVE  /\ L.sn[k] = 0 /\ L.path[k] = L.path[i]
                      /\ L.own[k] = L.own[i] /\ L.old[k] = L.old[i]
    OBVIOUS
  <2>1. k - i \in Nat /\ i + (k - i) = k
    OBVIOUS
  <2> QED BY <2>1, <1>3

\* Two levels at the root or above it do not differ.
LEMMA SameTop ==
  ASSUME NEW L, Ladder(L), NEW i \in Nat, i >= L.from, L.sn[i] = 0,
         NEW k \in Nat, k >= L.from, L.sn[k] = 0
  PROVE  L.path[k] = L.path[i] /\ L.own[k] = L.own[i] /\ L.old[k] = L.old[i]
<1>1. k >= i \/ i >= k
  OBVIOUS
<1> QED BY <1>1, Above

(***************************************************************************)
(* The next level at which something is joined, and what the loops of the  *)
(* verifier do on the way to it: nothing to the hashes.                    *)
(***************************************************************************)
Climbs(L, i, j) ==
  /\ j \in Nat /\ j >= i /\ Odd(L.fn[j])
  /\ L.own[j] = L.own[i] /\ L.old[j] = L.old[i] /\ L.path[j] = L.path[i]
  /\ Climb[<<L.fn[i], L.sn[i]>>] = <<L.fn[j], L.sn[j]>>

LEMMA ClimbsTo ==
  ASSUME NEW L, Ladder(L)
  PROVE  \A i \in Nat : i >= L.from /\ L.sn[i] # 0 /\ (Odd(L.fn[i]) \/ L.fn[i] = L.sn[i])
                          => \E j \in Nat : Climbs(L, i, j)
<1> DEFINE P(i) == i >= L.from /\ L.sn[i] # 0 /\ (Odd(L.fn[i]) \/ L.fn[i] = L.sn[i])
                     => \E j \in Nat : Climbs(L, i, j)
           S == {n \in Nat : \A i \in Nat : L.fn[i] = n => P(i)}
<1>1. ASSUME NEW n \in Nat, \A m \in Nat : m < n => m \in S PROVE n \in S
  <2> SUFFICES ASSUME NEW i \in Nat, L.fn[i] = n, i >= L.from, L.sn[i] # 0,
                      Odd(L.fn[i]) \/ L.fn[i] = L.sn[i]
               PROVE  \E j \in Nat : Climbs(L, i, j)
    OBVIOUS
  <2>1. /\ L.fn[i] \in Nat /\ L.sn[i] \in Nat /\ L.fn[i + 1] = L.fn[i] \div 2 /\ L.sn[i + 1] = L.sn[i] \div 2
        /\ L.fn[i + 1] \in Nat /\ L.sn[i + 1] \in Nat /\ i + 1 \in Nat /\ i + 1 >= L.from
    <3>1. Levels(L) /\ L.from \in Nat
      BY DEF Ladder
    <3>2. i + 1 \in Nat /\ i + 1 >= L.from
      BY <3>1
    <3>3. L.fn[i + 1] \in Nat /\ L.sn[i + 1] \in Nat
      BY <3>1, <3>2 DEF Levels
    <3> QED BY <3>1, <3>2, <3>3 DEF Levels
  <2>2. CASE Odd(L.fn[i])
    <3>1. Climb[<<L.fn[i], L.sn[i]>>] = <<L.fn[i], L.sn[i]>>
      BY <2>1, <2>2, ClimbEquation
    <3> QED BY <2>2, <3>1 DEF Climbs
  <2>3. CASE ~Odd(L.fn[i])
    <3>1. L.fn[i] = L.sn[i] /\ L.fn[i] # 0 /\ ~Joins(L, i)
      BY <2>1, <2>3 DEF Joins
    <3>2. Climb[<<L.fn[i], L.sn[i]>>] = Climb[<<L.fn[i + 1], L.sn[i + 1]>>]
      BY <2>1, <2>3, <3>1, ClimbEquation
    <3>3. L.fn[i + 1] < n /\ L.fn[i + 1] = L.sn[i + 1] /\ L.sn[i + 1] # 0
      BY <2>1, <2>3, <3>1, Half
    <3>4. L.fn[i + 1] \in S
      BY <3>3, <2>1, <1>1
    <3>5. PICK j \in Nat : Climbs(L, i + 1, j)
      BY <3>3, <3>4, <2>1
    <3>6. Rung(L, i)
      BY DEF Ladder
    <3>7. L.own[i + 1] = L.own[i] /\ L.old[i + 1] = L.old[i] /\ L.path[i + 1] = L.path[i]
      BY <3>6, <3>1, <2>3 DEF Rung
    <3>8. Climbs(L, i, j)
      BY <3>2, <3>5, <3>7 DEF Climbs
    <3> QED BY <3>8
  <2> QED BY <2>2, <2>3
<1>2. Nat \subseteq S
  <2> HIDE DEF S
  <2> QED BY <1>1, PowR!StrongInduction
<1> SUFFICES ASSUME NEW i \in Nat PROVE P(i)
  OBVIOUS
<1>3. L.fn[i] \in Nat
  BY DEF Ladder, Levels
<1>4. L.fn[i] \in S
  BY <1>2, <1>3
<1> QED BY <1>4

LEMMA NeverShorter ==
  ASSUME NEW L, Ladder(L), NEW i \in Nat, i >= L.from
  PROVE  \A k \in Nat : k >= i => Len(L.path[i]) <= Len(L.path[k])
<1> DEFINE S == {d \in Nat : Len(L.path[i]) <= Len(L.path[i + d])}
<1>1. 0 \in S
  BY LongerByOne
<1>2. ASSUME NEW d \in Nat, d \in S PROVE d + 1 \in S
  <2> DEFINE k == i + d
  <2>1. k \in Nat /\ k >= L.from /\ i + (d + 1) = k + 1 /\ L.from \in Nat
    BY DEF Ladder
  <2>2. Len(L.path[k]) \in Nat /\ Len(L.path[i]) \in Nat /\ Len(L.path[i]) <= Len(L.path[k])
    BY <2>1, <1>2, LongerByOne
  <2>3. Rung(L, k)
    BY <2>1 DEF Ladder
  <2>4. ~Joins(L, k) => L.path[k + 1] = L.path[k]
    BY <2>3 DEF Rung
  <2>5. Joins(L, k) => Len(L.path[k + 1]) = Len(L.path[k]) + 1
    BY <2>1, LongerByOne
  <2> QED BY <2>1, <2>2, <2>4, <2>5
<1>3. Nat \subseteq S
  <2> HIDE DEF S
  <2> QED BY <1>1, <1>2, PowR!SetInduction
<1> QED
  <2> SUFFICES ASSUME NEW k \in Nat, k >= i PROVE Len(L.path[i]) <= Len(L.path[k])
    OBVIOUS
  <2>1. k - i \in Nat /\ i + (k - i) = k
    OBVIOUS
  <2> QED BY <2>1, <1>3

\* Below the root there is a hash yet to come.
LEMMA MoreToCome ==
  ASSUME NEW L, Ladder(L), NEW i \in Nat, i >= L.from, L.sn[i] # 0
  PROVE  Len(L.path[i]) < Len(L.path[L.top])
<1>1. /\ L.fn[i] \in Nat /\ L.sn[i] \in Nat /\ L.fn[i] <= L.sn[i] /\ L.from \in Nat
      /\ L.top \in Nat /\ L.top >= L.from /\ L.sn[L.top] = 0
  BY DEF Ladder, Levels
<1>2. PICK j \in Nat : j >= i /\ Joins(L, j) /\ L.path[j] = L.path[i]
  <2>1. CASE Odd(L.fn[i]) \/ L.fn[i] = L.sn[i]
    <3>1. PICK j \in Nat : Climbs(L, i, j)
      BY <2>1, ClimbsTo
    <3> QED BY <3>1 DEF Climbs, Joins
  <2>2. CASE ~(Odd(L.fn[i]) \/ L.fn[i] = L.sn[i])
    <3>1. Joins(L, i)
      BY <1>1, <2>2 DEF Joins
    <3> QED BY <3>1
  <2> QED BY <2>1, <2>2
<1>3. j >= L.from /\ Len(L.path[j + 1]) = Len(L.path[i]) + 1 /\ Len(L.path[i]) \in Nat
  <2>1. j >= L.from
    BY <1>1, <1>2
  <2> QED BY <1>2, <2>1, LongerByOne
<1>4. L.sn[j] # 0
  BY <1>2, LastNode
<1>5. ~(L.top <= j)
  BY <1>1, <1>2, <1>4, Above
<1>6. j + 1 \in Nat /\ j + 1 >= L.from /\ L.top >= j + 1
  BY <1>1, <1>3, <1>5
<1>7. Len(L.path[j + 1]) <= Len(L.path[L.top])
  BY <1>1, <1>6, NeverShorter
<1>8. Len(L.path[L.top]) \in Nat
  BY <1>1, LongerByOne
<1> QED BY <1>3, <1>7, <1>8

-----------------------------------------------------------------------------
(* The verifier's variables, and what its statements make of them. *)
W(fn, sn, fr, sr, ok) == [fn |-> fn, sn |-> sn, fr |-> fr, sr |-> sr, ok |-> ok]
Placed(w, c, d) == [w EXCEPT !.fn = c, !.sn = d]
HashedWith(w, x) == [w EXCEPT !.fr = node_hash(x, @), !.sr = node_hash(x, @)]
Extended(w, x) == [w EXCEPT !.sr = node_hash(@, x)]

LEMMA PlacedIs ==
  ASSUME NEW a, NEW b, NEW fr, NEW sr, NEW ok, NEW c, NEW d
  PROVE  Placed(W(a, b, fr, sr, ok), c, d) = W(c, d, fr, sr, ok)
<1>1. Placed(W(a, b, fr, sr, ok), c, d) = [[W(a, b, fr, sr, ok) EXCEPT !.fn = c] EXCEPT !.sn = d]
  BY DEF W, Placed
<1>2. [W(a, b, fr, sr, ok) EXCEPT !.fn = c] = W(c, b, fr, sr, ok)
  BY DEF W
<1>3. [W(c, b, fr, sr, ok) EXCEPT !.sn = d] = W(c, d, fr, sr, ok)
  BY DEF W
<1> QED BY <1>1, <1>2, <1>3

LEMMA HalvedIs ==
  ASSUME NEW a, NEW b, NEW fr, NEW sr, NEW ok
  PROVE  Halved(W(a, b, fr, sr, ok)) = W(a \div 2, b \div 2, fr, sr, ok)
<1>1. Halved(W(a, b, fr, sr, ok)) = [[W(a, b, fr, sr, ok) EXCEPT !.fn = a \div 2] EXCEPT !.sn = b \div 2]
  BY DEF W, Halved
<1>2. [W(a, b, fr, sr, ok) EXCEPT !.fn = a \div 2] = W(a \div 2, b, fr, sr, ok)
  BY DEF W
<1>3. [W(a \div 2, b, fr, sr, ok) EXCEPT !.sn = b \div 2] = W(a \div 2, b \div 2, fr, sr, ok)
  BY DEF W
<1> QED BY <1>1, <1>2, <1>3

LEMMA ClimbedIs ==
  ASSUME NEW a, NEW b, NEW fr, NEW sr, NEW ok, NEW c, NEW d, Climb[<<a, b>>] = <<c, d>>
  PROVE  Climbed(W(a, b, fr, sr, ok)) = W(c, d, fr, sr, ok)
<1> DEFINE w == W(a, b, fr, sr, ok)
<1>1. w.fn = a /\ w.sn = b
  BY DEF W
<1> HIDE DEF w
<1>2. Climbed(w) = Placed(w, Climb[<<w.fn, w.sn>>][1], Climb[<<w.fn, w.sn>>][2])
  BY DEF Climbed, Climb, ClimbBody, Placed
<1>3. Climb[<<w.fn, w.sn>>][1] = c /\ Climb[<<w.fn, w.sn>>][2] = d
  BY <1>1
<1>4. Climbed(w) = Placed(w, c, d)
  BY <1>2, <1>3
<1> QED BY <1>4, PlacedIs DEF w

LEMMA StrippedIs ==
  ASSUME NEW a, NEW b, NEW fr, NEW sr, NEW ok, NEW c, NEW d, Strip[<<a, b>>] = <<c, d>>
  PROVE  Stripped(W(a, b, fr, sr, ok)) = W(c, d, fr, sr, ok)
<1> DEFINE w == W(a, b, fr, sr, ok)
<1>1. w.fn = a /\ w.sn = b
  BY DEF W
<1> HIDE DEF w
<1>2. Stripped(w) = Placed(w, Strip[<<w.fn, w.sn>>][1], Strip[<<w.fn, w.sn>>][2])
  BY DEF Stripped, Strip, StripBody, Placed
<1>3. Strip[<<w.fn, w.sn>>][1] = c /\ Strip[<<w.fn, w.sn>>][2] = d
  BY <1>1
<1>4. Stripped(w) = Placed(w, c, d)
  BY <1>2, <1>3
<1> QED BY <1>4, PlacedIs DEF w

LEMMA HashedIs ==
  ASSUME NEW a, NEW b, NEW fr, NEW sr, NEW ok, NEW x
  PROVE  /\ HashedWith(W(a, b, fr, sr, ok), x) = W(a, b, node_hash(x, fr), node_hash(x, sr), ok)
         /\ Extended(W(a, b, fr, sr, ok), x) = W(a, b, fr, node_hash(sr, x), ok)
<1>1. HashedWith(W(a, b, fr, sr, ok), x)
        = [[W(a, b, fr, sr, ok) EXCEPT !.fr = node_hash(x, fr)] EXCEPT !.sr = node_hash(x, sr)]
  BY DEF W, HashedWith
<1>2. [W(a, b, fr, sr, ok) EXCEPT !.fr = node_hash(x, fr)] = W(a, b, node_hash(x, fr), sr, ok)
  BY DEF W
<1>3. [W(a, b, node_hash(x, fr), sr, ok) EXCEPT !.sr = node_hash(x, sr)]
        = W(a, b, node_hash(x, fr), node_hash(x, sr), ok)
  BY DEF W
<1>4. Extended(W(a, b, fr, sr, ok), x) = W(a, b, fr, node_hash(sr, x), ok)
  BY DEF W, Extended
<1> QED BY <1>1, <1>2, <1>3, <1>4

\* What one step of the loop does, by the kind of node it is at.
LEMMA StepRight ==
  ASSUME NEW a, NEW b, NEW fr, NEW sr, NEW ok, NEW x, NEW c, NEW d,
         b # 0, Odd(a) \/ a = b, Climb[<<a, b>>] = <<c, d>>
  PROVE  Step(W(a, b, fr, sr, ok), x) = W(c \div 2, d \div 2, node_hash(x, fr), node_hash(x, sr), ok)
<1> DEFINE w == W(a, b, fr, sr, ok)
<1>1. w.fn = a /\ w.sn = b
  BY DEF W
<1>2. HashedWith(w, x) = W(a, b, node_hash(x, fr), node_hash(x, sr), ok)
  BY HashedIs
<1> HIDE DEF w
<1>3. Step(w, x) = Halved(Climbed(HashedWith(w, x)))
  BY <1>1 DEF Step, OnTheRight, HashedWith
<1>4. Step(w, x) = Halved(W(c, d, node_hash(x, fr), node_hash(x, sr), ok))
  BY <1>2, <1>3, ClimbedIs
<1> QED BY <1>4, HalvedIs DEF w

LEMMA StepLeft ==
  ASSUME NEW a, NEW b, NEW fr, NEW sr, NEW ok, NEW x, b # 0, ~(Odd(a) \/ a = b)
  PROVE  Step(W(a, b, fr, sr, ok), x) = W(a \div 2, b \div 2, fr, node_hash(sr, x), ok)
<1> DEFINE w == W(a, b, fr, sr, ok)
<1>1. w.fn = a /\ w.sn = b
  BY DEF W
<1>2. Extended(w, x) = W(a, b, fr, node_hash(sr, x), ok)
  BY HashedIs
<1> HIDE DEF w
<1>3. Step(w, x) = Halved(Extended(w, x))
  BY <1>1 DEF Step, OnTheRight, Extended
<1>4. Step(w, x) = Halved(W(a, b, fr, node_hash(sr, x), ok))
  BY <1>2, <1>3
<1> QED BY <1>4, HalvedIs DEF w

-----------------------------------------------------------------------------
(***************************************************************************)
(* What holds of a walk that has been given c + 1 hashes: it stands at a   *)
(* level that takes as many, with the right hash exactly when all it was   *)
(* given was right, or it was given more than there are.                   *)
(***************************************************************************)
Agree(L, i, given) == \A j \in 1..Len(L.path[i]) : given[j] = L.path[i][j]

AtLevel(L, given, c, w, i, fr, sr, ok) ==
  /\ i \in Nat /\ i >= L.from /\ Len(L.path[i]) = c + 1
  /\ w = W(L.fn[i], L.sn[i], fr, sr, ok) /\ ok = TRUE
  /\ sr = L.own[i] <=> Agree(L, i, given)
  /\ sr = L.own[i] => fr = L.old[i]

At(L, given, c, w) == \E i, fr, sr, ok : AtLevel(L, given, c, w, i, fr, sr, ok)

Given(L, given, c, w) == \/ At(L, given, c, w)
                         \/ w.ok = FALSE /\ Len(L.path[L.top]) < c + 1

LEMMA AtFields ==
  ASSUME NEW L, NEW given, NEW c, NEW w, NEW i, NEW fr, NEW sr, NEW ok, AtLevel(L, given, c, w, i, fr, sr, ok)
  PROVE  w.sn = L.sn[i] /\ w.fr = fr /\ w.sr = sr /\ w.ok = TRUE
BY DEF AtLevel, W

LEMMA NodesDiffer ==
  ASSUME NEW a, NEW b, NEW c, NEW d
  PROVE  node_hash(a, b) = node_hash(c, d) <=> a = c /\ b = d
BY DEF node_hash

LEMMA AgreeNext ==
  ASSUME NEW L, Ladder(L), NEW i \in Nat, i >= L.from, Joins(L, i), NEW given
  PROVE  Agree(L, i + 1, given) <=> Agree(L, i, given) /\ given[Len(L.path[i]) + 1] = L.sib[i]
<1>1. /\ Len(L.path[i]) \in Nat /\ Len(L.path[i + 1]) = Len(L.path[i]) + 1
      /\ \A j \in 1..Len(L.path[i]) : L.path[i + 1][j] = L.path[i][j]
      /\ L.path[i + 1][Len(L.path[i]) + 1] = L.sib[i]
  BY LongerByOne
<1>2. \A j : j \in 1..(Len(L.path[i]) + 1) <=> j \in 1..Len(L.path[i]) \/ j = Len(L.path[i]) + 1
  BY <1>1
<1> QED BY <1>1, <1>2 DEF Agree

LEMMA StepAt ==
  ASSUME NEW L, Ladder(L), NEW given, NEW c \in Nat, NEW w, At(L, given, c, w), w.sn # 0
  PROVE  At(L, given, c + 1, Step(w, given[c + 2]))
<1> DEFINE x == given[c + 2]
<1>0. PICK i, fr, sr, ok : AtLevel(L, given, c, w, i, fr, sr, ok)
  BY DEF At
<1>1. /\ i \in Nat /\ i >= L.from /\ Len(L.path[i]) = c + 1
      /\ w = W(L.fn[i], L.sn[i], fr, sr, ok) /\ ok = TRUE
      /\ sr = L.own[i] <=> Agree(L, i, given)
      /\ sr = L.own[i] => fr = L.old[i]
  BY <1>0 DEF AtLevel
<1>2. Levels(L) /\ L.from \in Nat
  BY DEF Ladder
<1>3. L.fn[i] \in Nat /\ L.sn[i] \in Nat /\ L.fn[i] <= L.sn[i] /\ L.sn[i] # 0
  <2>1. w.sn = L.sn[i]
    BY <1>1 DEF W
  <2> QED BY <2>1, <1>1, <1>2 DEF Levels
<1>4. CASE Odd(L.fn[i]) \/ L.fn[i] = L.sn[i]
  <2>1. PICK j \in Nat : Climbs(L, i, j)
    BY <1>1, <1>3, <1>4, ClimbsTo
  <2>2. /\ j >= L.from /\ Odd(L.fn[j]) /\ Joins(L, j) /\ Rung(L, j)
        /\ L.own[j] = L.own[i] /\ L.old[j] = L.old[i] /\ L.path[j] = L.path[i]
    BY <1>1, <1>2, <2>1 DEF Climbs, Joins, Ladder
  <2>3. L.own[j + 1] = node_hash(L.sib[j], L.own[i]) /\ L.old[j + 1] = node_hash(L.sib[j], L.old[i])
    BY <2>2 DEF Rung
  <2>4. Len(L.path[j + 1]) = c + 2
    BY <1>1, <2>2, LongerByOne
  <2>5. Agree(L, j + 1, given) <=> Agree(L, i, given) /\ x = L.sib[j]
    <3>1. Agree(L, j, given) <=> Agree(L, i, given)
      BY <2>2 DEF Agree
    <3>2. Len(L.path[j]) + 1 = c + 2
      BY <1>1, <2>2
    <3> QED BY <2>2, <3>1, <3>2, AgreeNext
  <2>6. Step(w, x) = W(L.fn[j + 1], L.sn[j + 1], node_hash(x, fr), node_hash(x, sr), ok)
    <3>1. L.fn[j + 1] = L.fn[j] \div 2 /\ L.sn[j + 1] = L.sn[j] \div 2
      BY <1>2 DEF Levels
    <3>2. Climb[<<L.fn[i], L.sn[i]>>] = <<L.fn[j], L.sn[j]>>
      BY <2>1 DEF Climbs
    <3>3. Step(W(L.fn[i], L.sn[i], fr, sr, ok), x)
            = W(L.fn[j] \div 2, L.sn[j] \div 2, node_hash(x, fr), node_hash(x, sr), ok)
      BY <1>3, <1>4, <3>2, StepRight
    <3> QED BY <1>1, <3>1, <3>3
  <2>7. node_hash(x, sr) = L.own[j + 1] <=> Agree(L, j + 1, given)
    BY <1>1, <2>3, <2>5, NodesDiffer
  <2>8. node_hash(x, sr) = L.own[j + 1] => node_hash(x, fr) = L.old[j + 1]
    BY <1>1, <2>3, NodesDiffer
  <2>9. j + 1 \in Nat /\ j + 1 >= L.from /\ c + 2 = (c + 1) + 1
    BY <2>2, <1>2
  <2>10. AtLevel(L, given, c + 1, Step(w, x), j + 1, node_hash(x, fr), node_hash(x, sr), ok)
    BY <1>1, <2>4, <2>6, <2>7, <2>8, <2>9 DEF AtLevel
  <2> QED BY <2>10 DEF At
<1>5. CASE ~(Odd(L.fn[i]) \/ L.fn[i] = L.sn[i])
  <2>1. L.fn[i] < L.sn[i] /\ Joins(L, i) /\ Rung(L, i)
    BY <1>1, <1>3, <1>5 DEF Joins, Ladder
  <2>2. L.own[i + 1] = node_hash(L.own[i], L.sib[i]) /\ L.old[i + 1] = L.old[i]
    BY <2>1, <1>5 DEF Rung
  <2>3. Len(L.path[i + 1]) = c + 2
    BY <1>1, <2>1, LongerByOne
  <2>4. Agree(L, i + 1, given) <=> Agree(L, i, given) /\ x = L.sib[i]
    <3>1. Len(L.path[i]) + 1 = c + 2
      BY <1>1
    <3> QED BY <1>1, <2>1, <3>1, AgreeNext
  <2>5. Step(w, x) = W(L.fn[i + 1], L.sn[i + 1], fr, node_hash(sr, x), ok)
    <3>1. L.fn[i + 1] = L.fn[i] \div 2 /\ L.sn[i + 1] = L.sn[i] \div 2
      BY <1>1, <1>2 DEF Levels
    <3>2. Step(W(L.fn[i], L.sn[i], fr, sr, ok), x)
            = W(L.fn[i] \div 2, L.sn[i] \div 2, fr, node_hash(sr, x), ok)
      BY <1>3, <1>5, StepLeft
    <3> QED BY <1>1, <3>1, <3>2
  <2>6. node_hash(sr, x) = L.own[i + 1] <=> Agree(L, i + 1, given)
    BY <1>1, <2>2, <2>4, NodesDiffer
  <2>7. node_hash(sr, x) = L.own[i + 1] => fr = L.old[i + 1]
    BY <1>1, <2>2, NodesDiffer
  <2>8. i + 1 \in Nat /\ i + 1 >= L.from /\ c + 2 = (c + 1) + 1
    BY <1>1, <1>2
  <2>9. AtLevel(L, given, c + 1, Step(w, x), i + 1, fr, node_hash(sr, x), ok)
    BY <1>1, <2>3, <2>5, <2>6, <2>7, <2>8 DEF AtLevel
  <2> QED BY <2>9 DEF At
<1> QED BY <1>4, <1>5

LEMMA GivenStep ==
  ASSUME NEW L, Ladder(L), NEW given, NEW c \in Nat, NEW w, Given(L, given, c, w)
  PROVE  Given(L, given, c + 1, Advanced(w, given[c + 2]))
<1>0. L.from \in Nat /\ L.top \in Nat /\ L.top >= L.from /\ L.sn[L.top] = 0
  BY DEF Ladder
<1>1. Len(L.path[L.top]) \in Nat
  BY <1>0, LongerByOne
<1>2. CASE At(L, given, c, w)
  <2>1. PICK i, fr, sr, ok : AtLevel(L, given, c, w, i, fr, sr, ok)
    BY <1>2 DEF At
  <2>2. w.ok = TRUE /\ w.sn = L.sn[i]
    BY <2>1 DEF AtLevel, W
  <2>3. Advanced(w, given[c + 2]) = Step(w, given[c + 2])
    BY <2>2 DEF Advanced
  <2>4. CASE w.sn # 0
    BY <1>2, <2>3, <2>4, StepAt DEF Given
  <2>5. CASE w.sn = 0
    <3>1. Len(L.path[L.top]) = c + 1
      <4>1. i \in Nat /\ i >= L.from /\ L.sn[i] = 0 /\ Len(L.path[i]) = c + 1
        BY <2>1, <2>2, <2>5 DEF AtLevel
      <4>2. L.path[L.top] = L.path[i]
        BY <1>0, <4>1, SameTop
      <4> QED BY <4>1, <4>2
    <3>2. Step(w, given[c + 2]) = [w EXCEPT !.ok = FALSE]
      BY <2>5 DEF Step
    <3>3. [w EXCEPT !.ok = FALSE].ok = FALSE
      BY <2>1 DEF AtLevel, W
    <3> QED BY <2>3, <3>1, <3>2, <3>3 DEF Given
  <2> QED BY <2>4, <2>5
<1>3. CASE w.ok = FALSE /\ Len(L.path[L.top]) < c + 1
  BY <1>1, <1>3 DEF Advanced, Given
<1> QED BY <1>2, <1>3 DEF Given

LEMMA GivenStart ==
  ASSUME NEW L, Ladder(L), NEW given, NEW ok, ok = TRUE
  PROVE  At(L, given, 0, W(L.fn[L.from], L.sn[L.from], given[1], given[1], ok))
<1>1. L.from \in Nat /\ L.path[L.from] = <<L.own[L.from]>> /\ L.old[L.from] = L.own[L.from]
  BY DEF Ladder
<1>2. Len(L.path[L.from]) = 1 /\ L.path[L.from][1] = L.own[L.from]
  BY <1>1
<1>3. Agree(L, L.from, given) <=> given[1] = L.own[L.from]
  BY <1>2 DEF Agree
<1>4. AtLevel(L, given, 0, W(L.fn[L.from], L.sn[L.from], given[1], given[1], ok), L.from, given[1], given[1], ok)
  BY <1>1, <1>2, <1>3 DEF AtLevel
<1> QED BY <1>4 DEF At

\* What a walk makes of what it was given.
Judges(L, given, w) ==
  /\ w.ok /\ w.sn = 0 /\ w.sr = L.own[L.top] <=> given = L.path[L.top]
  /\ given = L.path[L.top] => w.fr = L.old[L.top]

LEMMA AtTheEnd ==
  ASSUME NEW L, Ladder(L), NEW S, NEW given \in Seq(S), NEW n \in Nat, Len(given) = n + 1,
         NEW w, Given(L, given, n, w)
  PROVE  Judges(L, given, w)
<1>8. /\ L.from \in Nat /\ L.top \in Nat /\ L.top >= L.from /\ L.sn[L.top] = 0
      /\ L.path[L.top] \in Seq(L.hashes)
  BY DEF Ladder
<1>9. CASE At(L, given, n, w)
  <2>1. PICK i, fr, sr, o : AtLevel(L, given, n, w, i, fr, sr, o)
    BY <1>9 DEF At
  <2>2. w.sn = L.sn[i] /\ w.fr = fr /\ w.sr = sr /\ w.ok = TRUE
    BY <2>1, AtFields
  <2>3. i \in Nat /\ i >= L.from /\ Len(L.path[i]) = n + 1
    BY <2>1 DEF AtLevel
  <2>4. CASE L.sn[i] # 0
    <3>1. Len(L.path[i]) < Len(L.path[L.top])
      BY <2>3, <2>4, MoreToCome
    <3>2. given # L.path[L.top]
      BY <2>3, <3>1
    <3> QED BY <2>2, <2>4, <3>2 DEF Judges
  <2>5. CASE L.sn[i] = 0
    <3>1. L.path[i] = L.path[L.top] /\ L.own[i] = L.own[L.top] /\ L.old[i] = L.old[L.top]
      BY <1>8, <2>3, <2>5, SameTop
    <3>2. given = L.path[L.top] <=> Agree(L, i, given)
      <4>1. ASSUME Agree(L, i, given) PROVE given = L.path[L.top]
        <5>1. Len(given) = Len(L.path[L.top]) /\ \A j \in 1..Len(given) : given[j] = L.path[L.top][j]
          BY <2>3, <3>1, <4>1 DEF Agree
        <5> QED BY <5>1, <1>8, SameElements
      <4>2. ASSUME given = L.path[L.top] PROVE Agree(L, i, given)
        BY <4>2, <3>1 DEF Agree
      <4> QED BY <4>1, <4>2
    <3>3. sr = L.own[i] <=> Agree(L, i, given)
      BY <2>1 DEF AtLevel
    <3>4. sr = L.own[i] => fr = L.old[i]
      BY <2>1 DEF AtLevel
    <3> QED BY <2>2, <2>5, <3>1, <3>2, <3>3, <3>4 DEF Judges
  <2> QED BY <2>4, <2>5
<1>10. CASE w.ok = FALSE /\ Len(L.path[L.top]) < n + 1
  <2>1. given # L.path[L.top]
    BY <1>8, <1>10
  <2> QED BY <1>10, <2>1 DEF Judges
<1> QED BY <1>9, <1>10 DEF Given

(***************************************************************************)
(* What a verifier that begins on a ladder makes of what it is given.      *)
(***************************************************************************)
LEMMA WalkIsExact ==
  ASSUME NEW L, Ladder(L), NEW S, NEW given \in Seq(S), given # <<>>, NEW ok, ok = TRUE
  PROVE  Judges(L, given, Walk(W(L.fn[L.from], L.sn[L.from], given[1], given[1], ok), Tail(given)))
<1> DEFINE start == W(L.fn[L.from], L.sn[L.from], given[1], given[1], ok)
           proof == Tail(given)
           n == Len(proof)
<1>1. /\ proof \in Seq(S) /\ n \in Nat /\ Len(given) = n + 1
      /\ \A c \in 1..n : proof[c] = given[c + 1]
  OBVIOUS
<1>2. PICK walk : /\ walk[0] = start
                  /\ \A c \in 1..n : walk[c] = Advanced(walk[c - 1], proof[c])
                  /\ Walk(start, proof) = walk[n]
  <2> HIDE DEF start, proof
  <2> QED BY <1>1, WalkEquation
<1>3. At(L, given, 0, start)
  BY GivenStart
<1> HIDE DEF start, proof, n
<1> DEFINE R == {c \in Nat : c <= n => Given(L, given, c, walk[c])}
<1>4. 0 \in R
  BY <1>2, <1>3 DEF Given
<1>5. ASSUME NEW c \in Nat, c \in R PROVE c + 1 \in R
  <2> SUFFICES ASSUME c + 1 <= n PROVE Given(L, given, c + 1, walk[c + 1])
    BY <1>5
  <2>1. c + 1 \in 1..n /\ c <= n /\ (c + 1) - 1 = c /\ (c + 1) + 1 = c + 2
    BY <1>1
  <2>2. walk[c + 1] = Advanced(walk[(c + 1) - 1], proof[c + 1]) /\ proof[c + 1] = given[(c + 1) + 1]
    BY <2>1, <1>1, <1>2
  <2>3. walk[c + 1] = Advanced(walk[c], given[c + 2])
    BY <2>1, <2>2
  <2>4. Given(L, given, c, walk[c])
    BY <1>5, <2>1
  <2> QED BY <2>3, <2>4, GivenStep
<1>6. Nat \subseteq R
  <2> HIDE DEF R
  <2> QED BY <1>4, <1>5, PowR!SetInduction
<1>7. Given(L, given, n, walk[n])
  <2>2. n \in Nat
    BY <1>1
  <2>3. n \in R
    BY <2>2, <1>6
  <2>4. n <= n
    BY <2>2
  <2>5. Given(L, given, n, walk[n])
    BY <2>3, <2>4
  <2> QED BY <2>5
<1>8. Judges(L, given, walk[n])
  BY <1>1, <1>7, AtTheEnd
<1> QED BY <1>2, <1>8 DEF start, proof

-----------------------------------------------------------------------------
(* Where a leaf is at each level: the node above it, by number. *)
AncBody(n, f, i) == IF i = 0 THEN n ELSE f[i - 1] \div 2
AncR == INSTANCE Recursion WITH Dom <- PowDom, Rank <- PowRank, Body <- AncBody
Anc(n) == CHOOSE f : f = [i \in Nat |-> AncBody(n, f, i)]

LEMMA AncEquation ==
  ASSUME NEW n
  PROVE  Anc(n)[0] = n /\ \A i \in Nat : Anc(n)[i + 1] = Anc(n)[i] \div 2
<1>1. AncR!Local(n)
  BY DEF AncR!Local, PowDom, PowRank, AncBody
<1>2. \E f : f = [i \in Nat |-> AncBody(n, f, i)]
  BY <1>1, AncR!Recursive DEF PowDom
<1>3. Anc(n) = [i \in Nat |-> AncBody(n, Anc(n), i)]
  BY <1>2 DEF Anc
<1>4. \A i \in Nat : Anc(n)[i] = AncBody(n, Anc(n), i)
  BY <1>3
<1> QED BY <1>4 DEF AncBody

LEMMA AncNat ==
  ASSUME NEW n \in Nat
  PROVE  \A i \in Nat : Anc(n)[i] \in Nat
<1> DEFINE S == {i \in Nat : Anc(n)[i] \in Nat}
<1>1. 0 \in S
  BY AncEquation
<1>2. ASSUME NEW i \in Nat, i \in S PROVE i + 1 \in S
  BY <1>2, AncEquation, Half
<1>3. Nat \subseteq S
  <2> HIDE DEF S
  <2> QED BY <1>1, <1>2, PowR!SetInduction
<1> QED BY <1>3

LEMMA AncOrder ==
  ASSUME NEW m \in Nat, NEW n \in Nat, m <= n
  PROVE  \A i \in Nat : Anc(m)[i] <= Anc(n)[i]
<1> DEFINE S == {i \in Nat : Anc(m)[i] <= Anc(n)[i]}
<1>1. 0 \in S
  BY AncEquation
<1>2. ASSUME NEW i \in Nat, i \in S PROVE i + 1 \in S
  <2>1. Anc(m)[i] \in Nat /\ Anc(n)[i] \in Nat /\ Anc(m)[i] <= Anc(n)[i]
    BY <1>2, AncNat
  <2>2. Anc(m)[i + 1] = Anc(m)[i] \div 2 /\ Anc(n)[i + 1] = Anc(n)[i] \div 2
    BY AncEquation
  <2> QED BY <2>1, <2>2
<1>3. Nat \subseteq S
  <2> HIDE DEF S
  <2> QED BY <1>1, <1>2, PowR!SetInduction
<1> QED BY <1>3

\* The first leaf of the node above leaf m at level i.
First(m, i) == Anc(m)[i] * Pow2[i]

LEMMA Doubled ==
  ASSUME NEW a \in Nat, NEW P \in Nat
  PROVE  /\ a * P \in Nat
         /\ (a + 1) * P = a * P + P
         /\ (2 * a) * P = a * (2 * P)
         /\ (2 * a + 1) * P = a * (2 * P) + P
OBVIOUS

LEMMA Monotone ==
  ASSUME NEW a \in Nat, NEW b \in Nat, NEW P \in Nat, a <= b
  PROVE  a * P <= b * P
<1>1. b - a \in Nat /\ b = a + (b - a)
  OBVIOUS
<1>2. (b - a) * P \in Nat
  BY <1>1
<1>3. b * P = a * P + (b - a) * P
  OBVIOUS
<1>4. a * P \in Nat
  OBVIOUS
<1> QED BY <1>2, <1>3, <1>4

LEMMA Ground ==
  ASSUME NEW m \in Nat
  PROVE  First(m, 0) = m /\ Pow2[0] = 1
<1>1. Anc(m)[0] = m /\ Pow2[0] = 1
  BY AncEquation, PowStep
<1> QED BY <1>1 DEF First

LEMMA FirstMoves ==
  ASSUME NEW m \in Nat, NEW i \in Nat
  PROVE  /\ First(m, 0) = m
         /\ First(m, i) \in Nat /\ First(m, i + 1) \in Nat
         /\ Odd(Anc(m)[i]) => First(m, i) = First(m, i + 1) + Pow2[i]
         /\ ~Odd(Anc(m)[i]) => First(m, i) = First(m, i + 1)
<1> DEFINE a == Anc(m)[i]
           b == Anc(m)[i + 1]
           P == Pow2[i]
<1>1. a \in Nat /\ b \in Nat /\ b = a \div 2 /\ P \in Nat /\ Pow2[i + 1] = 2 * P
  BY AncNat, AncEquation, PowNat, PowStep
<1>2. First(m, 0) = m
  BY AncEquation, PowStep DEF First
<1>3. First(m, i) = a * P /\ First(m, i + 1) = b * (2 * P)
  BY <1>1 DEF First
<1> HIDE DEF a, b, P
<1>4. a * P \in Nat /\ b * (2 * P) \in Nat
  BY <1>1
<1>5. Odd(a) => a * P = b * (2 * P) + P
  BY <1>1, Half, Doubled
<1>6. ~Odd(a) => a * P = b * (2 * P)
  BY <1>1, Half, Doubled
<1> QED BY <1>2, <1>3, <1>4, <1>5, <1>6 DEF a, b, P

LEMMA FirstSpan ==
  ASSUME NEW m \in Nat
  PROVE  \A i \in Nat : First(m, i) <= m /\ m < First(m, i) + Pow2[i]
<1> DEFINE S == {i \in Nat : First(m, i) <= m /\ m < First(m, i) + Pow2[i]}
<1>1. 0 \in S
  <2>1. First(m, 0) = m
    BY AncEquation, PowStep DEF First
  <2> QED BY <2>1, PowStep
<1>2. ASSUME NEW i \in Nat, i \in S PROVE i + 1 \in S
  <2> DEFINE s == First(m, i)
             t == First(m, i + 1)
             P == Pow2[i]
  <2>1. s \in Nat /\ t \in Nat /\ (s = t + P \/ s = t)
    BY FirstMoves
  <2>2. P \in Nat /\ Pow2[i + 1] = 2 * P
    BY PowNat, PowStep
  <2>3. s <= m /\ m < s + P
    BY <1>2
  <2>4. t <= m /\ m < t + 2 * P
    BY <2>1, <2>2, <2>3
  <2> QED BY <2>2, <2>4
<1>3. Nat \subseteq S
  <2> HIDE DEF S
  <2> QED BY <1>1, <1>2, PowR!SetInduction
<1> QED BY <1>3

\* A node has one after it exactly when its leaves are not the tree's last.
LEMMA NodeAfter ==
  ASSUME NEW m \in Nat, NEW N \in Nat, m < N, NEW i \in Nat
  PROVE  Anc(m)[i] < Anc(N - 1)[i] <=> First(m, i) + Pow2[i] < N
<1> DEFINE a == Anc(m)[i]
           b == Anc(N - 1)[i]
           P == Pow2[i]
<1>0. N - 1 \in Nat /\ m <= N - 1
  OBVIOUS
<1>1. a \in Nat /\ b \in Nat /\ a <= b /\ P \in Nat
  BY <1>0, AncNat, AncOrder, PowNat
<1>2. b * P <= N - 1 /\ N - 1 < b * P + P
  BY <1>0, FirstSpan DEF First
<1>3. First(m, i) = a * P
  BY DEF First
<1> HIDE DEF a, b, P
<1>4. a * P \in Nat /\ b * P \in Nat
  BY <1>1
<1>5. ASSUME a < b PROVE a * P + P < N
  <2>1. (a + 1) * P <= b * P
    BY <1>1, <1>5, Monotone
  <2>2. (a + 1) * P = a * P + P
    BY <1>1
  <2> QED BY <1>1, <1>2, <1>4, <2>1, <2>2
<1>6. ASSUME a = b PROVE N <= a * P + P
  BY <1>1, <1>2, <1>4, <1>6
<1>7. a < b \/ a = b
  BY <1>1
<1> QED BY <1>1, <1>3, <1>4, <1>5, <1>6, <1>7 DEF a, b, P

\* There is one node left at level N.
LEMMA OneNode ==
  ASSUME NEW n \in Nat, NEW N \in Nat, n < N
  PROVE  Anc(n)[N] = 0 /\ First(n, N) = 0 /\ N < Pow2[N]
<1>1. Anc(n)[N] \in Nat /\ Pow2[N] \in Nat /\ N < Pow2[N]
  BY AncNat, PowNat
<1>2. Anc(n)[N] * Pow2[N] <= n
  BY FirstSpan DEF First
<1>3. Anc(n)[N] >= 1 => 1 * Pow2[N] <= Anc(n)[N] * Pow2[N]
  BY <1>1, Monotone
<1>4. Anc(n)[N] * Pow2[N] \in Nat
  BY <1>1
<1>5. Anc(n)[N] = 0
  BY <1>1, <1>2, <1>3, <1>4
<1> QED BY <1>1, <1>5 DEF First

-----------------------------------------------------------------------------
(* The nodes of the tree over N leaves. *)
Width(N, s, P) == IF N - s < P THEN N - s ELSE P
Node(mth, N, s, P) == mth[<<s, Width(N, s, P)>>]
HashesOf(mth) == {mth[r] : r \in Nat \X Nat}

LEMMA WidthIs ==
  ASSUME NEW N \in Nat, NEW s \in Nat, NEW P \in Nat, s < N, 0 < P
  PROVE  /\ Width(N, s, P) \in Nat /\ 0 < Width(N, s, P)
         /\ s + P <= N => Width(N, s, P) = P
         /\ N <= s + P => Width(N, s, P) = N - s
BY DEF Width

LEMMA NodeIsHash ==
  ASSUME NEW mth, NEW N \in Nat, NEW s \in Nat, NEW P \in Nat, s < N, 0 < P
  PROVE  Node(mth, N, s, P) \in HashesOf(mth)
<1>1. <<s, Width(N, s, P)>> \in Nat \X Nat
  BY WidthIs
<1> QED BY <1>1 DEF Node, HashesOf

\* Two nodes side by side, and the one above them.
LEMMA NodeSplits ==
  ASSUME NEW N \in Nat, NEW s \in Nat, NEW i \in Nat, s + Pow2[i] < N
  PROVE  LET P == Pow2[i]  w == Width(N, s, 2 * P) IN
         /\ w \in Nat /\ w > 1 /\ Split(w) = P
         /\ Width(N, s, P) = P /\ Width(N, s + P, P) = w - P
<1> DEFINE P == Pow2[i]
           w == Width(N, s, 2 * P)
<1>1. P \in Nat /\ 0 < P
  BY PowNat
<1>2. w \in Nat /\ P < w /\ w <= 2 * P
  BY <1>1 DEF Width
<1>3. Split(w) = P
  BY <1>2, SplitIs
<1>4. Width(N, s, P) = P /\ Width(N, s + P, P) = w - P
  BY <1>1 DEF Width
<1> QED BY <1>1, <1>2, <1>3, <1>4

LEMMA NodeJoins ==
  ASSUME NEW hashes, NEW N \in Nat, NEW s \in Nat, NEW i \in Nat, s + Pow2[i] < N
  PROVE  LET mth == Mth(hashes)  P == Pow2[i] IN
         Node(mth, N, s, 2 * P) = node_hash(Node(mth, N, s, P), Node(mth, N, s + P, P))
<1> DEFINE mth == Mth(hashes)
           P == Pow2[i]
           w == Width(N, s, 2 * P)
<1>1. w \in Nat /\ w > 1 /\ Split(w) = P /\ Width(N, s, P) = P /\ Width(N, s + P, P) = w - P
  BY NodeSplits
<1>2. mth[<<s, w>>] = MthBody(hashes, mth, <<s, w>>)
  BY <1>1, MthEquation
<1>3. LeftOf(<<s, w>>) = <<s, P>> /\ RightOf(<<s, w>>) = <<s + P, w - P>>
  BY <1>1 DEF LeftOf, RightOf
<1> HIDE DEF mth, P, w
<1>4. mth[<<s, w>>] = node_hash(mth[<<s, P>>], mth[<<s + P, w - P>>])
  BY <1>1, <1>2, <1>3 DEF MthBody
<1>5. /\ Node(mth, N, s, 2 * P) = mth[<<s, w>>]
      /\ Node(mth, N, s, P) = mth[<<s, P>>]
      /\ Node(mth, N, s + P, P) = mth[<<s + P, w - P>>]
  BY <1>1 DEF Node, w
<1> QED BY <1>4, <1>5 DEF mth, P

\* A node with none after it is the one above it.
LEMMA NodeAlone ==
  ASSUME NEW mth, NEW N \in Nat, NEW s \in Nat, NEW P \in Nat, s < N, N <= s + P, 0 < P
  PROVE  Width(N, s, 2 * P) = Width(N, s, P) /\ Node(mth, N, s, 2 * P) = Node(mth, N, s, P)
<1>1. Width(N, s, 2 * P) = Width(N, s, P)
  BY DEF Width
<1> QED BY <1>1 DEF Node

\* What the tree over N leaves shares with the one over its first n.
LEMMA NodeShared ==
  ASSUME NEW mth, NEW N \in Nat, NEW n \in Nat, NEW s \in Nat, NEW P \in Nat, n <= N, s + P <= n, 0 < P
  PROVE  Node(mth, n, s, P) = Node(mth, N, s, P)
BY DEF Node, Width

-----------------------------------------------------------------------------
(***************************************************************************)
(* The ladder of leaf m in the tree over N leaves.                         *)
(***************************************************************************)
OwnAt(mth, N, m, i) == Node(mth, N, First(m, i), Pow2[i])
SibAt(mth, N, m, i) ==
  IF Odd(Anc(m)[i]) THEN Node(mth, N, First(m, i + 1), Pow2[i]) ELSE Node(mth, N, First(m, i) + Pow2[i], Pow2[i])

TreeLadder(mth, N, m, from, path) ==
  [from |-> from, top |-> N, fn |-> Anc(m), sn |-> Anc(N - 1),
   own |-> [i \in Nat |-> OwnAt(mth, N, m, i)],
   old |-> [i \in Nat |-> OwnAt(mth, m + 1, m, i)],
   sib |-> [i \in Nat |-> SibAt(mth, N, m, i)],
   path |-> path, hashes |-> HashesOf(mth)]

LEMMA TreeRung ==
  ASSUME NEW hashes, NEW N \in Nat, NEW m \in Nat, m < N, NEW i \in Nat
  PROVE  LET mth == Mth(hashes)  a == Anc(m)[i]  b == Anc(N - 1)[i]
             own == OwnAt(mth, N, m, i)  sib == SibAt(mth, N, m, i)  old == OwnAt(mth, m + 1, m, i)
         IN /\ Odd(a) => /\ OwnAt(mth, N, m, i + 1) = node_hash(sib, own)
                         /\ OwnAt(mth, m + 1, m, i + 1) = node_hash(sib, old)
            /\ ~Odd(a) => OwnAt(mth, m + 1, m, i + 1) = old
            /\ ~Odd(a) /\ a < b => OwnAt(mth, N, m, i + 1) = node_hash(own, sib)
            /\ ~Odd(a) /\ ~(a < b) => OwnAt(mth, N, m, i + 1) = own
            /\ Odd(a) \/ a < b => sib \in HashesOf(mth)
<1> DEFINE mth == Mth(hashes)
           P == Pow2[i]
           s == First(m, i)
           t == First(m, i + 1)
           a == Anc(m)[i]
           b == Anc(N - 1)[i]
<1>1. P \in Nat /\ 0 < P /\ Pow2[i + 1] = 2 * P
  BY PowNat, PowStep
<1>2. s \in Nat /\ t \in Nat /\ (Odd(a) => s = t + P) /\ (~Odd(a) => s = t)
  BY FirstMoves
<1>3. s <= m /\ m < s + P
  BY FirstSpan
<1>4. a < b <=> s + P < N
  BY NodeAfter
<1>5. /\ \A n \in Nat : OwnAt(mth, n, m, i) = Node(mth, n, s, P) /\ OwnAt(mth, n, m, i + 1) = Node(mth, n, t, 2 * P)
      /\ Odd(a) => SibAt(mth, N, m, i) = Node(mth, N, t, P)
      /\ ~Odd(a) => SibAt(mth, N, m, i) = Node(mth, N, s + P, P)
  BY <1>1 DEF OwnAt, SibAt
<1>6. \A n \in Nat : \A x \in Nat : x + P < n => Node(mth, n, x, 2 * P) = node_hash(Node(mth, n, x, P), Node(mth, n, x + P, P))
  BY NodeJoins
<1>7. m + 1 \in Nat /\ m < m + 1 /\ m + 1 <= N
  OBVIOUS
<1> HIDE DEF mth, P, s, t, a, b
<1>8. ASSUME Odd(a)
      PROVE  /\ Node(mth, N, t, 2 * P) = node_hash(Node(mth, N, t, P), Node(mth, N, s, P))
             /\ Node(mth, m + 1, t, 2 * P) = node_hash(Node(mth, N, t, P), Node(mth, m + 1, s, P))
             /\ Node(mth, N, t, P) \in HashesOf(mth)
  <2>1. s = t + P /\ t + P < N /\ t + P < m + 1 /\ t < N /\ t + P <= m + 1
    BY <1>1, <1>2, <1>3, <1>7, <1>8
  <2>2. Node(mth, m + 1, t, P) = Node(mth, N, t, P)
    BY <1>1, <1>2, <1>7, <2>1, NodeShared
  <2>3. Node(mth, N, t, P) \in HashesOf(mth)
    BY <1>1, <1>2, <2>1, NodeIsHash
  <2>4. Node(mth, N, t, 2 * P) = node_hash(Node(mth, N, t, P), Node(mth, N, s, P))
    BY <1>2, <1>6, <2>1
  <2>5. Node(mth, m + 1, t, 2 * P) = node_hash(Node(mth, m + 1, t, P), Node(mth, m + 1, s, P))
    BY <1>2, <1>6, <1>7, <2>1
  <2> QED BY <2>2, <2>3, <2>4, <2>5
<1>9. ASSUME ~Odd(a)
      PROVE  /\ Node(mth, m + 1, t, 2 * P) = Node(mth, m + 1, s, P)
             /\ s + P < N => /\ Node(mth, N, t, 2 * P) = node_hash(Node(mth, N, s, P), Node(mth, N, s + P, P))
                             /\ Node(mth, N, s + P, P) \in HashesOf(mth)
             /\ ~(s + P < N) => Node(mth, N, t, 2 * P) = Node(mth, N, s, P)
  <2>1. s = t /\ m + 1 <= s + P /\ s < m + 1 /\ s < N
    BY <1>1, <1>2, <1>3, <1>7, <1>9
  <2>2. Node(mth, m + 1, s, 2 * P) = Node(mth, m + 1, s, P)
    BY <1>1, <1>2, <1>7, <2>1, NodeAlone
  <2>3. s + P < N => Node(mth, N, s, 2 * P) = node_hash(Node(mth, N, s, P), Node(mth, N, s + P, P))
    BY <1>2, <1>6
  <2>4. s + P < N => Node(mth, N, s + P, P) \in HashesOf(mth)
    BY <1>1, <1>2, NodeIsHash
  <2>5. ~(s + P < N) => N <= s + P
    BY <1>1, <1>2
  <2>6. ~(s + P < N) => Node(mth, N, s, 2 * P) = Node(mth, N, s, P)
    BY <1>1, <1>2, <2>1, <2>5, NodeAlone
  <2> QED BY <2>1, <2>2, <2>3, <2>4, <2>6
<1>10. /\ Odd(a) => /\ OwnAt(mth, N, m, i + 1) = node_hash(SibAt(mth, N, m, i), OwnAt(mth, N, m, i))
                    /\ OwnAt(mth, m + 1, m, i + 1) = node_hash(SibAt(mth, N, m, i), OwnAt(mth, m + 1, m, i))
       /\ ~Odd(a) => OwnAt(mth, m + 1, m, i + 1) = OwnAt(mth, m + 1, m, i)
       /\ ~Odd(a) /\ a < b => OwnAt(mth, N, m, i + 1) = node_hash(OwnAt(mth, N, m, i), SibAt(mth, N, m, i))
       /\ ~Odd(a) /\ ~(a < b) => OwnAt(mth, N, m, i + 1) = OwnAt(mth, N, m, i)
       /\ Odd(a) \/ a < b => SibAt(mth, N, m, i) \in HashesOf(mth)
  BY <1>4, <1>5, <1>7, <1>8, <1>9
<1> QED BY <1>10 DEF mth, a, b

\* A sequence for each level that grows with the siblings makes the tree a ladder.
Grows(mth, N, m, path, i) ==
  IF Odd(Anc(m)[i]) \/ Anc(m)[i] < Anc(N - 1)[i]
    THEN path[i + 1] = Append(path[i], SibAt(mth, N, m, i)) ELSE path[i + 1] = path[i]

LEMMA TreeIsLadder ==
  ASSUME NEW hashes, NEW N \in Nat, NEW m \in Nat, m < N, NEW from \in Nat, from <= N, NEW path,
         \A i \in Nat : path[i] \in Seq(HashesOf(Mth(hashes))),
         \A i \in Nat : i >= from => Grows(Mth(hashes), N, m, path, i),
         path[from] = <<OwnAt(Mth(hashes), N, m, from)>>,
         OwnAt(Mth(hashes), m + 1, m, from) = OwnAt(Mth(hashes), N, m, from)
  PROVE  Ladder(TreeLadder(Mth(hashes), N, m, from, path))
<1> DEFINE mth == Mth(hashes)
           L == TreeLadder(mth, N, m, from, path)
<1>1. /\ L.from = from /\ L.top = N /\ L.fn = Anc(m) /\ L.sn = Anc(N - 1) /\ L.path = path
      /\ L.hashes = HashesOf(mth)
      /\ \A i \in Nat : /\ L.own[i] = OwnAt(mth, N, m, i) /\ L.old[i] = OwnAt(mth, m + 1, m, i)
                        /\ L.sib[i] = SibAt(mth, N, m, i)
  BY DEF TreeLadder
<1>2. N - 1 \in Nat /\ m <= N - 1 /\ N - 1 < N
  OBVIOUS
<1> HIDE DEF L
<1>3. Levels(L)
  <2>1. \A i \in Nat : Anc(m)[i] \in Nat /\ Anc(N - 1)[i] \in Nat /\ Anc(m)[i] <= Anc(N - 1)[i]
    BY <1>2, AncNat, AncOrder
  <2>2. \A i \in Nat : Anc(m)[i + 1] = Anc(m)[i] \div 2 /\ Anc(N - 1)[i + 1] = Anc(N - 1)[i] \div 2
    BY AncEquation
  <2> QED BY <1>1, <2>1, <2>2 DEF Levels
<1>4. Anc(N - 1)[N] = 0
  BY <1>2, OneNode
<1>5. ASSUME NEW i \in Nat, i >= from PROVE Rung(L, i)
  <2> DEFINE a == Anc(m)[i]
             b == Anc(N - 1)[i]
             own == OwnAt(mth, N, m, i)
             sib == SibAt(mth, N, m, i)
             old == OwnAt(mth, m + 1, m, i)
  <2>1. /\ Odd(a) => /\ OwnAt(mth, N, m, i + 1) = node_hash(sib, own)
                     /\ OwnAt(mth, m + 1, m, i + 1) = node_hash(sib, old)
        /\ ~Odd(a) => OwnAt(mth, m + 1, m, i + 1) = old
        /\ ~Odd(a) /\ a < b => OwnAt(mth, N, m, i + 1) = node_hash(own, sib)
        /\ ~Odd(a) /\ ~(a < b) => OwnAt(mth, N, m, i + 1) = own
        /\ Odd(a) \/ a < b => sib \in HashesOf(mth)
    BY TreeRung
  <2>2. IF Odd(a) \/ a < b THEN path[i + 1] = Append(path[i], sib) ELSE path[i + 1] = path[i]
    BY <1>5 DEF Grows
  <2>3. /\ L.fn[i] = a /\ L.sn[i] = b /\ L.own[i] = own /\ L.old[i] = old /\ L.sib[i] = sib
        /\ L.own[i + 1] = OwnAt(mth, N, m, i + 1) /\ L.old[i + 1] = OwnAt(mth, m + 1, m, i + 1)
        /\ L.path[i] = path[i] /\ L.path[i + 1] = path[i + 1] /\ L.hashes = HashesOf(mth)
    BY <1>1
  <2> HIDE DEF a, b, own, sib, old
  <2> QED BY <2>1, <2>2, <2>3 DEF Rung, Joins
<1>6. \A i \in Nat : L.path[i] \in Seq(L.hashes)
  BY <1>1
<1>7. L.path[L.from] = <<L.own[L.from]>> /\ L.old[L.from] = L.own[L.from]
  BY <1>1
<1> QED BY <1>1, <1>3, <1>4, <1>5, <1>6, <1>7 DEF Ladder, L

-----------------------------------------------------------------------------
(* The log's own inclusion proof, level by level. *)
PathAt(mth, N, m, i) == PathOf(mth, m - First(m, i), First(m, i), Width(N, First(m, i), Pow2[i]))

LEMMA PathGrows ==
  ASSUME NEW mth, NEW N \in Nat, NEW m \in Nat, m < N, NEW i \in Nat
  PROVE  IF Odd(Anc(m)[i]) \/ Anc(m)[i] < Anc(N - 1)[i]
           THEN PathAt(mth, N, m, i + 1) = Append(PathAt(mth, N, m, i), SibAt(mth, N, m, i))
           ELSE PathAt(mth, N, m, i + 1) = PathAt(mth, N, m, i)
<1> DEFINE P == Pow2[i]
           s == First(m, i)
           t == First(m, i + 1)
           a == Anc(m)[i]
           b == Anc(N - 1)[i]
           w == Width(N, t, 2 * P)
<1>1. P \in Nat /\ 0 < P /\ Pow2[i + 1] = 2 * P
  BY PowNat, PowStep
<1>2. s \in Nat /\ t \in Nat /\ (Odd(a) => s = t + P) /\ (~Odd(a) => s = t)
  BY FirstMoves
<1>3. s <= m /\ m < s + P
  BY FirstSpan
<1>4. a < b <=> s + P < N
  BY NodeAfter
<1>5. PathAt(mth, N, m, i + 1) = PathOf(mth, m - t, t, w)
  BY <1>1 DEF PathAt
<1>6. PathAt(mth, N, m, i) = PathOf(mth, m - s, s, Width(N, s, P))
  BY DEF PathAt
<1>7. m - t \in Nat /\ t < N
  BY <1>1, <1>2, <1>3
<1>8. t + P < N => w \in Nat /\ w > 1 /\ Split(w) = P /\ Width(N, t, P) = P /\ Width(N, t + P, P) = w - P
  BY <1>2, NodeSplits
<1>9. CASE Odd(a)
  <2>1. SibAt(mth, N, m, i) = mth[<<t, Width(N, t, P)>>]
    BY <1>9 DEF SibAt, Node
  <2>2. s = t + P /\ t + P < N /\ m - t >= P /\ (m - t) - P = m - s
    BY <1>1, <1>2, <1>3, <1>9
  <2> HIDE DEF P, s, t, a, b, w
  <2>3. PathOf(mth, m - t, t, w) = Append(PathOf(mth, (m - t) - P, t + P, w - P), mth[<<t, P>>])
    <3>1. PathOf(mth, m - t, t, w)
            = Append(PathOf(mth, (m - t) - Split(w), t + Split(w), w - Split(w)), mth[<<t, Split(w)>>])
      <4> DEFINE n == m - t
      <4>1. n \in Nat /\ t \in Nat /\ w \in Nat /\ w > 1 /\ n >= Split(w)
        BY <1>2, <1>7, <1>8, <2>2
      <4> HIDE DEF n
      <4>2. PathOf(mth, n, t, w) = Append(PathOf(mth, n - Split(w), t + Split(w), w - Split(w)), mth[<<t, Split(w)>>])
        BY <4>1, PathEquation
      <4> QED BY <4>2 DEF n
    <3> QED BY <1>8, <2>2, <3>1
  <2> QED BY <1>5, <1>6, <1>8, <1>9, <2>1, <2>2, <2>3 DEF a
<1>10. CASE ~Odd(a) /\ a < b
  <2>1. SibAt(mth, N, m, i) = mth[<<s + P, Width(N, s + P, P)>>]
    BY <1>10 DEF SibAt, Node
  <2>2. s = t /\ t + P < N /\ m - t < P
    BY <1>1, <1>2, <1>3, <1>4, <1>10
  <2> HIDE DEF P, s, t, a, b, w
  <2>3. PathOf(mth, m - t, t, w) = Append(PathOf(mth, m - t, t, P), mth[<<t + P, w - P>>])
    <3> DEFINE n == m - t
    <3>1. n \in Nat /\ t \in Nat /\ w \in Nat /\ w > 1 /\ n < Split(w)
      BY <1>2, <1>7, <1>8, <2>2
    <3> HIDE DEF n
    <3>2. PathOf(mth, n, t, w) = Append(PathOf(mth, n, t, Split(w)), mth[<<t + Split(w), w - Split(w)>>])
      BY <3>1, PathEquation
    <3> QED BY <1>8, <2>2, <3>2 DEF n
  <2> QED BY <1>5, <1>6, <1>8, <1>10, <2>1, <2>2, <2>3 DEF a, b
<1>11. CASE ~Odd(a) /\ ~(a < b)
  <2>1. s = t /\ s < N /\ N <= s + P
    BY <1>1, <1>2, <1>3, <1>4, <1>11
  <2>2. w = Width(N, s, P)
    BY <1>1, <1>2, <2>1 DEF Width
  <2> HIDE DEF P, s, t, a, b, w
  <2> QED BY <1>5, <1>6, <1>11, <2>1, <2>2 DEF a, b
<1> QED BY <1>9, <1>10, <1>11

LEMMA Consed ==
  ASSUME NEW S, NEW p \in Seq(S), NEW x
  PROVE  <<x>> \o p \in Seq(S \cup {x}) /\ (<<x>> \o p)[1] = x /\ Tail(<<x>> \o p) = p /\ <<x>> \o p # <<>>
<1> DEFINE xp == <<x>> \o p
<1>1. /\ xp \in Seq(S \cup {x}) /\ Len(xp) = Len(p) + 1 /\ xp[1] = x /\ \A i \in 1..Len(p) : xp[i + 1] = p[i]
  OBVIOUS
<1> HIDE DEF xp
<1>2. Tail(xp) = p
  <2>1. Tail(xp) \in Seq(S \cup {x}) /\ Len(Tail(xp)) = Len(p) /\ \A i \in 1..Len(p) : Tail(xp)[i] = xp[i + 1]
    BY <1>1
  <2>2. \A i \in 1..Len(Tail(xp)) : Tail(xp)[i] = p[i]
    BY <1>1, <2>1
  <2> QED BY <2>1, <2>2, SameElements
<1>3. xp # <<>>
  BY <1>1
<1> QED BY <1>1, <1>2, <1>3 DEF xp

LEMMA ConsedSame ==
  ASSUME NEW S, NEW p \in Seq(S), NEW T, NEW q \in Seq(T), NEW x, NEW y
  PROVE  <<x>> \o p = <<y>> \o q <=> x = y /\ p = q
<1>1. <<x>> \o p = <<y>> \o q => (<<x>> \o p)[1] = (<<y>> \o q)[1] /\ Tail(<<x>> \o p) = Tail(<<y>> \o q)
  OBVIOUS
<1>2. (<<x>> \o p)[1] = x /\ Tail(<<x>> \o p) = p
  BY Consed
<1>3. (<<y>> \o q)[1] = y /\ Tail(<<y>> \o q) = q
  BY Consed
<1> QED BY <1>1, <1>2, <1>3

LEMMA ConsedLonger ==
  ASSUME NEW S, NEW p \in Seq(S), NEW x \in S, NEW y \in S
  PROVE  <<x>> \o Append(p, y) = Append(<<x>> \o p, y)
OBVIOUS

LEMMA PathIsSeq ==
  ASSUME NEW hashes, NEW N \in Nat, NEW m \in Nat, m < N
  PROVE  /\ \A i \in Nat : PathAt(Mth(hashes), N, m, i) \in Seq(HashesOf(Mth(hashes)))
         /\ PathAt(Mth(hashes), N, m, 0) = <<>>
<1> DEFINE mth == Mth(hashes)
           S == {i \in Nat : PathAt(mth, N, m, i) \in Seq(HashesOf(mth))}
<1>1. PathAt(mth, N, m, 0) = <<>>
  <2>1. First(m, 0) = m /\ Pow2[0] = 1
    BY Ground
  <2>2. Width(N, m, 1) = 1
    BY DEF Width
  <2>3. PathOf(mth, m - m, m, 1) = <<>>
    <3> HIDE DEF mth
    <3>1. PathOf(mth, 0, m, 1) = <<>>
      <4>1. 0 \in Nat /\ 1 \in Nat /\ 1 <= 1
        OBVIOUS
      <4> QED BY <4>1, PathEquation
    <3>2. m - m = 0
      OBVIOUS
    <3> QED BY <3>1, <3>2
  <2> QED BY <2>1, <2>2, <2>3 DEF PathAt
<1>2. 0 \in S
  <2> HIDE DEF mth
  <2>1. <<>> \in Seq(HashesOf(mth))
    OBVIOUS
  <2> QED BY <1>1, <2>1
<1>3. ASSUME NEW i \in Nat, i \in S PROVE i + 1 \in S
  <2>1. Odd(Anc(m)[i]) \/ Anc(m)[i] < Anc(N - 1)[i] => SibAt(mth, N, m, i) \in HashesOf(mth)
    BY TreeRung
  <2>2. IF Odd(Anc(m)[i]) \/ Anc(m)[i] < Anc(N - 1)[i]
          THEN PathAt(mth, N, m, i + 1) = Append(PathAt(mth, N, m, i), SibAt(mth, N, m, i))
          ELSE PathAt(mth, N, m, i + 1) = PathAt(mth, N, m, i)
    BY PathGrows
  <2> HIDE DEF mth
  <2>3. PathAt(mth, N, m, i + 1) \in Seq(HashesOf(mth))
    BY <1>3, <2>1, <2>2, AppendIs
  <2> QED BY <2>3
<1>4. Nat \subseteq S
  <2> HIDE DEF S
  <2> QED BY <1>2, <1>3, PowR!SetInduction
<1> QED BY <1>1, <1>4

LEMMA TopIs ==
  ASSUME NEW mth, NEW N \in Nat, NEW m \in Nat, NEW n \in Nat, m < n, n <= N
  PROVE  /\ OwnAt(mth, n, m, N) = mth[<<0, n>>]
         /\ First(m, N) = 0 /\ Width(n, 0, Pow2[N]) = n
<1>1. First(m, N) = 0 /\ N < Pow2[N] /\ Pow2[N] \in Nat
  BY OneNode, PowNat
<1>2. Width(n, 0, Pow2[N]) = n
  BY <1>1 DEF Width
<1> QED BY <1>1, <1>2 DEF OwnAt, Node

(***************************************************************************)
(* verify_inclusion accepts a proof exactly when it is the tree's own, for *)
(* the leaf that is there: for every tree, index, leaf and proof.          *)
(***************************************************************************)
THEOREM InclusionIsExact ==
  ASSUME NEW hashes, NEW N \in Nat, NEW m \in Nat, NEW leaf, NEW S, NEW proof \in Seq(S)
  PROVE  VerifyInclusion(leaf, m, N, proof, Mth(hashes)[<<0, N>>])
           <=> m < N /\ leaf = hashes[m + 1] /\ proof = PathOf(Mth(hashes), m, 0, N)
<1> DEFINE mth == Mth(hashes)
<1>1. CASE ~(m < N)
  BY <1>1 DEF VerifyInclusion
<1>2. CASE m < N
  <2> DEFINE own == OwnAt(mth, N, m, 0)
             path == [i \in Nat |-> <<own>> \o PathAt(mth, N, m, i)]
             L == TreeLadder(mth, N, m, 0, path)
             given == <<leaf>> \o proof
  <2>1. own = hashes[m + 1] /\ OwnAt(mth, m + 1, m, 0) = own
    <3>1. First(m, 0) = m /\ Pow2[0] = 1
      BY Ground
    <3>2. Width(N, m, 1) = 1 /\ Width(m + 1, m, 1) = 1
      BY <1>2 DEF Width
    <3>3. mth[<<m, 1>>] = MthBody(hashes, mth, <<m, 1>>)
      BY MthEquation
    <3>4. mth[<<m, 1>>] = hashes[m + 1]
      BY <3>3 DEF MthBody
    <3> HIDE DEF mth
    <3> QED BY <3>1, <3>2, <3>4 DEF OwnAt, Node
  <2>2. own \in HashesOf(mth)
    <3>1. First(m, 0) = m /\ Pow2[0] = 1
      BY Ground
    <3> HIDE DEF mth
    <3> QED BY <1>2, <3>1, NodeIsHash DEF OwnAt
  <2>3. \A i \in Nat : PathAt(mth, N, m, i) \in Seq(HashesOf(mth)) /\ path[i] \in Seq(HashesOf(mth))
    <3>1. \A i \in Nat : PathAt(mth, N, m, i) \in Seq(HashesOf(mth))
      BY <1>2, PathIsSeq
    <3> HIDE DEF mth, own
    <3> QED BY <2>2, <3>1
  <2>4. ASSUME NEW i \in Nat PROVE Grows(mth, N, m, path, i)
    <3>1. Odd(Anc(m)[i]) \/ Anc(m)[i] < Anc(N - 1)[i] => SibAt(mth, N, m, i) \in HashesOf(mth)
      BY <1>2, TreeRung
    <3>2. IF Odd(Anc(m)[i]) \/ Anc(m)[i] < Anc(N - 1)[i]
            THEN PathAt(mth, N, m, i + 1) = Append(PathAt(mth, N, m, i), SibAt(mth, N, m, i))
            ELSE PathAt(mth, N, m, i + 1) = PathAt(mth, N, m, i)
      BY <1>2, PathGrows
    <3> HIDE DEF mth, own
    <3>3. path[i] = <<own>> \o PathAt(mth, N, m, i) /\ path[i + 1] = <<own>> \o PathAt(mth, N, m, i + 1)
      <4>1. i + 1 \in Nat
        OBVIOUS
      <4> QED BY <4>1, Zenon
    <3> HIDE DEF path
    <3>4. SibAt(mth, N, m, i) \in HashesOf(mth) =>
            <<own>> \o Append(PathAt(mth, N, m, i), SibAt(mth, N, m, i))
              = Append(<<own>> \o PathAt(mth, N, m, i), SibAt(mth, N, m, i))
      BY <2>2, <2>3, ConsedLonger
    <3> QED BY <3>1, <3>2, <3>3, <3>4 DEF Grows
  <2>5. path[0] = <<own>>
    <3>1. PathAt(mth, N, m, 0) = <<>>
      BY <1>2, PathIsSeq
    <3> HIDE DEF own, mth
    <3>2. <<own>> \o <<>> = <<own>>
      OBVIOUS
    <3> QED BY <3>1, <3>2
  <2>6. Ladder(L)
    <3> HIDE DEF own, path, L
    <3>1. 0 \in Nat /\ 0 <= N
      OBVIOUS
    <3>2. path[0] = <<OwnAt(mth, N, m, 0)>> /\ OwnAt(mth, m + 1, m, 0) = OwnAt(mth, N, m, 0)
      BY <2>1, <2>5 DEF own
    <3> QED BY <1>2, <2>3, <2>4, <3>1, <3>2, TreeIsLadder DEF L
  <2>7. /\ L.from = 0 /\ L.top = N /\ L.fn[0] = m /\ L.sn[0] = N - 1
        /\ L.own[N] = mth[<<0, N>>] /\ L.path[N] = <<own>> \o PathOf(mth, m, 0, N)
    <3>1. Anc(m)[0] = m /\ Anc(N - 1)[0] = N - 1
      BY AncEquation
    <3>2. OwnAt(mth, N, m, N) = mth[<<0, N>>] /\ First(m, N) = 0 /\ Width(N, 0, Pow2[N]) = N
      BY <1>2, TopIs
    <3>3. m - 0 = m
      OBVIOUS
    <3>4. PathAt(mth, N, m, N) = PathOf(mth, m, 0, N)
      BY <3>2, <3>3 DEF PathAt
    <3> HIDE DEF mth, own
    <3> QED BY <3>1, <3>2, <3>4 DEF TreeLadder
  <2>8. /\ given \in Seq(S \cup {leaf}) /\ given # <<>> /\ given[1] = leaf /\ Tail(given) = proof
        /\ given = <<own>> \o PathOf(mth, m, 0, N) <=> leaf = own /\ proof = PathOf(mth, m, 0, N)
    <3>1. PathAt(mth, N, m, N) = PathOf(mth, m, 0, N)
      <4>1. OwnAt(mth, N, m, N) = mth[<<0, N>>] /\ First(m, N) = 0 /\ Width(N, 0, Pow2[N]) = N
        BY <1>2, TopIs
      <4>2. m - 0 = m
        OBVIOUS
      <4> QED BY <4>1, <4>2 DEF PathAt
    <3>2. PathOf(mth, m, 0, N) \in Seq(HashesOf(mth))
      BY <2>3, <3>1
    <3> HIDE DEF mth, own
    <3>3. given = <<own>> \o PathOf(mth, m, 0, N) <=> leaf = own /\ proof = PathOf(mth, m, 0, N)
      BY <3>2, ConsedSame
    <3> QED BY <3>3, Consed
  <2> HIDE DEF own, path, L, given, mth
  <2> DEFINE ok == TRUE
  <2>9. VerifyInclusion(leaf, m, N, proof, mth[<<0, N>>])
          <=> LET w == Walk(W(m, N - 1, leaf, leaf, ok), proof) IN w.ok /\ w.sn = 0 /\ w.sr = mth[<<0, N>>]
    BY <1>2 DEF VerifyInclusion, W
  <2>10. ok = TRUE
    OBVIOUS
  <2> HIDE DEF ok
  <2>11. Judges(L, given, Walk(W(L.fn[L.from], L.sn[L.from], given[1], given[1], ok), Tail(given)))
    BY <2>6, <2>8, <2>10, WalkIsExact
  <2>12. Judges(L, given, Walk(W(m, N - 1, leaf, leaf, ok), proof))
    BY <2>7, <2>8, <2>11
  <2> QED BY <1>2, <2>1, <2>7, <2>8, <2>9, <2>12 DEF Judges, mth
<1> QED BY <1>1, <1>2

-----------------------------------------------------------------------------
(* The log's own consistency proof, level by level. *)
Inside(m, i) == ~Odd(Anc(m)[i]) \/ m + 1 < First(m, i) + Pow2[i]

\* Does the range from s begin the tree?
Whole(s) == s = 0

SubAt(mth, N, m, i) ==
  SubproofOf(mth, m + 1 - First(m, i), First(m, i), Width(N, First(m, i), Pow2[i]), Whole(First(m, i)))

LEMMA WholeIs ==
  ASSUME NEW s
  PROVE  Whole(s) \in Flags /\ (s # 0 => Whole(s) = No) /\ (s = 0 => Whole(s) # No)
BY Zenon DEF Whole, Flags, No

LEMMA SubGrows ==
  ASSUME NEW mth, NEW N \in Nat, NEW m \in Nat, m + 1 < N, NEW i \in Nat, Inside(m, i)
  PROVE  /\ IF Odd(Anc(m)[i]) \/ Anc(m)[i] < Anc(N - 1)[i]
              THEN SubAt(mth, N, m, i + 1) = Append(SubAt(mth, N, m, i), SibAt(mth, N, m, i))
              ELSE SubAt(mth, N, m, i + 1) = SubAt(mth, N, m, i)
         /\ Inside(m, i + 1)
<1> DEFINE P == Pow2[i]
           s == First(m, i)
           t == First(m, i + 1)
           a == Anc(m)[i]
           b == Anc(N - 1)[i]
           w == Width(N, t, 2 * P)
           n == m + 1 - t
<1>0. m < N
  OBVIOUS
<1>1. P \in Nat /\ 0 < P /\ Pow2[i + 1] = 2 * P
  BY PowNat, PowStep
<1>2. s \in Nat /\ t \in Nat /\ (Odd(a) => s = t + P) /\ (~Odd(a) => s = t)
  BY FirstMoves
<1>3. s <= m /\ m < s + P
  BY FirstSpan
<1>4. a < b <=> s + P < N
  BY <1>0, NodeAfter
<1>5. SubAt(mth, N, m, i + 1) = SubproofOf(mth, n, t, w, Whole(t))
  BY <1>1 DEF SubAt
<1>6. SubAt(mth, N, m, i) = SubproofOf(mth, m + 1 - s, s, Width(N, s, P), Whole(s))
  BY DEF SubAt
<1>7. n \in Nat /\ 0 < n /\ t < N 
  BY <1>1, <1>2, <1>3
<1>13. Whole(t) \in Flags
  BY WholeIs
<1>8. t + P < N => w \in Nat /\ w > 1 /\ Split(w) = P /\ Width(N, t, P) = P /\ Width(N, t + P, P) = w - P
  BY <1>2, NodeSplits
<1>9. Inside(m, i + 1)
  BY <1>1, <1>2, <1>3 DEF Inside
<1>10. CASE Odd(a)
  <2>1. SibAt(mth, N, m, i) = mth[<<t, Width(N, t, P)>>]
    BY <1>10 DEF SibAt, Node
  <2>2. s = t + P /\ t + P < N /\ n > P /\ n - P = m + 1 - s /\ s # 0
    BY <1>1, <1>2, <1>3, <1>10
  <2>3. n < w
    <3>1. m + 1 < s + P
      BY <1>10 DEF Inside
    <3> QED BY <1>1, <1>2, <2>2, <3>1 DEF Width
  <2> HIDE DEF P, s, t, a, b, w, n
  <2>5. Whole(s) = No
    BY <2>2, WholeIs
  <2>4. SubproofOf(mth, n, t, w, Whole(t))
          = Append(SubproofOf(mth, n - Split(w), t + Split(w), w - Split(w), Whole(s)), mth[<<t, Split(w)>>])
    <3>1. n \in Nat /\ t \in Nat /\ w \in Nat /\ 0 < n /\ n <= w /\ n # w /\ n > Split(w)
      BY <1>2, <1>7, <1>8, <2>2, <2>3
    <3> DEFINE f == Whole(t)
    <3>2. f \in Flags
      BY <1>13
    <3> HIDE DEF f
    <3>3. SubproofOf(mth, n, t, w, f)
            = Append(SubproofOf(mth, n - Split(w), t + Split(w), w - Split(w), No), mth[<<t, Split(w)>>])
      <4>1. SubCases(mth, n, t, w, f)
        BY <3>1, <3>2, SubEquation
      <4> QED BY <3>1, <4>1 DEF SubCases
    <3> QED BY <2>5, <3>3 DEF f
  <2> QED BY <1>5, <1>6, <1>8, <1>9, <1>10, <2>1, <2>2, <2>4 DEF a
<1>11. CASE ~Odd(a) /\ a < b
  <2>1. SibAt(mth, N, m, i) = mth[<<s + P, Width(N, s + P, P)>>]
    BY <1>11 DEF SibAt, Node
  <2>2. s = t /\ t + P < N /\ n <= P /\ P < w
    BY <1>1, <1>2, <1>3, <1>4, <1>11 DEF Width
  <2> HIDE DEF P, s, t, a, b, w, n
  <2>3. SubproofOf(mth, n, t, w, Whole(t))
          = Append(SubproofOf(mth, n, t, Split(w), Whole(t)), mth[<<t + Split(w), w - Split(w)>>])
    <3>1. n \in Nat /\ t \in Nat /\ w \in Nat /\ 0 < n /\ n <= w /\ n # w /\ n <= Split(w)
      BY <1>1, <1>2, <1>7, <1>8, <2>2
    <3> DEFINE f == Whole(t)
    <3>2. f \in Flags
      BY <1>13
    <3> HIDE DEF f
    <3>3. SubproofOf(mth, n, t, w, f)
            = Append(SubproofOf(mth, n, t, Split(w), f), mth[<<t + Split(w), w - Split(w)>>])
      <4>1. SubCases(mth, n, t, w, f)
        BY <3>1, <3>2, SubEquation
      <4> QED BY <3>1, <4>1 DEF SubCases
    <3> QED BY <3>3 DEF f
  <2>4. n = m + 1 - s
    BY <2>2 DEF n
  <2> QED BY <1>5, <1>6, <1>8, <1>9, <1>11, <2>1, <2>2, <2>3, <2>4 DEF a, b
<1>12. CASE ~Odd(a) /\ ~(a < b)
  <2>1. s = t /\ s < N /\ N <= s + P /\ n = m + 1 - s
    BY <1>1, <1>2, <1>3, <1>4, <1>12
  <2>2. w = Width(N, s, P)
    BY <1>1, <1>2, <2>1 DEF Width
  <2> HIDE DEF P, s, t, a, b, w, n
  <2> QED BY <1>5, <1>6, <1>9, <1>12, <2>1, <2>2 DEF a, b
<1> QED BY <1>10, <1>11, <1>12

\* `while fn & 1` goes up to the largest whole subtree the old tree ends with.
StripsAt(m, N, i, l) ==
  /\ l \in Nat /\ ~Odd(Anc(m)[l]) /\ m + 1 = First(m, l) + Pow2[l]
  /\ Strip[<<Anc(m)[i], Anc(N - 1)[i]>>] = <<Anc(m)[l], Anc(N - 1)[l]>>

LEMMA StripsTo ==
  ASSUME NEW N \in Nat, NEW m \in Nat, m < N
  PROVE  \E l \in Nat : StripsAt(m, N, 0, l)
<1> DEFINE P(i) == m + 1 = First(m, i) + Pow2[i] => \E l \in Nat : StripsAt(m, N, i, l)
           S == {n \in Nat : \A i \in Nat : Anc(m)[i] = n => P(i)}
<1>0. N - 1 \in Nat
  OBVIOUS
<1>1. ASSUME NEW n \in Nat, \A k \in Nat : k < n => k \in S PROVE n \in S
  <2> SUFFICES ASSUME NEW i \in Nat, Anc(m)[i] = n, m + 1 = First(m, i) + Pow2[i]
               PROVE  \E l \in Nat : StripsAt(m, N, i, l)
    OBVIOUS
  <2>1. /\ Anc(m)[i] \in Nat /\ Anc(N - 1)[i] \in Nat
        /\ Anc(m)[i + 1] = Anc(m)[i] \div 2 /\ Anc(N - 1)[i + 1] = Anc(N - 1)[i] \div 2
        /\ Anc(m)[i + 1] \in Nat
    BY <1>0, AncNat, AncEquation
  <2>2. CASE ~Odd(Anc(m)[i])
    <3>1. Strip[<<Anc(m)[i], Anc(N - 1)[i]>>] = <<Anc(m)[i], Anc(N - 1)[i]>>
      BY <2>1, <2>2, StripEquation
    <3> QED BY <2>2, <3>1 DEF StripsAt
  <2>3. CASE Odd(Anc(m)[i])
    <3>1. Strip[<<Anc(m)[i], Anc(N - 1)[i]>>] = Strip[<<Anc(m)[i + 1], Anc(N - 1)[i + 1]>>]
      BY <2>1, <2>3, StripEquation
    <3>2. Anc(m)[i + 1] < n
      BY <2>1, <2>3, Half DEF Odd
    <3>3. m + 1 = First(m, i + 1) + Pow2[i + 1]
      <4> DEFINE s == First(m, i)
                 t == First(m, i + 1)
                 Q == Pow2[i]
      <4>1. s \in Nat /\ t \in Nat /\ s = t + Q
        BY <2>3, FirstMoves
      <4>2. Q \in Nat /\ Pow2[i + 1] = 2 * Q /\ m + 1 = s + Q
        BY PowNat, PowStep
      <4> HIDE DEF s, t, Q
      <4>3. m + 1 = t + 2 * Q
        BY <4>1, <4>2
      <4> QED BY <4>2, <4>3 DEF t
    <3>4. Anc(m)[i + 1] \in S
      BY <3>2, <2>1, <1>1
    <3>5. i + 1 \in Nat
      OBVIOUS
    <3>6. PICK l \in Nat : StripsAt(m, N, i + 1, l)
      BY <3>3, <3>4, <3>5
    <3>7. StripsAt(m, N, i, l)
      BY <3>1, <3>6 DEF StripsAt
    <3> QED BY <3>7
  <2> QED BY <2>2, <2>3
<1>2. Nat \subseteq S
  <2> HIDE DEF S
  <2> QED BY <1>1, PowR!StrongInduction
<1>3. Anc(m)[0] \in S
  BY <1>2, AncNat
<1>4. m + 1 = First(m, 0) + Pow2[0]
  BY Ground
<1> QED BY <1>3, <1>4

LEMMA PowDivides ==
  \A i, j \in Nat : i < j => \E c \in Nat : Pow2[j] = c * (2 * Pow2[i])
<1> SUFFICES ASSUME NEW i \in Nat PROVE \A j \in Nat : i < j => \E c \in Nat : Pow2[j] = c * (2 * Pow2[i])
  OBVIOUS
<1> DEFINE S == {j \in Nat : i < j => \E c \in Nat : Pow2[j] = c * (2 * Pow2[i])}
<1>1. 0 \in S
  OBVIOUS
<1>2. ASSUME NEW j \in Nat, j \in S PROVE j + 1 \in S
  <2> DEFINE P == Pow2[i]
  <2>1. P \in Nat /\ Pow2[j + 1] = 2 * Pow2[j]
    BY PowNat, PowStep
  <2>2. CASE i < j
    <3>1. PICK c \in Nat : Pow2[j] = c * (2 * P)
      BY <1>2, <2>2
    <3> HIDE DEF P
    <3>2. 2 * (c * (2 * P)) = (2 * c) * (2 * P) /\ 2 * c \in Nat
      BY <2>1
    <3>3. Pow2[j + 1] = (2 * c) * (2 * P)
      BY <2>1, <3>1, <3>2
    <3> QED BY <3>2, <3>3 DEF P
  <2>3. CASE i = j
    <3>1. Pow2[j + 1] = 1 * (2 * P)
      BY <2>1, <2>3
    <3> QED BY <3>1
  <2>4. CASE i > j
    BY <2>4
  <2> QED BY <2>2, <2>3, <2>4
<1>3. Nat \subseteq S
  <2> HIDE DEF S
  <2> QED BY <1>1, <1>2, PowR!SetInduction
<1> QED BY <1>3

LEMMA Cancels ==
  ASSUME NEW x \in Nat, NEW y \in Nat, NEW P \in Nat, 0 < P, x * P = y * P
  PROVE  x = y
<1>1. ASSUME NEW u \in Nat, NEW v \in Nat, u < v PROVE u * P < v * P
  <2>1. (u + 1) * P <= v * P
    BY <1>1, Monotone
  <2>2. (u + 1) * P = u * P + P /\ u * P \in Nat /\ v * P \in Nat
    BY Doubled
  <2> QED BY <2>1, <2>2
<1>2. x * P \in Nat
  OBVIOUS
<1>3. ~(x < y) /\ ~(y < x)
  BY <1>1, <1>2
<1> QED BY <1>3

\* The old tree is one whole subtree exactly when its size is a power of two.
LEMMA PowerIsWhole ==
  ASSUME NEW m \in Nat, NEW l \in Nat, ~Odd(Anc(m)[l]), m + 1 = First(m, l) + Pow2[l]
  PROVE  PowerOfTwo(m + 1) <=> First(m, l) = 0
<1> DEFINE a == Anc(m)[l]
           P == Pow2[l]
<1>1. a \in Nat /\ P \in Nat /\ l < P /\ First(m, l) = a * P
  BY AncNat, PowNat DEF First
<1>2. First(m, l) \in Nat
  BY FirstMoves
<1>3. ASSUME First(m, l) = 0 PROVE PowerOfTwo(m + 1)
  <2>1. l \in 0..(m + 1) /\ m + 1 = Pow2[l]
    BY <1>1, <1>3
  <2> QED BY <2>1 DEF PowerOfTwo
<1>4. ASSUME PowerOfTwo(m + 1) PROVE First(m, l) = 0
  <2>1. PICK q \in 0..(m + 1) : m + 1 = Pow2[q]
    BY <1>4 DEF PowerOfTwo
  <2>2. Pow2[q] = a * P + P /\ q \in Nat /\ Pow2[q] \in Nat
    BY <1>1, <2>1, PowNat
  <2>3. CASE q = l
    <3> DEFINE f == First(m, l)
    <3>1. f \in Nat /\ P \in Nat /\ P = f + P
      BY <1>1, <1>2, <2>2, <2>3
    <3> HIDE DEF P, f
    <3>2. f = 0
      BY <3>1
    <3> QED BY <3>2 DEF f
  <2>4. CASE q < l
    <3>1. 2 * Pow2[q] <= P
      BY <2>2, <2>4, PowRises
    <3> QED BY <1>1, <1>2, <2>2, <3>1
  <2>5. CASE q > l
    <3>1. PICK c \in Nat : Pow2[q] = c * (2 * P)
      BY <2>2, <2>5, PowDivides
    <3> HIDE DEF a, P
    <3>2. a + 1 \in Nat /\ 2 * c \in Nat /\ (a + 1) * P = a * P + P /\ (2 * c) * P = c * (2 * P)
      BY <1>1, Doubled
    <3>3. a + 1 = 2 * c
      BY <1>1, <2>2, <3>1, <3>2, Cancels
    <3>4. a = 2 * (a \div 2)
      BY <1>1, Half DEF a
    <3> QED BY <1>1, <3>3, <3>4
  <2> QED BY <2>2, <2>3, <2>4, <2>5
<1> QED BY <1>3, <1>4

\* The level the old tree's last whole subtree is at: what the old tree has
\* there is what the new one has, and the proof begins with it or with nothing.
StartsAt(mth, N, m, l) ==
  /\ l <= N /\ Anc(N - 1)[l] # 0 /\ Inside(m, l)
  /\ OwnAt(mth, m + 1, m, l) = OwnAt(mth, N, m, l) /\ OwnAt(mth, N, m, l) \in HashesOf(mth)
  /\ First(m, l) = 0 => /\ SubAt(mth, N, m, l) = <<>>
                        /\ OwnAt(mth, N, m, l) = mth[<<0, m + 1>>]
  /\ First(m, l) # 0 => SubAt(mth, N, m, l) = <<OwnAt(mth, N, m, l)>>

LEMMA SubStarts ==
  ASSUME NEW mth, NEW N \in Nat, NEW m \in Nat, m + 1 < N, NEW l \in Nat,
         ~Odd(Anc(m)[l]), m + 1 = First(m, l) + Pow2[l]
  PROVE  StartsAt(mth, N, m, l)
<1> DEFINE P == Pow2[l]
           s == First(m, l)
           f == Whole(s)
<1>1. P \in Nat /\ l < P
  BY PowNat
<1>2. s \in Nat
  BY FirstMoves
<1>3. m + 1 = s + P /\ s + P < N /\ m < N /\ N - 1 \in Nat /\ m <= N - 1 /\ s < N /\ m + 1 - s = P
  BY <1>1, <1>2
<1>4. Anc(m)[l] < Anc(N - 1)[l]
  BY <1>3, NodeAfter
<1>5. Anc(N - 1)[l] # 0
  BY <1>3, <1>4, AncNat
<1>6. l <= N
  BY <1>1, <1>2, <1>3
<1>7. Width(N, s, P) = P /\ Width(m + 1, s, P) = P
  BY <1>1, <1>2, <1>3 DEF Width
<1>8. OwnAt(mth, m + 1, m, l) = mth[<<s, P>>] /\ OwnAt(mth, N, m, l) = mth[<<s, P>>]
  BY <1>7 DEF OwnAt, Node
<1>9. OwnAt(mth, N, m, l) \in HashesOf(mth)
  BY <1>1, <1>2, <1>3, NodeIsHash DEF OwnAt
<1>10. SubAt(mth, N, m, l) = SubproofOf(mth, P, s, P, f)
  BY <1>3, <1>7 DEF SubAt
<1>11. f \in Flags /\ (s # 0 => f = No) /\ (s = 0 => f # No)
  BY WholeIs
<1> HIDE DEF P, s, f
<1>12. SubCases(mth, P, s, P, f)
  BY <1>1, <1>2, <1>11, SubEquation
<1>13. (f # No => SubproofOf(mth, P, s, P, f) = <<>>) /\ (f = No => SubproofOf(mth, P, s, P, f) = <<mth[<<s, P>>]>>)
  BY <1>12 DEF SubCases
<1>14. s = 0 => m + 1 = P
  BY <1>1, <1>3
<1>15. s = 0 => SubAt(mth, N, m, l) = <<>> /\ OwnAt(mth, N, m, l) = mth[<<0, m + 1>>]
  BY <1>8, <1>10, <1>11, <1>13, <1>14
<1>16. s # 0 => SubAt(mth, N, m, l) = <<OwnAt(mth, N, m, l)>>
  BY <1>8, <1>10, <1>11, <1>13
<1> QED BY <1>5, <1>6, <1>8, <1>9, <1>15, <1>16 DEF StartsAt, Inside, s

LEMMA SubIsSeq ==
  ASSUME NEW hashes, NEW N \in Nat, NEW m \in Nat, m + 1 < N, NEW l \in Nat, StartsAt(Mth(hashes), N, m, l)
  PROVE  \A i \in Nat : i >= l => Inside(m, i) /\ SubAt(Mth(hashes), N, m, i) \in Seq(HashesOf(Mth(hashes)))
<1> DEFINE mth == Mth(hashes)
           Fine(i) == Inside(m, i) /\ SubAt(mth, N, m, i) \in Seq(HashesOf(mth))
           S == {i \in Nat : i >= l => Fine(i)}
<1>0. m < N
  OBVIOUS
<1>1. Fine(l)
  <2> DEFINE own == OwnAt(mth, N, m, l)
  <2>1. /\ Inside(m, l) /\ own \in HashesOf(mth)
        /\ SubAt(mth, N, m, l) = <<>> \/ SubAt(mth, N, m, l) = <<own>>
    BY DEF StartsAt
  <2> HIDE DEF own, mth
  <2>2. <<>> \in Seq(HashesOf(mth)) /\ <<own>> \in Seq(HashesOf(mth))
    BY <2>1
  <2> QED BY <2>1, <2>2
<1>2. 0 \in S
  BY <1>1
<1>3. ASSUME NEW i \in Nat, i \in S PROVE i + 1 \in S
  <2>1. CASE i >= l
    <3>1. Fine(i)
      BY <1>3, <2>1
    <3>2. Odd(Anc(m)[i]) \/ Anc(m)[i] < Anc(N - 1)[i] => SibAt(mth, N, m, i) \in HashesOf(mth)
      BY <1>0, TreeRung
    <3> HIDE DEF mth
    <3>3. /\ IF Odd(Anc(m)[i]) \/ Anc(m)[i] < Anc(N - 1)[i]
               THEN SubAt(mth, N, m, i + 1) = Append(SubAt(mth, N, m, i), SibAt(mth, N, m, i))
               ELSE SubAt(mth, N, m, i + 1) = SubAt(mth, N, m, i)
          /\ Inside(m, i + 1)
      BY <3>1, SubGrows
    <3>4. SubAt(mth, N, m, i + 1) \in Seq(HashesOf(mth))
      BY <3>1, <3>2, <3>3, AppendIs
    <3> QED BY <3>3, <3>4
  <2>2. CASE i < l
    <3>1. i + 1 >= l => i + 1 = l
      BY <2>2
    <3> HIDE DEF Fine
    <3> QED BY <1>1, <3>1
  <2> QED BY <2>1, <2>2
<1>4. Nat \subseteq S
  <2> HIDE DEF S
  <2> QED BY <1>2, <1>3, PowR!SetInduction
<1> QED BY <1>4

\* What a verifier that begins at level l has to be given to get to level i.
SubPathAt(mth, N, m, l, i) ==
  IF i < l THEN <<OwnAt(mth, N, m, l)>>
  ELSE IF First(m, l) = 0 THEN <<OwnAt(mth, N, m, l)>> \o SubAt(mth, N, m, i) ELSE SubAt(mth, N, m, i)
SubPath(mth, N, m, l) == [i \in Nat |-> SubPathAt(mth, N, m, l, i)]

LEMMA SubIsLadder ==
  ASSUME NEW hashes, NEW N \in Nat, NEW m \in Nat, m + 1 < N, NEW l \in Nat, StartsAt(Mth(hashes), N, m, l)
  PROVE  Ladder(TreeLadder(Mth(hashes), N, m, l, SubPath(Mth(hashes), N, m, l)))
<1> DEFINE mth == Mth(hashes)
           own == OwnAt(mth, N, m, l)
           path == SubPath(mth, N, m, l)
           Sub(i) == SubAt(mth, N, m, i)
           Sib(i) == SibAt(mth, N, m, i)
           H == HashesOf(mth)
           f == First(m, l)
<1>0. m < N
  OBVIOUS
<1>1. /\ l <= N /\ OwnAt(mth, m + 1, m, l) = own /\ own \in H
      /\ f = 0 => Sub(l) = <<>>
      /\ f # 0 => Sub(l) = <<own>>
  BY DEF StartsAt
<1>2. \A i \in Nat : i >= l => Inside(m, i) /\ Sub(i) \in Seq(H)
  BY SubIsSeq
<1>3. \A i \in Nat : Odd(Anc(m)[i]) \/ Anc(m)[i] < Anc(N - 1)[i] => Sib(i) \in H
  BY <1>0, TreeRung
<1>4. ASSUME NEW i \in Nat, i >= l
      PROVE  IF Odd(Anc(m)[i]) \/ Anc(m)[i] < Anc(N - 1)[i]
               THEN Sub(i + 1) = Append(Sub(i), Sib(i)) ELSE Sub(i + 1) = Sub(i)
  <2>1. Inside(m, i)
    BY <1>2, <1>4
  <2> HIDE DEF mth
  <2> QED BY <2>1, SubGrows
<1>5. ASSUME NEW i \in Nat
      PROVE  path[i] = IF i < l THEN <<own>> ELSE IF f = 0 THEN <<own>> \o Sub(i) ELSE Sub(i)
  BY Zenon DEF SubPath, SubPathAt
<1>6. \A i \in Nat : Grows(mth, N, m, path, i) <=>
        IF Odd(Anc(m)[i]) \/ Anc(m)[i] < Anc(N - 1)[i]
          THEN path[i + 1] = Append(path[i], Sib(i)) ELSE path[i + 1] = path[i]
  BY Zenon DEF Grows
<1> HIDE DEF mth, own, path, Sub, Sib, H, f
<1>7. path[l] = <<own>>
  <2>1. <<own>> \o <<>> = <<own>>
    OBVIOUS
  <2>2. ~(l < l)
    OBVIOUS
  <2> QED BY <1>1, <1>5, <2>1, <2>2
<1>8. ASSUME NEW i \in Nat PROVE path[i] \in Seq(H)
  <2>1. CASE i < l
    <3>1. <<own>> \in Seq(H)
      BY <1>1
    <3>2. path[i] = <<own>>
      BY <1>5, <2>1
    <3> QED BY <3>1, <3>2
  <2>2. CASE ~(i < l)
    <3>1. Sub(i) \in Seq(H)
      BY <1>2, <2>2
    <3>2. <<own>> \o Sub(i) \in Seq(H)
      BY <1>1, <3>1
    <3> QED BY <1>5, <2>2, <3>1, <3>2
  <2> QED BY <2>1, <2>2
<1>9. ASSUME NEW i \in Nat, i >= l PROVE Grows(mth, N, m, path, i)
  <2>1. i + 1 \in Nat /\ ~(i + 1 < l) /\ ~(i < l)
    BY <1>9
  <2>2. /\ path[i] = IF f = 0 THEN <<own>> \o Sub(i) ELSE Sub(i)
        /\ path[i + 1] = IF f = 0 THEN <<own>> \o Sub(i + 1) ELSE Sub(i + 1)
    BY <1>5, <2>1
  <2>3. Sib(i) \in H => <<own>> \o Append(Sub(i), Sib(i)) = Append(<<own>> \o Sub(i), Sib(i))
    BY <1>1, <1>2, <1>9, ConsedLonger
  <2> QED BY <1>3, <1>4, <1>6, <1>9, <2>2, <2>3
<1>10. \A i \in Nat : path[i] \in Seq(HashesOf(mth))
  BY <1>8 DEF H
<1>11. path[l] = <<OwnAt(mth, N, m, l)>> /\ OwnAt(mth, m + 1, m, l) = OwnAt(mth, N, m, l) /\ l <= N
  BY <1>1, <1>7 DEF own
<1>12. Ladder(TreeLadder(mth, N, m, l, path))
  <2>1. \A i \in Nat : i >= l => Grows(mth, N, m, path, i)
    BY <1>9
  <2> QED BY <1>0, <1>10, <1>11, <2>1, TreeIsLadder DEF mth
<1> QED BY <1>12 DEF mth, path

\* What verify_consistency does with two sizes in order: the walk it judges by.
Accepts(oldRoot, newRoot, proof, w) ==
  /\ proof # <<>>
  /\ w.ok /\ w.sn = 0 /\ w.fr = oldRoot /\ w.sr = newRoot

LEMMA StartIs ==
  ASSUME NEW N \in Nat, NEW m \in Nat, NEW g, NEW ok, NEW c, NEW d, Strip[<<m, N - 1>>] = <<c, d>>
  PROVE  Stripped(W((m + 1) - 1, N - 1, g, g, ok)) = W(c, d, g, g, ok)
<1> DEFINE b == N - 1
<1>1. (m + 1) - 1 = m
  OBVIOUS
<1>2. Strip[<<m, b>>] = <<c, d>>
  OBVIOUS
<1> HIDE DEF b
<1>3. Stripped(W(m, b, g, g, ok)) = W(c, d, g, g, ok)
  BY <1>2, StrippedIs
<1> QED BY <1>1, <1>3 DEF b

LEMMA VerifyIs ==
  ASSUME NEW N \in Nat, NEW m \in Nat, m + 1 < N, NEW oldRoot, NEW newRoot, NEW proof, NEW given, NEW ok,
         NEW c, NEW d, Strip[<<m, N - 1>>] = <<c, d>>
  PROVE  given = Opened(m + 1, oldRoot, proof) /\ ok = TRUE =>
           (VerifyConsistency(m + 1, N, oldRoot, newRoot, proof)
              <=> Accepts(oldRoot, newRoot, proof, Walk(W(c, d, given[1], given[1], ok), Tail(given))))
<1>1. /\ ~(m + 1 > N) /\ ~(m + 1 = N) /\ ~(m + 1 = 0) /\ m + 1 > 0
  OBVIOUS
<1>2. Stripped(W((m + 1) - 1, N - 1, given[1], given[1], ok)) = W(c, d, given[1], given[1], ok)
  <2> DEFINE g == given[1]
  <2> HIDE DEF g
  <2>1. Stripped(W((m + 1) - 1, N - 1, g, g, ok)) = W(c, d, g, g, ok)
    BY StartIs
  <2> QED BY <2>1 DEF g
<1>3. ASSUME given = Opened(m + 1, oldRoot, proof), ok = TRUE
      PROVE  VerifyConsistency(m + 1, N, oldRoot, newRoot, proof)
               <=> Accepts(oldRoot, newRoot, proof,
                           Walk(Stripped(W((m + 1) - 1, N - 1, given[1], given[1], ok)), Tail(given)))
  BY <1>1, <1>3 DEF VerifyConsistency, Accepts, W
<1> QED BY <1>2, <1>3

\* What the walk makes of a proof, when the old tree is a whole subtree and when not.
LEMMA AcceptsWhole ==
  ASSUME NEW L, Ladder(L), NEW own, NEW T, NEW sub \in Seq(T), L.path[L.top] = <<own>> \o sub, own = L.old[L.top],
         1 < Len(L.path[L.top]), NEW S, NEW proof \in Seq(S), NEW root, NEW w, Judges(L, <<root>> \o proof, w)
  PROVE  Accepts(root, L.own[L.top], proof, w) <=> root = own /\ proof = sub
<1>1. <<root>> \o proof = L.path[L.top] <=> root = own /\ proof = sub
  BY ConsedSame
<1>2. proof = sub => proof # <<>>
  <2>1. Len(<<own>> \o sub) = Len(sub) + 1
    OBVIOUS
  <2> QED BY <2>1
<1> HIDE DEF Judges
<1>3. /\ w.ok /\ w.sn = 0 /\ w.sr = L.own[L.top] <=> root = own /\ proof = sub
      /\ root = own /\ proof = sub => w.fr = own
  BY <1>1 DEF Judges
<1> QED BY <1>2, <1>3 DEF Accepts

LEMMA AcceptsPart ==
  ASSUME NEW L, Ladder(L), NEW sub, L.path[L.top] = sub,
         1 < Len(L.path[L.top]), NEW proof, NEW root, NEW w, Judges(L, proof, w)
  PROVE  Accepts(root, L.own[L.top], proof, w) <=> root = L.old[L.top] /\ proof = sub
<1>1. proof = sub => proof # <<>>
  OBVIOUS
<1>2. /\ w.ok /\ w.sn = 0 /\ w.sr = L.own[L.top] <=> proof = sub
      /\ proof = sub => w.fr = L.old[L.top]
  BY DEF Judges
<1> QED BY <1>1, <1>2 DEF Accepts

\* The proof the log gives, as a path of the ladder it is judged by.
LEMMA SubTop ==
  ASSUME NEW hashes, NEW N \in Nat, NEW m \in Nat, m + 1 < N, NEW l \in Nat, StartsAt(Mth(hashes), N, m, l)
  PROVE  LET mth == Mth(hashes)
             L == TreeLadder(mth, N, m, l, SubPath(mth, N, m, l))
             sub == SubproofOf(mth, m + 1, 0, N, TRUE)
         IN /\ L.from = l /\ L.top = N /\ L.fn[l] = Anc(m)[l] /\ L.sn[l] = Anc(N - 1)[l]
            /\ L.own[N] = mth[<<0, N>>] /\ L.old[N] = mth[<<0, m + 1>>]
            /\ sub \in Seq(HashesOf(mth))
            /\ L.path[N] = IF First(m, l) = 0 THEN <<OwnAt(mth, N, m, l)>> \o sub ELSE sub
            /\ 1 < Len(L.path[N])
<1> DEFINE mth == Mth(hashes)
           L == TreeLadder(mth, N, m, l, SubPath(mth, N, m, l))
           sub == SubproofOf(mth, m + 1, 0, N, TRUE)
           own == OwnAt(mth, N, m, l)
<1>0. m < N /\ m + 1 \in Nat /\ m + 1 <= N /\ m < m + 1
  OBVIOUS
<1>1. /\ L.from = l /\ L.top = N /\ L.fn[l] = Anc(m)[l] /\ L.sn[l] = Anc(N - 1)[l]
      /\ L.own[N] = OwnAt(mth, N, m, N) /\ L.old[N] = OwnAt(mth, m + 1, m, N)
      /\ L.own[l] = own
      /\ L.path = SubPath(mth, N, m, l)
  BY DEF TreeLadder
<1>2. OwnAt(mth, N, m, N) = mth[<<0, N>>] /\ First(m, N) = 0 /\ Width(N, 0, Pow2[N]) = N
  BY <1>0, TopIs
<1>3. OwnAt(mth, m + 1, m, N) = mth[<<0, m + 1>>]
  BY <1>0, TopIs
<1>4. l <= N /\ Anc(N - 1)[l] # 0
  BY DEF StartsAt
<1>5. SubAt(mth, N, m, N) \in Seq(HashesOf(mth))
  BY <1>4, SubIsSeq
<1>6. SubAt(mth, N, m, N) = sub
  <2>1. m + 1 - 0 = m + 1
    OBVIOUS
  <2>2. SubAt(mth, N, m, N) = SubproofOf(mth, m + 1, 0, N, Whole(0))
    BY <1>2, <2>1 DEF SubAt
  <2>3. SubproofOf(mth, m + 1, 0, N, Whole(0)) = SubproofOf(mth, m + 1, 0, N, TRUE)
    BY Zenon DEF Whole
  <2> QED BY <2>2, <2>3
<1>7. L.path[N] = SubPathAt(mth, N, m, l, N)
  <2> HIDE DEF mth, L
  <2>1. SubPath(mth, N, m, l)[N] = SubPathAt(mth, N, m, l, N)
    BY Zenon DEF SubPath
  <2> QED BY <1>1, <2>1
<1>8. L.path[N] = IF First(m, l) = 0 THEN <<own>> \o SubAt(mth, N, m, N) ELSE SubAt(mth, N, m, N)
  <2> HIDE DEF mth, L
  <2>1. ~(N < l)
    BY <1>4
  <2> QED BY <1>7, <2>1 DEF SubPathAt
<1>9. Ladder(L)
  BY SubIsLadder
<1>10. 1 < Len(L.path[N])
  <2> HIDE DEF mth, L
  <2>1. L.path[L.from] = <<L.own[L.from]>>
    BY <1>9 DEF Ladder
  <2>2. Len(L.path[l]) = 1
    BY <1>1, <2>1
  <2>3. L.sn[l] # 0 /\ l >= L.from
    BY <1>1, <1>4
  <2>4. Len(L.path[l]) < Len(L.path[L.top])
    BY <1>9, <2>3, MoreToCome
  <2> QED BY <1>1, <2>2, <2>4
<1> HIDE DEF mth, L, sub, own
<1>11. /\ L.from = l /\ L.top = N /\ L.fn[l] = Anc(m)[l] /\ L.sn[l] = Anc(N - 1)[l]
       /\ L.own[N] = mth[<<0, N>>] /\ L.old[N] = mth[<<0, m + 1>>]
       /\ sub \in Seq(HashesOf(mth))
       /\ L.path[N] = IF First(m, l) = 0 THEN <<own>> \o sub ELSE sub
       /\ 1 < Len(L.path[N])
  BY <1>1, <1>2, <1>3, <1>5, <1>6, <1>8, <1>10
<1> QED BY <1>11 DEF mth, L, sub, own

(***************************************************************************)
(* verify_consistency accepts a proof between two sizes, neither of them   *)
(* none, exactly when it is the new tree's own and the old root that of    *)
(* its first leaves: for every tree, pair of sizes, root and proof.        *)
(***************************************************************************)
THEOREM ConsistencyIsExact ==
  ASSUME NEW hashes, NEW N \in Nat, NEW m \in Nat, m + 1 < N, NEW root, NEW S, NEW proof \in Seq(S)
  PROVE  VerifyConsistency(m + 1, N, root, Mth(hashes)[<<0, N>>], proof)
           <=> root = Mth(hashes)[<<0, m + 1>>] /\ proof = SubproofOf(Mth(hashes), m + 1, 0, N, TRUE)
<1> DEFINE mth == Mth(hashes)
           sub == SubproofOf(mth, m + 1, 0, N, TRUE)
<1>0. m < N /\ N - 1 \in Nat
  OBVIOUS
<1>1. PICK l \in Nat : StripsAt(m, N, 0, l)
  BY <1>0, StripsTo
<1>2. /\ ~Odd(Anc(m)[l]) /\ m + 1 = First(m, l) + Pow2[l]
      /\ Strip[<<Anc(m)[0], Anc(N - 1)[0]>>] = <<Anc(m)[l], Anc(N - 1)[l]>>
  BY <1>1 DEF StripsAt
<1>3. Anc(m)[0] = m /\ Anc(N - 1)[0] = N - 1
  BY AncEquation
<1>4. StartsAt(mth, N, m, l)
  BY <1>2, SubStarts
<1>5. PowerOfTwo(m + 1) <=> First(m, l) = 0
  BY <1>2, PowerIsWhole
<1> DEFINE L == TreeLadder(mth, N, m, l, SubPath(mth, N, m, l))
           own == OwnAt(mth, N, m, l)
<1>6. /\ L.from = l /\ L.top = N /\ L.fn[l] = Anc(m)[l] /\ L.sn[l] = Anc(N - 1)[l]
      /\ L.own[N] = mth[<<0, N>>] /\ L.old[N] = mth[<<0, m + 1>>]
      /\ sub \in Seq(HashesOf(mth))
      /\ L.path[N] = IF First(m, l) = 0 THEN <<own>> \o sub ELSE sub
      /\ 1 < Len(L.path[N])
  BY <1>4, SubTop
<1>7. Ladder(L)
  BY <1>4, SubIsLadder
<1>8. First(m, l) = 0 => own = mth[<<0, m + 1>>]
  BY <1>4 DEF StartsAt
<1> HIDE DEF mth, sub, L, own
<1> DEFINE a == Anc(m)[l]
           b == Anc(N - 1)[l]
           given == Opened(m + 1, root, proof)
           ok == TRUE
           w == Walk(W(a, b, given[1], given[1], ok), Tail(given))
<1>9. VerifyConsistency(m + 1, N, root, mth[<<0, N>>], proof) <=> Accepts(root, mth[<<0, N>>], proof, w)
  <2>1. Strip[<<m, N - 1>>] = <<a, b>>
    BY <1>2, <1>3
  <2>2. given = Opened(m + 1, root, proof) /\ ok = TRUE
    OBVIOUS
  <2> HIDE DEF a, b, given, ok
  <2> QED BY <2>1, <2>2, VerifyIs
<1>10. L.fn[L.from] = a /\ L.sn[L.from] = b
  BY <1>6
<1>11. ok = TRUE
  OBVIOUS
<1> HIDE DEF a, b, ok
<1>12. CASE First(m, l) = 0
  <2>1. given = <<root>> \o proof
    BY <1>5, <1>12 DEF Opened
  <2>2. given \in Seq(S \cup {root}) /\ given # <<>>
    BY <2>1, Consed
  <2> HIDE DEF given
  <2>3. Judges(L, given, Walk(W(L.fn[L.from], L.sn[L.from], given[1], given[1], ok), Tail(given)))
    BY <1>7, <1>11, <2>2, WalkIsExact
  <2>4. Judges(L, given, w)
    BY <1>10, <2>3
  <2> HIDE DEF w
  <2>5. /\ Judges(L, <<root>> \o proof, w) /\ L.path[L.top] = <<own>> \o sub /\ own = L.old[L.top]
        /\ 1 < Len(L.path[L.top]) /\ sub \in Seq(HashesOf(mth)) /\ L.own[L.top] = mth[<<0, N>>]
    BY <1>6, <1>8, <1>12, <2>1, <2>4
  <2>6. Accepts(root, L.own[L.top], proof, w) <=> root = own /\ proof = sub
    BY <1>7, <2>5, AcceptsWhole
  <2> QED BY <1>8, <1>9, <1>12, <2>5, <2>6 DEF mth, sub, w, given
<1>13. CASE First(m, l) # 0
  <2>1. given = proof
    BY <1>5, <1>13 DEF Opened
  <2>2. L.path[L.top] = sub /\ 1 < Len(L.path[L.top]) /\ L.own[L.top] = mth[<<0, N>>] /\ L.old[L.top] = mth[<<0, m + 1>>]
    BY <1>6, <1>13
  <2>3. CASE proof = <<>>
    <3>1. proof # sub
      BY <2>2, <2>3
    <3>2. ~Accepts(root, mth[<<0, N>>], proof, w)
      BY <2>3 DEF Accepts
    <3> QED BY <1>9, <3>1, <3>2 DEF mth, sub
  <2>4. CASE proof # <<>>
    <3>1. given \in Seq(S) /\ given # <<>>
      BY <2>1, <2>4
    <3> HIDE DEF given
    <3>2. Judges(L, given, Walk(W(L.fn[L.from], L.sn[L.from], given[1], given[1], ok), Tail(given)))
      BY <1>7, <1>11, <3>1, WalkIsExact
    <3>3. Judges(L, given, w)
      BY <1>10, <3>2
    <3> HIDE DEF w
    <3>4. Judges(L, proof, w)
      BY <2>1, <3>3
    <3>5. Accepts(root, L.own[L.top], proof, w) <=> root = L.old[L.top] /\ proof = sub
      BY <1>7, <2>2, <3>4, AcceptsPart
    <3> QED BY <1>9, <2>2, <3>5 DEF mth, sub, w, given
  <2> QED BY <2>3, <2>4
<1> QED BY <1>12, <1>13

-----------------------------------------------------------------------------
\* A range's hash is one of the leaves in it.
SameLeaves(h, g, N) == \A i \in 1..N : h[i] = g[i]

LEMMA MthPrefix ==
  ASSUME NEW h, NEW g, NEW N \in Nat, SameLeaves(h, g, N), NEW from \in Nat, NEW width \in Nat, from + width <= N
  PROVE  Mth(h)[<<from, width>>] = Mth(g)[<<from, width>>]
<1> DEFINE mh == Mth(h)
           mg == Mth(g)
           S == {w \in Nat : \A s \in Nat : s + w <= N => mh[<<s, w>>] = mg[<<s, w>>]}
<1>1. ASSUME NEW w \in Nat, \A v \in Nat : v < w => v \in S PROVE w \in S
  <2> SUFFICES ASSUME NEW s \in Nat, s + w <= N PROVE mh[<<s, w>>] = mg[<<s, w>>]
    OBVIOUS
  <2>1. mh[<<s, w>>] = MthBody(h, mh, <<s, w>>) /\ mg[<<s, w>>] = MthBody(g, mg, <<s, w>>)
    BY MthEquation
  <2>2. CASE w = 0
    <3> HIDE DEF mh, mg
    <3> QED BY <2>1, <2>2 DEF MthBody
  <2>3. CASE w = 1
    <3>1. h[s + 1] = g[s + 1]
      BY <2>3 DEF SameLeaves
    <3> HIDE DEF mh, mg
    <3> QED BY <2>1, <2>3, <3>1 DEF MthBody
  <2>4. CASE w > 1
    <3> DEFINE k == Split(w)
    <3>1. k \in Nat /\ 0 < k /\ k < w
      BY <2>4, SplitBetween
    <3>2. LeftOf(<<s, w>>) = <<s, k>> /\ RightOf(<<s, w>>) = <<s + k, w - k>>
      BY DEF LeftOf, RightOf
    <3>3. k \in S /\ w - k \in S /\ s + k \in Nat /\ s + k <= N /\ (s + k) + (w - k) <= N
      <4> HIDE DEF S, k
      <4>1. w - k \in Nat /\ w - k < w
        BY <3>1
      <4> QED BY <1>1, <3>1, <4>1
    <3>4. mh[<<s, k>>] = mg[<<s, k>>] /\ mh[<<s + k, w - k>>] = mg[<<s + k, w - k>>]
      <4> HIDE DEF mh, mg, k
      <4> QED BY <3>3
    <3> HIDE DEF mh, mg, k
    <3>5. /\ mh[<<s, w>>] = node_hash(mh[<<s, k>>], mh[<<s + k, w - k>>])
          /\ mg[<<s, w>>] = node_hash(mg[<<s, k>>], mg[<<s + k, w - k>>])
      BY <2>1, <2>4, <3>2 DEF MthBody
    <3> QED BY <3>4, <3>5
  <2> QED BY <2>2, <2>3, <2>4
<1>2. Nat \subseteq S
  <2> HIDE DEF S
  <2> QED BY <1>1, PowR!StrongInduction
<1> QED BY <1>2


\* The hash of a range tells every leaf in it.
LEMMA MthTells ==
  ASSUME NEW h, NEW g, NEW N \in Nat, Mth(h)[<<0, N>>] = Mth(g)[<<0, N>>]
  PROVE  SameLeaves(h, g, N)
<1> DEFINE mh == Mth(h)
           mg == Mth(g)
           Alike(s, w) == mh[<<s, w>>] = mg[<<s, w>>]
           Same(s, w) == \A i \in 1..w : h[s + i] = g[s + i]
           S == {w \in Nat : \A s \in Nat : Alike(s, w) => Same(s, w)}
<1>1. ASSUME NEW w \in Nat, \A v \in Nat : v < w => v \in S PROVE w \in S
  <2> SUFFICES ASSUME NEW s \in Nat, Alike(s, w) PROVE Same(s, w)
    OBVIOUS
  <2>1. mh[<<s, w>>] = MthBody(h, mh, <<s, w>>) /\ mg[<<s, w>>] = MthBody(g, mg, <<s, w>>)
    BY MthEquation
  <2>2. CASE w = 0
    BY <2>2
  <2>3. CASE w = 1
    <3> HIDE DEF mh, mg, Alike
    <3>1. mh[<<s, w>>] = h[s + 1] /\ mg[<<s, w>>] = g[s + 1]
      BY <2>1, <2>3 DEF MthBody
    <3> QED BY <2>3, <3>1 DEF Alike
  <2>4. CASE w > 1
    <3> DEFINE k == Split(w)
    <3>1. k \in Nat /\ 0 < k /\ k < w
      BY <2>4, SplitBetween
    <3>2. LeftOf(<<s, w>>) = <<s, k>> /\ RightOf(<<s, w>>) = <<s + k, w - k>>
      BY DEF LeftOf, RightOf
    <3>3. k \in S /\ w - k \in S /\ s + k \in Nat
      <4> HIDE DEF S, k, Alike
      <4>1. w - k \in Nat /\ w - k < w
        BY <3>1
      <4> QED BY <1>1, <3>1, <4>1
    <3> HIDE DEF mh, mg, k, Alike
    <3>4. /\ mh[<<s, w>>] = node_hash(mh[<<s, k>>], mh[<<s + k, w - k>>])
          /\ mg[<<s, w>>] = node_hash(mg[<<s, k>>], mg[<<s + k, w - k>>])
      BY <2>1, <2>4, <3>2 DEF MthBody
    <3>5. Alike(s, k) /\ Alike(s + k, w - k)
      <4> DEFINE a == mh[<<s, k>>]
                 b == mh[<<s + k, w - k>>]
                 c == mg[<<s, k>>]
                 e == mg[<<s + k, w - k>>]
      <4>1. node_hash(a, b) = node_hash(c, e)
        BY <3>4 DEF Alike
      <4>2. a = c /\ b = e
        <5> HIDE DEF a, b, c, e
        <5> QED BY <4>1, NodesDiffer
      <4> QED BY <4>2 DEF Alike
    <3>6. Same(s, k) /\ Same(s + k, w - k)
      <4> HIDE DEF Same
      <4> QED BY <3>3, <3>5
    <3>7. ASSUME NEW i \in 1..w PROVE h[s + i] = g[s + i]
      <4>1. CASE i <= k
        BY <3>6, <4>1, <3>1
      <4>2. CASE i > k
        <5>1. i - k \in 1..(w - k) /\ (s + k) + (i - k) = s + i
          BY <3>1, <4>2
        <5> QED BY <3>6, <5>1
      <4> QED BY <3>1, <4>1, <4>2
    <3> QED BY <3>7
  <2> QED BY <2>2, <2>3, <2>4
<1>2. Nat \subseteq S
  <2> HIDE DEF S
  <2> QED BY <1>1, PowR!StrongInduction
<1>3. Same(0, N)
  <2>1. N \in S /\ 0 \in Nat
    BY <1>2
  <2>2. Alike(0, N)
    OBVIOUS
  <2> HIDE DEF Same, Alike
  <2> QED BY <2>1, <2>2
<1> QED BY <1>3 DEF SameLeaves

-----------------------------------------------------------------------------
(***************************************************************************)
(* detect_fork, given the checkpoints of two logs.                         *)
(***************************************************************************)
LeafHashes(entries) == [i \in 1..Len(entries) |-> leaf_hash(entries[i])]

\* The first sequence begins the second.
Begins(c, d) == Len(c) <= Len(d) /\ \A i \in 1..Len(c) : c[i] = d[i]

LEMMA RootsTell ==
  ASSUME NEW T, NEW c \in Seq(T), NEW d \in Seq(T), Len(c) <= Len(d)
  PROVE  MerkleRoot(LeafHashes(c)) = Mth(LeafHashes(d))[<<0, Len(c)>>] <=> Begins(c, d)
<1> DEFINE h == LeafHashes(c)
           g == LeafHashes(d)
           m == Len(c)
<1>1. m \in Nat /\ m <= Len(d) /\ Len(h) = m
  BY DEF LeafHashes
<1>2. ASSUME NEW i \in 1..m PROVE h[i] = g[i] <=> c[i] = d[i]
  <2>1. i \in 1..Len(d)
    BY <1>1
  <2>2. h[i] = leaf_hash(c[i]) /\ g[i] = leaf_hash(d[i])
    BY <2>1 DEF LeafHashes
  <2> QED BY <2>2 DEF leaf_hash
<1>3. SameLeaves(h, g, m) <=> Begins(c, d)
  BY <1>1, <1>2 DEF SameLeaves, Begins
<1>4. MerkleRoot(h) = Mth(h)[<<0, m>>]
  BY <1>1 DEF MerkleRoot
<1> HIDE DEF h, g, m
<1>5. Mth(h)[<<0, m>>] = Mth(g)[<<0, m>>] => SameLeaves(h, g, m)
  BY <1>1, MthTells
<1>6. SameLeaves(h, g, m) => Mth(h)[<<0, m>>] = Mth(g)[<<0, m>>]
  <2>1. 0 + m <= m /\ 0 \in Nat
    BY <1>1
  <2> QED BY <1>1, <2>1, MthPrefix
<1> QED BY <1>3, <1>4, <1>5, <1>6 DEF h, g, m


\* The log's own proofs are sequences of hashes.
LEMMA OwnPathIsSeq ==
  ASSUME NEW hashes, NEW N \in Nat, NEW m \in Nat, m < N
  PROVE  PathOf(Mth(hashes), m, 0, N) \in Seq(HashesOf(Mth(hashes)))
<1>1. PathAt(Mth(hashes), N, m, N) \in Seq(HashesOf(Mth(hashes)))
  BY PathIsSeq
<1>2. First(m, N) = 0 /\ Width(N, 0, Pow2[N]) = N /\ m - 0 = m
  <2>1. OwnAt(Mth(hashes), N, m, N) = Mth(hashes)[<<0, N>>] /\ First(m, N) = 0 /\ Width(N, 0, Pow2[N]) = N
    BY TopIs
  <2> QED BY <2>1
<1>3. PathAt(Mth(hashes), N, m, N) = PathOf(Mth(hashes), m, 0, N)
  BY <1>2 DEF PathAt
<1> QED BY <1>1, <1>3

LEMMA OwnSubIsSeq ==
  ASSUME NEW hashes, NEW N \in Nat, NEW m \in Nat, m + 1 < N
  PROVE  SubproofOf(Mth(hashes), m + 1, 0, N, TRUE) \in Seq(HashesOf(Mth(hashes)))
<1>1. PICK l \in Nat : StripsAt(m, N, 0, l)
  BY StripsTo
<1>2. StartsAt(Mth(hashes), N, m, l)
  BY <1>1, SubStarts DEF StripsAt
<1> QED BY <1>2, SubTop

LEMMA ConsistencyIsSeq ==
  ASSUME NEW hashes, NEW n \in Nat, NEW old \in Nat, old <= n
  PROVE  ConsistencyPath(hashes, old, n) \in Seq(HashesOf(Mth(hashes)))
<1>1. CASE old \in {0, n}
  BY <1>1 DEF ConsistencyPath
<1>2. CASE old \notin {0, n}
  <2> DEFINE m == old - 1
  <2>1. m \in Nat /\ m + 1 = old /\ m + 1 < n
    BY <1>2
  <2> HIDE DEF m
  <2>2. SubproofOf(Mth(hashes), m + 1, 0, n, TRUE) \in Seq(HashesOf(Mth(hashes)))
    BY <2>1, OwnSubIsSeq
  <2> QED BY <1>2, <2>1, <2>2 DEF ConsistencyPath
<1> QED BY <1>1, <1>2

\* ConsistencyIsExact, for the proof a log gives.
LEMMA ConsistencyIsJudged ==
  ASSUME NEW hashes, NEW n \in Nat, NEW old \in Nat \ {0}, old < n, NEW root, NEW S, NEW proof \in Seq(S)
  PROVE  VerifyConsistency(old, n, root, Mth(hashes)[<<0, n>>], proof)
           <=> root = Mth(hashes)[<<0, old>>] /\ proof = ConsistencyPath(hashes, old, n)
<1> DEFINE m == old - 1
<1>1. m \in Nat /\ m + 1 = old /\ m + 1 < n
  OBVIOUS
<1>2. old \notin {0, n}
  OBVIOUS
<1>3. ConsistencyPath(hashes, old, n) = SubproofOf(Mth(hashes), old, 0, n, TRUE)
  BY <1>2, Zenon DEF ConsistencyPath
<1> HIDE DEF m
<1>4. VerifyConsistency(m + 1, n, root, Mth(hashes)[<<0, n>>], proof)
        <=> root = Mth(hashes)[<<0, m + 1>>] /\ proof = SubproofOf(Mth(hashes), m + 1, 0, n, TRUE)
  BY <1>1, ConsistencyIsExact
<1> QED BY <1>1, <1>3, <1>4

\* The size and root a checkpoint of these entries has.
IsHead(o, entries) == o.size = Len(entries) /\ o.root = MerkleRoot(LeafHashes(entries))

\* No proof is None, not a tuple.
NoneIsNoProof == \A S : NoProof \notin Seq(S)

(***************************************************************************)
(* detect_fork says exactly what is so of the checkpoints of two logs, the *)
(* first no longer than the second, whatever proof it is given or none:    *)
(* they are consistent when the first log begins the second and the proof  *)
(* is the second's own (or none is asked for), a fork when the two are as  *)
(* long and differ; in every other case it does not say.                   *)
(***************************************************************************)
THEOREM ForksAreDetectedExactly ==
  ASSUME NoneIsNoProof, NEW T, NEW c \in Seq(T), NEW d \in Seq(T), Len(c) <= Len(d),
         NEW old, NEW new, IsHead(old, c), IsHead(new, d),
         NEW S, NEW proof \in Seq(S) \cup {NoProof}
  PROVE  /\ Compared(old, new, proof) \in {"consistent", "fork", "unknown"}
         /\ Compared(old, new, proof) = "fork" <=> Len(c) = Len(d) /\ ~Begins(c, d)
         /\ Compared(old, new, proof) = "consistent" <=>
              /\ Begins(c, d)
              /\ Len(c) \in {0, Len(d)} \/ proof = ConsistencyPath(LeafHashes(d), Len(c), Len(d))
<1> DEFINE g == LeafHashes(d)
           m == Len(c)
           n == Len(d)
<1>1. m \in Nat /\ n \in Nat /\ m <= n /\ Len(g) = n
  BY DEF LeafHashes
<1>2. old.size = m /\ new.size = n /\ new.root = Mth(g)[<<0, n>>]
  BY <1>1 DEF IsHead, MerkleRoot
<1>3. old.root = Mth(g)[<<0, m>>] <=> Begins(c, d)
  BY RootsTell DEF IsHead
<1>4. CASE m = n
  <2>1. Compared(old, new, proof) = IF old.root = new.root THEN "consistent" ELSE "fork"
    BY <1>1, <1>2, <1>4 DEF Compared
  <2> HIDE DEF g, m, n
  <2>2. old.root = new.root <=> Begins(c, d)
    BY <1>2, <1>3, <1>4
  <2> QED BY <1>4, <2>1, <2>2 DEF m, n
<1>5. CASE m = 0 /\ m < n
  <2>1. Compared(old, new, proof) = "consistent"
    BY <1>1, <1>2, <1>5 DEF Compared
  <2>2. Begins(c, d)
    BY <1>1, <1>5 DEF Begins
  <2> QED BY <1>5, <2>1, <2>2
<1>6. CASE m > 0 /\ m < n
  <2>1. Compared(old, new, proof) =
          IF proof # NoProof /\ VerifyConsistency(m, n, old.root, Mth(g)[<<0, n>>], proof)
            THEN "consistent" ELSE "unknown"
    <3> HIDE DEF g, m, n
    <3>1. ~(m = n) /\ ~(m = 0)
      BY <1>1, <1>6
    <3> QED BY <1>2, <1>6, <3>1 DEF Compared
  <2> HIDE DEF g, m, n
  <2>2. m \in Nat \ {0}
    BY <1>1, <1>6
  <2>3. ConsistencyPath(g, m, n) \in Seq(HashesOf(Mth(g)))
    BY <1>1, ConsistencyIsSeq
  <2>4. ConsistencyPath(g, m, n) # NoProof
    BY <2>3 DEF NoneIsNoProof
  <2>5. proof # NoProof /\ VerifyConsistency(m, n, old.root, Mth(g)[<<0, n>>], proof)
          <=> Begins(c, d) /\ proof = ConsistencyPath(g, m, n)
    <3>1. CASE proof = NoProof
      BY <2>4, <3>1
    <3>2. CASE proof # NoProof
      <4>1. proof \in Seq(S)
        BY <3>2
      <4>2. VerifyConsistency(m, n, old.root, Mth(g)[<<0, n>>], proof)
              <=> old.root = Mth(g)[<<0, m>>] /\ proof = ConsistencyPath(g, m, n)
        BY <1>1, <1>6, <2>2, <4>1, ConsistencyIsJudged
      <4> QED BY <1>3, <3>2, <4>2
    <3> QED BY <3>1, <3>2
  <2>6. m # n /\ m \notin {0, n}
    BY <1>1, <1>6
  <2> QED BY <2>1, <2>5, <2>6 DEF g, m, n
<1> QED BY <1>1, <1>4, <1>5, <1>6
=============================================================================
