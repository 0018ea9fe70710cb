---------------------------- MODULE LogFiles_proofs ----------------------------
(***************************************************************************)
(* What the files of a log directory hold (IssuanceLog): the tiles and     *)
(* bundles of a tree of any size, what an append writes to them, and what  *)
(* is read back.                                                           *)
(***************************************************************************)
EXTENDS IssuanceLog, Merkle_proofs, SequenceTheorems

-----------------------------------------------------------------------------
(***************************************************************************)
(* Quotients and remainders, of numbers that are all variable.             *)
(***************************************************************************)
LEMMA DivIs ==
  ASSUME NEW n \in Nat, NEW w \in Nat, 0 < w
  PROVE  /\ n \div w \in Nat /\ n % w \in Nat /\ n % w < w
         /\ n = (n \div w) * w + (n % w)
<1>1. \A q, r \in Int : q = n \div w /\ r = n % w => n = w * q + r
  OBVIOUS
<1>2. n \div w \in Nat /\ n % w \in Nat /\ n % w < w
  OBVIOUS
<1>3. PICK q \in Nat, r \in Nat : q = n \div w /\ r = n % w
  BY <1>2
<1>4. q * w = w * q
  OBVIOUS
<1>5. n = q * w + r
  BY <1>1, <1>3, <1>4
<1> QED BY <1>2, <1>3, <1>5, Zenon

LEMMA TimesIs ==
  ASSUME NEW a \in Nat, NEW b \in Nat
  PROVE  /\ a * b \in Nat /\ a * b = b * a /\ (a + 1) * b = a * b + b
         /\ 0 < a => b <= a * b
OBVIOUS

\* A product with room for less than one more factor.
LEMMA QuotientIs ==
  ASSUME NEW n \in Nat, NEW w \in Nat, 0 < w, NEW q \in Nat, q * w <= n, n < q * w + w
  PROVE  n \div w = q /\ n % w = n - q * w
<1> DEFINE p == n \div w
           r == n % w
<1>1. p \in Nat /\ r \in Nat /\ r < w /\ n = p * w + r
  BY DivIs
<1> HIDE DEF p, r
<1>2. q * w \in Nat /\ p * w \in Nat /\ (p + 1) * w = p * w + w /\ (q + 1) * w = q * w + w
  BY <1>1, TimesIs
<1>3. ~(p < q)
  <2>1. p + 1 <= q => (p + 1) * w <= q * w
    BY <1>1, Monotone
  <2> QED BY <1>1, <1>2, <2>1
<1>4. ~(q < p)
  <2>1. q + 1 <= p => (q + 1) * w <= p * w
    BY <1>1, Monotone
  <2> QED BY <1>1, <1>2, <2>1
<1>5. p = q
  BY <1>1, <1>3, <1>4
<1>6. r = n - q * w
  BY <1>1, <1>2, <1>5
<1> QED BY <1>5, <1>6 DEF p, r

LEMMA QuotientRises ==
  ASSUME NEW m \in Nat, NEW n \in Nat, m <= n, NEW w \in Nat, 0 < w
  PROVE  m \div w <= n \div w
<1> DEFINE p == m \div w
           q == n \div w
<1>1. p \in Nat /\ q \in Nat /\ p * w <= m /\ n < q * w + w
  <2>1. p \in Nat /\ q \in Nat /\ m % w \in Nat /\ n % w \in Nat /\ n % w < w
        /\ m = p * w + (m % w) /\ n = q * w + (n % w)
    BY DivIs
  <2> DEFINE r == m % w
             u == n % w
  <2>2. p \in Nat /\ q \in Nat /\ r \in Nat /\ u < w /\ m = p * w + r /\ n = q * w + u /\ u \in Nat
    BY <2>1
  <2> HIDE DEF p, q, r, u
  <2>3. p * w \in Nat /\ q * w \in Nat
    BY <2>2, TimesIs
  <2> QED BY <2>2, <2>3
<1> HIDE DEF p, q
<1>2. q + 1 <= p => (q + 1) * w <= p * w
  BY <1>1, Monotone
<1>3. (q + 1) * w = q * w + w /\ p * w \in Nat /\ q * w \in Nat
  BY <1>1, TimesIs
<1>4. p <= q
  BY <1>1, <1>2, <1>3
<1> QED BY <1>4 DEF p, q

\* Dividing twice.
LEMMA QuotientTwice ==
  ASSUME NEW n \in Nat, NEW a \in Nat, 0 < a, NEW b \in Nat, 0 < b
  PROVE  (n \div a) \div b = n \div (a * b)
<1> DEFINE p == n \div a
           q == p \div b
<1>1. p \in Nat /\ q \in Nat /\ n % a \in Nat /\ n % a < a /\ p % b \in Nat /\ p % b < b
      /\ n = p * a + (n % a) /\ p = q * b + (p % b)
  <2>1. p \in Nat /\ n % a \in Nat /\ n % a < a /\ n = p * a + (n % a)
    BY DivIs
  <2> HIDE DEF p
  <2>2. p \div b \in Nat /\ p % b \in Nat /\ p % b < b /\ p = (p \div b) * b + (p % b)
    BY <2>1, DivIs
  <2> QED BY <2>1, <2>2
<1> HIDE DEF p, q
<1> DEFINE ab == a * b
<1>2. ab \in Nat /\ 0 < ab
  BY TimesIs
<1>3. q * b \in Nat /\ q * b <= p /\ p + 1 <= q * b + b
  <2> DEFINE r == p % b
             x == q * b
  <2>0. x \in Nat
    BY <1>1, TimesIs
  <2>1. r \in Nat /\ r < b /\ p = x + r /\ p \in Nat
    BY <1>1
  <2> HIDE DEF r, x
  <2>2. x \in Nat /\ x <= p /\ p + 1 <= x + b
    BY <2>0, <2>1
  <2> QED BY <2>2 DEF x
<1>4. (q * b) * a <= p * a /\ (p + 1) * a <= (q * b + b) * a
  BY <1>1, <1>3, Monotone
<1>5. (q * b) * a = q * ab /\ (q * b + b) * a = q * ab + ab /\ (p + 1) * a = p * a + a
  BY <1>1
<1>6. q * ab \in Nat /\ p * a \in Nat
  BY <1>1, <1>2, TimesIs
<1>7. q * ab <= n /\ n < q * ab + ab
  BY <1>1, <1>4, <1>5, <1>6
<1> HIDE DEF ab
<1>8. n \div ab = q
  BY <1>1, <1>2, <1>7, QuotientIs
<1> QED BY <1>8 DEF p, q, ab

-----------------------------------------------------------------------------
(* mth of a view, and of what an append should give, by their equations. *)
ViewBody(p, f, r) ==
  IF r[2] = 0 THEN EmptyRoot
  ELSE IF PowerOfTwo(r[2]) /\ r[1] % r[2] = 0
    THEN NodeAt(p[1], p[2])[<<Log2(r[2]), r[1] \div r[2]>>]
    ELSE Joined(f[LeftOf(r)], f[RightOf(r)])
ViewR == INSTANCE Recursion WITH Dom <- Ranges, Rank <- WidthRank, Body <- ViewBody

LEMMA OneIsPower ==
  /\ PowerOfTwo(1)
  /\ \A s \in Nat : s % 1 = 0
<1>1. PowerOfTwo(1)
  BY PowStep DEF PowerOfTwo
<1>2. \A s \in Nat : s % 1 = 0
  OBVIOUS
<1> QED BY <1>1, <1>2

LEMMA ViewEquation ==
  ASSUME NEW dir, NEW size, NEW r \in Nat \X Nat
  PROVE  ViewMth(dir, size)[r] = ViewBody(<<dir, size>>, ViewMth(dir, size), r)
<1> DEFINE p == <<dir, size>>
<1>1. ViewR!Local(p)
  <2>1. ASSUME NEW x \in Nat \X Nat, NEW g, NEW h,
               \A y \in Nat \X Nat : WidthRank(y) < WidthRank(x) => g[y] = h[y]
        PROVE  ViewBody(p, g, x) = ViewBody(p, h, x)
    <3>1. CASE x[2] = 0 \/ (PowerOfTwo(x[2]) /\ x[1] % x[2] = 0)
      BY <3>1 DEF ViewBody
    <3>2. CASE ~(x[2] = 0 \/ (PowerOfTwo(x[2]) /\ x[1] % x[2] = 0))
      <4>1. x[2] \in Nat /\ x[1] \in Nat
        OBVIOUS
      <4>2. x[2] > 1
        <5>1. x[2] # 1
          BY <3>2, <4>1, OneIsPower
        <5> QED BY <3>2, <4>1, <5>1
      <4>3. g[LeftOf(x)] = h[LeftOf(x)] /\ g[RightOf(x)] = h[RightOf(x)]
        BY <2>1, <4>2, Halves DEF WidthRank
      <4> QED BY <3>2, <4>3 DEF ViewBody
    <3> QED BY <3>1, <3>2
  <2>2. \A x \in Nat \X Nat : WidthRank(x) \in Nat
    BY DEF WidthRank
  <2> QED BY <2>1, <2>2, Zenon DEF ViewR!Local, Ranges
<1>2. \E f : f = [x \in Nat \X Nat |-> ViewBody(p, f, x)]
  BY <1>1, ViewR!Recursive DEF Ranges
<1>3. ViewMth(dir, size) = [x \in Nat \X Nat |-> ViewBody(p, ViewMth(dir, size), x)]
  <2> DEFINE Is(f) == f = [x \in Nat \X Nat |-> ViewBody(p, f, x)]
             v == CHOOSE f : Is(f)
  <2>1. Is(v)
    BY <1>2, Zenon
  <2>2. ViewMth(dir, size) = v
    BY Zenon DEF ViewMth, ViewBody
  <2> QED BY <2>1, <2>2, Zenon
<1> QED BY <1>3

SumBody(p, f, r) ==
  IF r[1] + r[2] <= p[1] THEN p[2][r]
  ELSE IF r[1] >= p[1] THEN p[3][<<r[1] - p[1], r[2]>>]
  ELSE node_hash(f[LeftOf(r)], f[RightOf(r)])
SumR == INSTANCE Recursion WITH Dom <- Ranges, Rank <- WidthRank, Body <- SumBody

SumOf(old, oldMth, newMth) ==
  CHOOSE f : f = [r \in Nat \X Nat |-> SumBody(<<old, oldMth, newMth>>, f, r)]

LEMMA SumEquation ==
  ASSUME NEW old \in Nat, NEW oldMth, NEW newMth, NEW r \in Nat \X Nat
  PROVE  SumOf(old, oldMth, newMth)[r] = SumBody(<<old, oldMth, newMth>>, SumOf(old, oldMth, newMth), r)
<1> DEFINE p == <<old, oldMth, newMth>>
<1>1. SumR!Local(p)
  <2>1. ASSUME NEW x \in Nat \X Nat, NEW g, NEW h,
               \A y \in Nat \X Nat : WidthRank(y) < WidthRank(x) => g[y] = h[y]
        PROVE  SumBody(p, g, x) = SumBody(p, h, x)
    <3>1. CASE x[1] + x[2] <= p[1] \/ x[1] >= p[1]
      BY <3>1 DEF SumBody
    <3>2. CASE ~(x[1] + x[2] <= p[1] \/ x[1] >= p[1])
      <4>1. x[2] \in Nat /\ x[1] \in Nat /\ p[1] = old
        OBVIOUS
      <4>2. x[2] > 1
        BY <3>2, <4>1
      <4>3. g[LeftOf(x)] = h[LeftOf(x)] /\ g[RightOf(x)] = h[RightOf(x)]
        BY <2>1, <4>2, Halves DEF WidthRank
      <4> QED BY <3>2, <4>3 DEF SumBody
    <3> QED BY <3>1, <3>2
  <2>2. \A x \in Nat \X Nat : WidthRank(x) \in Nat
    BY DEF WidthRank
  <2> QED BY <2>1, <2>2, Zenon DEF SumR!Local, Ranges
<1>2. \E f : f = [x \in Nat \X Nat |-> SumBody(p, f, x)]
  BY <1>1, SumR!Recursive DEF Ranges
<1>3. SumOf(old, oldMth, newMth) = [x \in Nat \X Nat |-> SumBody(p, SumOf(old, oldMth, newMth), x)]
  <2> DEFINE Is(f) == f = [x \in Nat \X Nat |-> SumBody(p, f, x)]
             v == CHOOSE f : Is(f)
  <2>1. Is(v)
    BY <1>2, Zenon
  <2>2. SumOf(old, oldMth, newMth) = v
    BY Zenon DEF SumOf
  <2> QED BY <2>1, <2>2, Zenon
<1> QED BY <1>3

LEMMA ExpectedIs ==
  ASSUME NEW t
  PROVE  Expected(t) = SumOf(Old(t), ViewMth(disk, Old(t)), Mth(Hashes(call[t].batch)))[<<0, NewSize(t)>>]
BY Zenon DEF Expected, SumOf, SumBody

-----------------------------------------------------------------------------
\* The leaves of h stand in g from place d + 1 on.
Shifted(h, g, d, N) == \A i \in 1..N : g[d + i] = h[i]

LEMMA MthShifted ==
  ASSUME NEW h, NEW g, NEW d \in Nat, NEW N \in Nat, Shifted(h, g, d, N),
         NEW from \in Nat, NEW width \in Nat, from + width <= N
  PROVE  Mth(g)[<<d + from, width>>] = Mth(h)[<<from, width>>]
<1> DEFINE mh == Mth(h)
           mg == Mth(g)
           S == {w \in Nat : \A s \in Nat : s + w <= N => mg[<<d + s, w>>] = mh[<<s, w>>]}
<1>1. ASSUME NEW w \in Nat, \A v \in Nat : v < w => v \in S PROVE w \in S
  <2> SUFFICES ASSUME NEW s \in Nat, s + w <= N PROVE mg[<<d + s, w>>] = mh[<<s, w>>]
    OBVIOUS
  <2>1. mh[<<s, w>>] = MthBody(h, mh, <<s, w>>) /\ mg[<<d + s, w>>] = MthBody(g, mg, <<d + s, w>>)
    BY MthEquation
  <2>2. CASE w = 0
    <3> HIDE DEF mh, mg
    <3> QED BY <2>1, <2>2 DEF MthBody
  <2>3. CASE w = 1
    <3>1. g[d + (s + 1)] = h[s + 1] /\ d + (s + 1) = (d + s) + 1
      BY <2>3 DEF Shifted
    <3> HIDE DEF mh, mg
    <3> QED BY <2>1, <2>3, <3>1 DEF MthBody
  <2>4. CASE w > 1
    <3> DEFINE k == Split(w)
    <3>1. k \in Nat /\ 0 < k /\ k < w
      BY <2>4, SplitBetween
    <3>2. /\ LeftOf(<<s, w>>) = <<s, k>> /\ RightOf(<<s, w>>) = <<s + k, w - k>>
          /\ LeftOf(<<d + s, w>>) = <<d + s, k>> /\ RightOf(<<d + s, w>>) = <<(d + s) + k, w - k>>
      BY DEF LeftOf, RightOf
    <3>3. k \in S /\ w - k \in S /\ s + k \in Nat /\ s + k <= N /\ (s + k) + (w - k) <= N
      <4> HIDE DEF S, k
      <4>1. w - k \in Nat /\ w - k < w
        BY <3>1
      <4> QED BY <1>1, <3>1, <4>1
    <3>4. mg[<<d + s, k>>] = mh[<<s, k>>] /\ mg[<<(d + s) + k, w - k>>] = mh[<<s + k, w - k>>]
      <4> HIDE DEF mh, mg, k
      <4>1. (d + s) + k = d + (s + k)
        BY <3>1
      <4> QED BY <3>3, <4>1
    <3> HIDE DEF mh, mg, k
    <3>5. /\ mh[<<s, w>>] = node_hash(mh[<<s, k>>], mh[<<s + k, w - k>>])
          /\ mg[<<d + s, w>>] = node_hash(mg[<<d + s, k>>], mg[<<(d + s) + k, w - k>>])
      BY <2>1, <2>4, <3>2 DEF MthBody
    <3> QED BY <3>4, <3>5
  <2> QED BY <2>2, <2>3, <2>4
<1>2. Nat \subseteq S
  <2> HIDE DEF S
  <2> QED BY <1>1, PowR!StrongInduction
<1> QED BY <1>2

LEMMA JoinedTells ==
  ASSUME NEW l, NEW r, NEW a, NEW b, Joined(l, r) = node_hash(a, b)
  PROVE  l = a /\ r = b
<1>1. Missing # node_hash(a, b)
  BY DEF Missing, node_hash
<1>2. Joined(l, r) = node_hash(l, r)
  BY <1>1 DEF Joined
<1>3. node_hash(l, r) = node_hash(a, b)
  BY <1>2
<1> QED BY <1>3, NodesDiffer

LEMMA NotPower ==
  ASSUME NEW w \in Nat, NEW i \in Nat, Pow2[i] < w, w < 2 * Pow2[i]
  PROVE  ~PowerOfTwo(w)
<1> SUFFICES ASSUME NEW j \in Nat, w = Pow2[j] PROVE FALSE
  BY DEF PowerOfTwo
<1>1. Pow2[i] \in Nat /\ Pow2[j] \in Nat
  BY PowNat
<1>2. i < j => 2 * Pow2[i] <= Pow2[j]
  BY PowRises
<1>3. j < i => 2 * Pow2[j] <= Pow2[i]
  BY PowRises
<1>4. i < j \/ j < i \/ i = j
  OBVIOUS
<1> QED BY <1>1, <1>2, <1>3, <1>4

LEMMA ViewSplits ==
  ASSUME NEW dir, NEW size, NEW s \in Nat, NEW w \in Nat, NEW i \in Nat, Pow2[i] < w, w < 2 * Pow2[i]
  PROVE  LET v == ViewMth(dir, size)  P == Pow2[i] IN
         v[<<s, w>>] = Joined(v[<<s, P>>], v[<<s + P, w - P>>])
<1> DEFINE v == ViewMth(dir, size)
           P == Pow2[i]
           p == <<dir, size>>
<1>1. v[<<s, w>>] = ViewBody(p, v, <<s, w>>)
  BY ViewEquation
<1>2. P \in Nat /\ Split(w) = P
  BY PowNat, SplitIs
<1>3. ~PowerOfTwo(w)
  BY NotPower
<1>4. LeftOf(<<s, w>>) = <<s, P>> /\ RightOf(<<s, w>>) = <<s + P, w - P>>
  BY <1>2 DEF LeftOf, RightOf
<1>5. w # 0
  BY <1>2
<1> HIDE DEF v, P, p
<1>6. v[<<s, w>>] = Joined(v[LeftOf(<<s, w>>)], v[RightOf(<<s, w>>)])
  BY <1>1, <1>3, <1>5 DEF ViewBody
<1>7. v[<<s, w>>] = Joined(v[<<s, P>>], v[<<s + P, w - P>>])
  BY <1>4, <1>6
<1> QED BY <1>7 DEF v, P

LEMMA MthSplits ==
  ASSUME NEW g, NEW s \in Nat, NEW w \in Nat, NEW i \in Nat, Pow2[i] < w, w <= 2 * Pow2[i]
  PROVE  LET m == Mth(g)  P == Pow2[i] IN
         m[<<s, w>>] = node_hash(m[<<s, P>>], m[<<s + P, w - P>>])
<1> DEFINE m == Mth(g)
           P == Pow2[i]
<1>1. m[<<s, w>>] = MthBody(g, m, <<s, w>>)
  BY MthEquation
<1>2. P \in Nat /\ Split(w) = P /\ w > 1
  BY PowNat, SplitIs
<1>4. LeftOf(<<s, w>>) = <<s, P>> /\ RightOf(<<s, w>>) = <<s + P, w - P>>
  BY <1>2 DEF LeftOf, RightOf
<1> HIDE DEF m, P
<1>6. m[<<s, w>>] = node_hash(m[LeftOf(<<s, w>>)], m[RightOf(<<s, w>>)])
  BY <1>1, <1>2 DEF MthBody
<1>7. m[<<s, w>>] = node_hash(m[<<s, P>>], m[<<s + P, w - P>>])
  BY <1>4, <1>6
<1> QED BY <1>7 DEF m, P

(***************************************************************************)
(* What an append should give (Expected): the tree of the old entries and  *)
(* the new, provided what is read of the old tree has its root.            *)
(***************************************************************************)
LEMMA SumIsRoot ==
  ASSUME NEW dir, NEW size, NEW g, NEW b, NEW old \in Nat, NEW N \in Nat, old <= N, Shifted(b, g, old, N - old),
         ViewMth(dir, size)[<<0, old>>] = Mth(g)[<<0, old>>]
  PROVE  SumOf(old, ViewMth(dir, size), Mth(b))[<<0, N>>] = Mth(g)[<<0, N>>]
<1> DEFINE v == ViewMth(dir, size)
           mg == Mth(g)
           mb == Mth(b)
           sum == SumOf(old, v, mb)
<1>1. ASSUME NEW s \in Nat, NEW w \in Nat
      PROVE  /\ s + w <= old => sum[<<s, w>>] = v[<<s, w>>]
             /\ s >= old /\ s + w > old /\ s + w <= N => sum[<<s, w>>] = mg[<<s, w>>]
             /\ s < old /\ s + w > old => sum[<<s, w>>] = node_hash(sum[LeftOf(<<s, w>>)], sum[RightOf(<<s, w>>)])
  <2>1. sum[<<s, w>>] = SumBody(<<old, v, mb>>, sum, <<s, w>>)
    BY SumEquation
  <2>2. ASSUME s >= old, s + w <= N PROVE mg[<<s, w>>] = mb[<<s - old, w>>]
    <3>1. s - old \in Nat /\ (s - old) + w <= N - old /\ N - old \in Nat /\ old + (s - old) = s
      BY <2>2
    <3>2. ASSUME NEW u \in Nat, u + w <= N - old PROVE mg[<<old + u, w>>] = mb[<<u, w>>]
      BY <3>2, MthShifted
    <3>3. mg[<<old + (s - old), w>>] = mb[<<s - old, w>>]
      BY <3>1, <3>2
    <3> QED BY <3>1, <3>3
  <2> HIDE DEF v, mg, mb, sum
  <2> QED BY <2>1, <2>2 DEF SumBody
<1> HIDE DEF sum
<1> DEFINE IsRead(s) == v[<<s, old - s>>] = mg[<<s, old - s>>]
           S == {w \in Nat : \A s \in Nat : s < old /\ old < s + w /\ s + w <= N /\ IsRead(s)
                                              => sum[<<s, w>>] = mg[<<s, w>>]}
<1>2. ASSUME NEW w \in Nat, \A u \in Nat : u < w => u \in S PROVE w \in S
  <2> SUFFICES ASSUME NEW s \in Nat, s < old, old < s + w, s + w <= N, IsRead(s)
               PROVE  sum[<<s, w>>] = mg[<<s, w>>]
    OBVIOUS
  <2>1. PICK i \in Nat : Pow2[i] < w /\ w <= 2 * Pow2[i] /\ Split(w) = Pow2[i]
    BY SplitPower
  <2> DEFINE P == Pow2[i]
             m == old - s
  <2>2. P \in Nat /\ 0 < P /\ m \in Nat /\ 0 < m /\ m < w /\ w > 1 /\ P < w /\ w <= 2 * P
    BY <2>1, PowNat
  <2>3. LeftOf(<<s, w>>) = <<s, P>> /\ RightOf(<<s, w>>) = <<s + P, w - P>>
    BY <2>1 DEF LeftOf, RightOf
  <2>4. sum[<<s, w>>] = node_hash(sum[<<s, P>>], sum[<<s + P, w - P>>])
    <3> HIDE DEF P
    <3> QED BY <1>1, <2>3
  <2>5. mg[<<s, w>>] = node_hash(mg[<<s, P>>], mg[<<s + P, w - P>>])
    BY <2>1, MthSplits
  <2>6. ASSUME m > P
        PROVE  v[<<s, P>>] = mg[<<s, P>>] /\ IsRead(s + P)
    <3>1. P < m /\ m < 2 * P /\ old - (s + P) = m - P
      BY <2>2, <2>6
    <3>2. v[<<s, m>>] = Joined(v[<<s, P>>], v[<<s + P, m - P>>])
      BY <3>1, <2>2, ViewSplits
    <3>3. mg[<<s, m>>] = node_hash(mg[<<s, P>>], mg[<<s + P, m - P>>])
      BY <3>1, <2>2, MthSplits
    <3> HIDE DEF v, mg
    <3>4. v[<<s, m>>] = mg[<<s, m>>]
      OBVIOUS
    <3> HIDE DEF P, m
    <3>5. Joined(v[<<s, P>>], v[<<s + P, m - P>>]) = node_hash(mg[<<s, P>>], mg[<<s + P, m - P>>])
      BY <3>2, <3>3, <3>4
    <3>6. v[<<s, P>>] = mg[<<s, P>>] /\ v[<<s + P, m - P>>] = mg[<<s + P, m - P>>]
      BY <3>5, JoinedTells
    <3> QED BY <3>1, <3>6
  <2> HIDE DEF v, mg, P
  <2>7. CASE m > P
    <3>1. sum[<<s, P>>] = mg[<<s, P>>]
      <4>1. s + P <= old
        BY <2>2, <2>7
      <4> QED BY <4>1, <1>1, <2>2, <2>6, <2>7
    <3>2. sum[<<s + P, w - P>>] = mg[<<s + P, w - P>>]
      <4>1. /\ w - P \in Nat /\ w - P < w /\ s + P \in Nat /\ s + P < old
            /\ old < (s + P) + (w - P) /\ (s + P) + (w - P) <= N
        BY <2>2, <2>7
      <4>2. w - P \in S
        BY <4>1, <1>2
      <4> QED BY <4>1, <4>2, <2>6, <2>7
    <3> QED BY <2>4, <2>5, <3>1, <3>2
  <2>8. CASE ~(m > P)
    <3>1. sum[<<s + P, w - P>>] = mg[<<s + P, w - P>>]
      <4>1. /\ w - P \in Nat /\ s + P \in Nat /\ s + P >= old
            /\ old < (s + P) + (w - P) /\ (s + P) + (w - P) <= N
        BY <2>2, <2>8
      <4> QED BY <4>1, <1>1
    <3>2. sum[<<s, P>>] = mg[<<s, P>>]
      <4>1. CASE m = P
        <5>1. s + P <= old
          BY <2>2, <4>1
        <5>2. v[<<s, P>>] = mg[<<s, P>>]
          BY <4>1
        <5> QED BY <5>1, <5>2, <1>1, <2>2
      <4>2. CASE m < P
        <5>1. old < s + P /\ s + P <= N
          BY <2>2, <4>2
        <5>2. P \in S
          BY <1>2, <2>2
        <5> QED BY <5>1, <5>2
      <4> QED BY <4>1, <4>2, <2>2, <2>8
    <3> QED BY <2>4, <2>5, <3>1, <3>2
  <2> QED BY <2>7, <2>8
<1>3. Nat \subseteq S
  <2> HIDE DEF S
  <2> QED BY <1>2, PowR!StrongInduction
<1>4. CASE N = old
  <2>1. sum[<<0, N>>] = v[<<0, N>>]
    <3> HIDE DEF v
    <3> QED BY <1>1, <1>4
  <2> QED BY <2>1, <1>4 DEF sum
<1>5. CASE N # old /\ old = 0
  <2>1. sum[<<0, N>>] = mg[<<0, N>>]
    BY <1>1, <1>5
  <2> QED BY <2>1 DEF sum
<1>6. CASE N # old /\ old # 0
  <2>1. IsRead(0)
    OBVIOUS
  <2>2. sum[<<0, N>>] = mg[<<0, N>>]
    <3> HIDE DEF mg, v
    <3> QED BY <1>3, <1>6, <2>1
  <2> QED BY <2>2 DEF sum
<1> QED BY <1>4, <1>5, <1>6 DEF sum

-----------------------------------------------------------------------------
(***************************************************************************)
(* Lists, element by element.                                              *)
(***************************************************************************)
IsList(s) == s \in Seq({s[i] : i \in 1..Len(s)})

LEMMA SeqIsList ==
  ASSUME NEW S, NEW s \in Seq(S)
  PROVE  IsList(s) /\ Len(s) \in Nat
<1>1. Len(s) \in Nat /\ s = [i \in 1..Len(s) |-> s[i]]
  OBVIOUS
<1>2. s \in [1..Len(s) -> {s[i] : i \in 1..Len(s)}]
  BY <1>1
<1> QED BY <1>1, <1>2, SeqDef DEF IsList

LEMMA FunctionIsList ==
  ASSUME NEW n \in Nat, NEW f, f = [i \in 1..n |-> f[i]]
  PROVE  IsList(f) /\ Len(f) = n
<1> DEFINE T == {f[i] : i \in 1..n}
<1>1. f \in [1..n -> T]
  OBVIOUS
<1>2. f \in Seq(T)
  <2> HIDE DEF T
  <2> QED BY <1>1, SeqDef
<1>3. Len(f) = n
  <2> HIDE DEF T
  <2>1. DOMAIN f = 1..Len(f) /\ Len(f) \in Nat /\ DOMAIN f = 1..n
    BY <1>1, <1>2
  <2> QED BY <2>1
<1> QED BY <1>2, <1>3 DEF IsList

LEMMA SubSeqIs ==
  ASSUME NEW s, NEW a \in Nat, NEW n \in Nat
  PROVE  /\ IsList(SubSeq(s, a + 1, a + n)) /\ Len(SubSeq(s, a + 1, a + n)) = n
         /\ \A i \in 1..n : SubSeq(s, a + 1, a + n)[i] = s[a + i]
<1> DEFINE T == {s[i] : i \in (a + 1)..(a + n)}
           c == SubSeq(s, a + 1, a + n)
<1>1. \A i \in (a + 1)..(a + n) : s[i] \in T
  OBVIOUS
<1>2. /\ c \in Seq(T) /\ Len(c) = IF a + 1 <= a + n THEN (a + n) - (a + 1) + 1 ELSE 0
      /\ \A i \in 1..((a + n) - (a + 1) + 1) : c[i] = s[(a + 1) + i - 1]
  <2> HIDE DEF T
  <2> QED BY <1>1, SubSeqProperties
<1>3. IsList(c)
  <2> HIDE DEF T, c
  <2> QED BY <1>2, SeqIsList
<1>4. Len(c) = n /\ \A i \in 1..n : c[i] = s[a + i]
  <2> HIDE DEF T, c
  <2>1. ASSUME NEW i \in 1..n PROVE (a + 1) + i - 1 = a + i /\ i \in 1..((a + n) - (a + 1) + 1)
    OBVIOUS
  <2>2. Len(c) = n
    BY <1>2
  <2> QED BY <1>2, <2>1, <2>2
<1> QED BY <1>3, <1>4

LEMMA ConcatIs ==
  ASSUME NEW s, NEW t, IsList(s), IsList(t)
  PROVE  /\ IsList(s \o t) /\ Len(s \o t) = Len(s) + Len(t)
         /\ \A i \in 1..Len(s) : (s \o t)[i] = s[i]
         /\ \A i \in 1..Len(t) : (s \o t)[Len(s) + i] = t[i]
<1> DEFINE A == {s[i] : i \in 1..Len(s)}
           B == {t[i] : i \in 1..Len(t)}
           S == A \cup B
<1>1. s \in Seq(S) /\ t \in Seq(S)
  <2>1. s \in Seq(A) /\ t \in Seq(B)
    BY DEF IsList
  <2> HIDE DEF A, B
  <2> QED BY <2>1
<1> HIDE DEF S
<1>2. /\ s \o t \in Seq(S) /\ Len(s \o t) = Len(s) + Len(t)
      /\ \A i \in 1..Len(s) : (s \o t)[i] = s[i]
      /\ \A i \in 1..Len(t) : (s \o t)[Len(s) + i] = t[i]
  BY <1>1
<1> QED BY <1>2, SeqIsList

LEMMA ListLen ==
  ASSUME NEW s, IsList(s)
  PROVE  Len(s) \in Nat /\ DOMAIN s = 1..Len(s) /\ (s = <<>> <=> Len(s) = 0)
BY DEF IsList

LEMMA SameLists ==
  ASSUME NEW s, NEW t, IsList(s), IsList(t), Len(s) = Len(t), \A i \in 1..Len(s) : s[i] = t[i]
  PROVE  s = t
<1>1. s \in Seq({s[i] : i \in 1..Len(s)}) /\ t \in Seq({t[i] : i \in 1..Len(t)})
  BY DEF IsList
<1> QED BY <1>1, SameElements

LEMMA TailIs ==
  ASSUME NEW s, IsList(s), s # <<>>
  PROVE  /\ IsList(Tail(s)) /\ Head(s) = s[1] /\ Len(s) > 0 /\ Len(Tail(s)) = Len(s) - 1
         /\ \A i \in 1..(Len(s) - 1) : Tail(s)[i] = s[i + 1]
<1> DEFINE S == {s[i] : i \in 1..Len(s)}
<1>1. s \in Seq(S)
  BY DEF IsList
<1> HIDE DEF S
<1>2. Tail(s) \in Seq(S) /\ Head(s) = s[1] /\ Len(s) > 0 /\ Len(Tail(s)) = Len(s) - 1
      /\ \A i \in 1..(Len(s) - 1) : Tail(s)[i] = s[i + 1]
  BY <1>1
<1> QED BY <1>2, SeqIsList

-----------------------------------------------------------------------------
(***************************************************************************)
(* The hashes of a level, and the files they are in.  One hash of level l  *)
(* is of Unit(l) leaves.                                                   *)
(***************************************************************************)
LEMMA QuotientAtLeast ==
  ASSUME NEW n \in Nat, NEW w \in Nat, 0 < w, NEW i \in Nat
  PROVE  i <= n \div w <=> i * w <= n
<1> DEFINE q == n \div w
           r == n % w
<1>1. q \in Nat /\ r \in Nat /\ r < w /\ n = q * w + r
  BY DivIs
<1> HIDE DEF q, r
<1>2. q * w \in Nat /\ i * w \in Nat /\ (q + 1) * w = q * w + w
  BY <1>1, TimesIs
<1>3. i <= q => i * w <= q * w
  BY <1>1, Monotone
<1>4. q + 1 <= i => (q + 1) * w <= i * w
  BY <1>1, Monotone
<1>5. i <= q <=> i * w <= n
  BY <1>1, <1>2, <1>3, <1>4
<1> QED BY <1>5 DEF q

LEMMA PowAdds ==
  ASSUME NEW a \in Nat
  PROVE  \A b \in Nat : Pow2[a + b] = Pow2[a] * Pow2[b]
<1> DEFINE S == {b \in Nat : Pow2[a + b] = Pow2[a] * Pow2[b]}
<1>1. 0 \in S
  BY PowStep, PowNat
<1>2. ASSUME NEW b \in Nat, b \in S PROVE b + 1 \in S
  <2> DEFINE x == Pow2[a]
             y == Pow2[b]
  <2>1. x \in Nat /\ y \in Nat /\ Pow2[b + 1] = 2 * y
    BY PowNat, PowStep
  <2>2. Pow2[(a + b) + 1] = 2 * Pow2[a + b] /\ (a + b) + 1 = a + (b + 1)
    BY PowStep
  <2>3. Pow2[a + b] = x * y
    BY <1>2
  <2> HIDE DEF x, y
  <2>4. 2 * (x * y) = x * (2 * y)
    BY <2>1
  <2>5. Pow2[a + (b + 1)] = x * Pow2[b + 1]
    BY <2>1, <2>2, <2>3, <2>4
  <2> QED BY <2>5 DEF x
<1>3. Nat \subseteq S
  <2> HIDE DEF S
  <2> QED BY <1>1, <1>2, PowR!SetInduction
<1> QED BY <1>3

Unit(level) == Pow2[TileHeight * level]

LEMMA Units ==
  /\ TileWidth \in Nat /\ 0 < TileWidth /\ TileHeight \in Nat /\ 0 < TileHeight
  /\ Unit(0) = 1
  /\ \A l \in Nat : Unit(l) \in Nat /\ l < Unit(l) /\ Unit(l + 1) = Unit(l) * TileWidth
<1>1. TileHeight \in Nat /\ 0 < TileHeight /\ TileWidth = Pow2[TileHeight]
  BY TileAssumption
<1>2. TileWidth \in Nat /\ 0 < TileWidth
  BY <1>1, PowNat
<1>3. TileHeight * 0 = 0
  BY <1>1
<1>4. Unit(0) = 1
  BY <1>3, PowStep DEF Unit
<1>5. ASSUME NEW l \in Nat PROVE Unit(l) \in Nat /\ l < Unit(l) /\ Unit(l + 1) = Unit(l) * TileWidth
  <2> DEFINE x == TileHeight * l
  <2>1. x \in Nat /\ l <= x /\ TileHeight * (l + 1) = x + TileHeight
    <3>1. l * TileHeight \in Nat /\ l * TileHeight = TileHeight * l /\ (l + 1) * TileHeight = l * TileHeight + TileHeight
      BY <1>1, TimesIs
    <3>2. TileHeight * (l + 1) = (l + 1) * TileHeight
      BY <1>1
    <3>3. l <= TileHeight * l
      BY <1>1, TimesIs
    <3> QED BY <3>1, <3>2, <3>3
  <2> HIDE DEF x
  <2>2. Pow2[x] \in Nat /\ x < Pow2[x]
    BY <2>1, PowNat
  <2>3. Pow2[x + TileHeight] = Pow2[x] * Pow2[TileHeight]
    BY <1>1, <2>1, PowAdds
  <2>4. Unit(l) = Pow2[x] /\ Unit(l + 1) = Pow2[x + TileHeight]
    BY <2>1 DEF Unit, x
  <2>5. l < Pow2[x]
    BY <2>1, <2>2
  <2> QED BY <1>1, <2>2, <2>3, <2>4, <2>5
<1> QED BY <1>1, <1>2, <1>4, <1>5

LEMMA LevelCounts ==
  ASSUME NEW n \in Nat, NEW l \in Nat
  PROVE  /\ LevelCount(n, l) \in Nat /\ LevelCount(n, 0) = n
         /\ LevelCount(n, l + 1) = LevelCount(n, l) \div TileWidth
         /\ \A i \in Nat : i <= LevelCount(n, l) <=> i * Unit(l) <= n
         /\ n <= l => LevelCount(n, l) = 0
         /\ \A m \in Nat : m <= n => LevelCount(m, l) <= LevelCount(n, l)
<1> DEFINE u == Unit(l)
<1>1. u \in Nat /\ l < u /\ Unit(l + 1) = u * TileWidth /\ TileWidth \in Nat /\ 0 < TileWidth /\ Unit(0) = 1
  BY Units
<1>2. \A m, k \in Nat : LevelCount(m, k) = m \div Unit(k)
  BY DEF LevelCount, Unit
<1> HIDE DEF u
<1>3. n \div 1 = n
  OBVIOUS
<1>4. 0 < u
  BY <1>1
<1>5. (n \div u) \div TileWidth = n \div (u * TileWidth)
  BY <1>1, <1>4, QuotientTwice
<1>6. \A i \in Nat : i <= n \div u <=> i * u <= n
  BY <1>1, <1>4, QuotientAtLeast
<1>7. n \div u \in Nat
  BY <1>1, <1>4, DivIs
<1>8. n <= l => n \div u = 0
  <2>1. 1 <= n \div u <=> 1 * u <= n
    BY <1>6
  <2> QED BY <2>1, <1>1, <1>7
<1>9. \A m \in Nat : m <= n => m \div u <= n \div u
  BY <1>1, <1>4, QuotientRises
<1> QED BY <1>1, <1>2, <1>3, <1>5, <1>6, <1>7, <1>8, <1>9 DEF u

\* What there is of x values in the file after the first n.
Room(x, n) == IF x - n * TileWidth < TileWidth THEN x - n * TileWidth ELSE TileWidth

LEMMA WidthIsRoom ==
  ASSUME NEW n, NEW l, NEW k
  PROVE  WidthOf(n, l, k) = Room(LevelCount(n, l), k)
BY DEF WidthOf, Room

LEMMA RoomIs ==
  ASSUME NEW x \in Nat, NEW n \in Nat, n * TileWidth < x
  PROVE  /\ n * TileWidth \in Nat /\ Room(x, n) \in 1..TileWidth /\ n * TileWidth + Room(x, n) <= x
         /\ Room(x, n) < TileWidth => n * TileWidth + Room(x, n) = x
<1> DEFINE y == n * TileWidth
<1>1. TileWidth \in Nat /\ 0 < TileWidth /\ y \in Nat
  BY Units, TimesIs
<1> HIDE DEF y
<1>2. y < x
  BY DEF y
<1>3. Room(x, n) = IF x - y < TileWidth THEN x - y ELSE TileWidth
  BY DEF Room, y
<1>4. y + Room(x, n) <= x /\ Room(x, n) \in 1..TileWidth /\ (Room(x, n) < TileWidth => y + Room(x, n) = x)
  BY <1>1, <1>2, <1>3
<1> QED BY <1>1, <1>4 DEF y

LEMMA FilesFor ==
  ASSUME NEW x \in Nat
  PROVE  /\ (x + TileWidth - 1) \div TileWidth \in Nat
         /\ \A i \in Nat : i + 1 <= (x + TileWidth - 1) \div TileWidth <=> i * TileWidth < x
<1>1. TileWidth \in Nat /\ 0 < TileWidth /\ x + TileWidth - 1 \in Nat
  BY Units
<1>2. (x + TileWidth - 1) \div TileWidth \in Nat
  BY <1>1, DivIs
<1>3. ASSUME NEW i \in Nat PROVE i + 1 <= (x + TileWidth - 1) \div TileWidth <=> i * TileWidth < x
  <2> DEFINE y == i * TileWidth
  <2>1. y \in Nat /\ (i + 1) * TileWidth = y + TileWidth
    BY <1>1, TimesIs
  <2>2. i + 1 <= (x + TileWidth - 1) \div TileWidth <=> (i + 1) * TileWidth <= x + TileWidth - 1
    BY <1>1, QuotientAtLeast
  <2> HIDE DEF y
  <2>3. y + TileWidth <= x + TileWidth - 1 <=> y < x
    BY <1>1, <2>1
  <2> QED BY <2>1, <2>2, <2>3 DEF y
<1> QED BY <1>2, <1>3

\* The chunk numbered i from 0 holds the values from place i * TileWidth + 1 on.
LEMMA ChunksAre ==
  ASSUME NEW p, IsList(p)
  PROVE  /\ IsList(Chunks(p))
         /\ \A i \in Nat : i + 1 \in 1..Len(Chunks(p)) <=> i * TileWidth < Len(p)
         /\ \A i \in Nat : i * TileWidth < Len(p) =>
              LET c == Chunks(p)[i + 1] IN
              /\ IsList(c) /\ Len(c) = Room(Len(p), i)
              /\ \A j \in 1..Len(c) : c[j] = p[i * TileWidth + j]
<1> DEFINE x == Len(p)
           k == (x + TileWidth - 1) \div TileWidth
           tw == TileWidth
           c == Chunks(p)
<1>1. x \in Nat /\ tw \in Nat /\ 0 < tw
  BY ListLen, Units
<1>2. k \in Nat /\ \A i \in Nat : i + 1 <= k <=> i * tw < x
  BY <1>1, FilesFor
<1>3. c = [i \in 1..k |-> SubSeq(p, (i - 1) * tw + 1, IF i * tw < x THEN i * tw ELSE x)]
  BY DEF Chunks
<1> HIDE DEF c, k, tw, x
<1>4. IsList(c) /\ Len(c) = k
  <2>1. c = [i \in 1..k |-> c[i]]
    BY <1>3
  <2> QED BY <2>1, <1>2, FunctionIsList
<1>5. ASSUME NEW i \in Nat, i * tw < x
      PROVE  /\ IsList(c[i + 1]) /\ Len(c[i + 1]) = Room(x, i)
             /\ \A j \in 1..Room(x, i) : c[i + 1][j] = p[i * tw + j]
  <2> DEFINE y == i * tw
             r == Room(x, i)
  <2>1. i + 1 \in 1..k
    BY <1>2, <1>5
  <2>2. y \in Nat /\ r \in 1..tw /\ y + r <= x /\ (r < tw => y + r = x)
    BY <1>1, <1>5, RoomIs DEF tw
  <2>3. ((i + 1) - 1) * tw = y /\ (i + 1) * tw = y + tw
    BY <1>1
  <2>4. c[i + 1] = SubSeq(p, y + 1, IF y + tw < x THEN y + tw ELSE x)
    BY <1>3, <2>1, <2>3
  <2> HIDE DEF y, r
  <2>5. (IF y + tw < x THEN y + tw ELSE x) = y + r
    BY <1>1, <2>2
  <2>6. c[i + 1] = SubSeq(p, y + 1, y + r)
    BY <2>4, <2>5
  <2>7. r \in Nat
    BY <1>1, <2>2
  <2> DEFINE d == SubSeq(p, y + 1, y + r)
  <2>8. IsList(d) /\ Len(d) = r /\ \A j \in 1..r : d[j] = p[y + j]
    BY <2>2, <2>7, SubSeqIs
  <2> HIDE DEF d
  <2>9. c[i + 1] = d
    BY <2>6 DEF d
  <2> QED BY <2>8, <2>9 DEF y, r
<1>6. \A i \in Nat : i + 1 \in 1..Len(c) <=> i * tw < x
  BY <1>2, <1>4
<1> QED BY <1>4, <1>5, <1>6 DEF c, tw, x

LEMMA CompletedAre ==
  ASSUME NEW p, IsList(p)
  PROVE  /\ IsList(Completed(p)) /\ Len(Completed(p)) = Len(p) \div TileWidth
         /\ \A i \in Nat : i + 1 \in 1..Len(Completed(p)) =>
              /\ (i + 1) * TileWidth <= Len(p)
              /\ Completed(p)[i + 1] = MerkleRoot(SubSeq(p, i * TileWidth + 1, i * TileWidth + TileWidth))
<1> DEFINE tw == TileWidth
           k == Len(p) \div tw
           c == Completed(p)
<1>1. Len(p) \in Nat /\ tw \in Nat /\ 0 < tw
  BY ListLen, Units
<1>2. k \in Nat /\ \A i \in Nat : i <= k <=> i * tw <= Len(p)
  BY <1>1, DivIs, QuotientAtLeast
<1>3. c = [i \in 1..k |-> MerkleRoot(SubSeq(p, (i - 1) * tw + 1, i * tw))]
  BY DEF Completed
<1> HIDE DEF c, k, tw
<1>4. IsList(c) /\ Len(c) = k
  <2>1. c = [i \in 1..k |-> c[i]]
    BY <1>3
  <2> QED BY <2>1, <1>2, FunctionIsList
<1>5. ASSUME NEW i \in Nat, i + 1 \in 1..k
      PROVE  (i + 1) * tw <= Len(p) /\ c[i + 1] = MerkleRoot(SubSeq(p, i * tw + 1, i * tw + tw))
  <2>1. ((i + 1) - 1) * tw = i * tw /\ (i + 1) * tw = i * tw + tw
    BY <1>1
  <2>2. c[i + 1] = MerkleRoot(SubSeq(p, ((i + 1) - 1) * tw + 1, (i + 1) * tw))
    BY <1>3, <1>5
  <2>3. (i + 1) * tw <= Len(p)
    BY <1>2, <1>5
  <2> QED BY <2>1, <2>2, <2>3
<1> QED BY <1>4, <1>5 DEF c, k, tw

-----------------------------------------------------------------------------
(***************************************************************************)
(* What an append writes, whatever is on the disk: lists of full and       *)
(* partial files, from the first file that is not full on.                 *)
(***************************************************************************)
LEMMA ReadIsList ==
  ASSUME NEW dir, NEW name, name.width \in Nat
  PROVE  IsList(Read(dir, name)) /\ Len(Read(dir, name)) = name.width
<1> DEFINE w == name.width
           held == IF name \in DOMAIN dir THEN name ELSE Full(name)
           d == dir[held]
           m == [i \in 1..w |-> Missing]
<1>1. Read(dir, name) \in {SubSeq(d, 1, w), m}
  BY Zenon DEF Read
<1>2. IsList(m) /\ Len(m) = w
  <2>1. m = [i \in 1..w |-> m[i]]
    OBVIOUS
  <2> HIDE DEF m
  <2> QED BY <2>1, FunctionIsList
<1>3. w \in Nat
  OBVIOUS
<1> HIDE DEF d, w, m
<1>4. \A a \in Nat : IsList(SubSeq(d, a + 1, a + w)) /\ Len(SubSeq(d, a + 1, a + w)) = w
  BY <1>3, SubSeqIs
<1>5. 0 + 1 = 1 /\ 0 + w = w
  BY <1>3
<1>6. IsList(SubSeq(d, 1, w)) /\ Len(SubSeq(d, 1, w)) = w
  BY <1>4, <1>5
<1>7. IsList(Read(dir, name)) /\ Len(Read(dir, name)) = w
  BY <1>1, <1>2, <1>6
<1> QED BY <1>7 DEF w

FirstFile(old, level) == LevelCount(old, level) \div TileWidth
Started(old, level) == LevelCount(old, level) % TileWidth

LEMMA FirstFileIs ==
  ASSUME NEW old \in Nat, NEW level \in Nat
  PROVE  /\ FirstFile(old, level) \in Nat /\ Started(old, level) \in Nat /\ Started(old, level) < TileWidth
         /\ FirstFile(old, level) * TileWidth \in Nat
         /\ LevelCount(old, level) = FirstFile(old, level) * TileWidth + Started(old, level)
         /\ WidthOf(old, level, FirstFile(old, level)) = Started(old, level)
         /\ LevelCount(old, level + 1) = FirstFile(old, level)
<1> DEFINE x == LevelCount(old, level)
           q == FirstFile(old, level)
           r == Started(old, level)
           y == q * TileWidth
<1>1. x \in Nat /\ TileWidth \in Nat /\ 0 < TileWidth /\ LevelCount(old, level + 1) = q
  BY LevelCounts, Units DEF FirstFile
<1>2. q \in Nat /\ r \in Nat /\ r < TileWidth /\ x = y + r
  BY <1>1, DivIs DEF FirstFile, Started
<1>3. y \in Nat
  BY <1>1, <1>2, TimesIs
<1>4. WidthOf(old, level, q) = IF x - y < TileWidth THEN x - y ELSE TileWidth
  BY DEF WidthOf
<1> HIDE DEF x, q, r, y
<1>5. WidthOf(old, level, q) = r
  BY <1>1, <1>2, <1>3, <1>4
<1> QED BY <1>1, <1>2, <1>3, <1>5 DEF x, q, r, y

\* The values to write from the first file on: those it holds, then the new ones.
PendingHolds(p, old, level, carried, fresh) ==
  /\ IsList(p) /\ Len(p) = Started(old, level) + Len(fresh)
  /\ \A j \in 1..Started(old, level) : p[j] = carried[j]
  /\ \A j \in 1..Len(fresh) : p[Started(old, level) + j] = fresh[j]

LEMMA PendingIs ==
  ASSUME NEW old \in Nat, NEW level \in Nat, NEW carried, IsList(carried), Len(carried) = Started(old, level),
         NEW fresh, IsList(fresh)
  PROVE  PendingHolds(Pending(old, level, carried, fresh), old, level, carried, fresh)
<1> DEFINE r == Started(old, level)
<1>1. r \in Nat
  BY FirstFileIs
<1>2. Len(fresh) \in Nat
  BY ListLen
<1>3. Pending(old, level, carried, fresh) = IF r = 0 THEN fresh ELSE carried \o fresh
  BY DEF Pending, Started
<1> HIDE DEF r
<1>4. CASE r = 0
  <2>1. /\ IsList(fresh) /\ Len(fresh) = r + Len(fresh)
        /\ \A j \in 1..r : fresh[j] = carried[j]
        /\ \A j \in 1..Len(fresh) : fresh[r + j] = fresh[j]
    BY <1>2, <1>4
  <2> QED BY <2>1, <1>3, <1>4 DEF PendingHolds, r
<1>5. CASE r # 0
  <2>0. Len(carried) = r
    BY DEF r
  <2> DEFINE p == carried \o fresh
  <2>1. /\ IsList(p) /\ Len(p) = Len(carried) + Len(fresh)
        /\ \A j \in 1..Len(carried) : p[j] = carried[j]
        /\ \A j \in 1..Len(fresh) : p[Len(carried) + j] = fresh[j]
    BY ConcatIs
  <2>2. Pending(old, level, carried, fresh) = p
    BY <1>3, <1>5
  <2> HIDE DEF p
  <2> QED BY <2>0, <2>1, <2>2 DEF PendingHolds, r
<1> QED BY <1>4, <1>5

FirstTile(dir, old, level) == TileAt(dir, old, level, FirstFile(old, level))
FirstBundle(dir, old) == EntriesAt(dir, old, FirstFile(old, 0))

LEMMA ToWriteIs ==
  ASSUME NEW dir, NEW old \in Nat, NEW level \in Nat, NEW fresh, IsList(fresh)
  PROVE  LET p == ToWrite(dir, old, level, fresh) IN
         /\ IsList(p)
         /\ fresh = <<>> => p = <<>>
         /\ fresh # <<>> => PendingHolds(p, old, level, FirstTile(dir, old, level), fresh)
<1> DEFINE c == FirstTile(dir, old, level)
           p == ToWrite(dir, old, level, fresh)
           name == TileName(level, FirstFile(old, level), Started(old, level))
<1>1. p = IF fresh = <<>> THEN <<>> ELSE Pending(old, level, c, fresh)
  BY DEF ToWrite, FirstTile, FirstFile
<1>2. c = Read(dir, name) /\ name.width = Started(old, level) /\ Started(old, level) \in Nat
  BY FirstFileIs DEF FirstTile, TileAt, TileName
<1>3. IsList(c) /\ Len(c) = Started(old, level)
  <2>1. IsList(Read(dir, name)) /\ Len(Read(dir, name)) = name.width
    <3> HIDE DEF name
    <3> QED BY <1>2, ReadIsList
  <2> HIDE DEF name
  <2> QED BY <1>2, <2>1
<1>4. PendingHolds(Pending(old, level, c, fresh), old, level, c, fresh)
  <2> HIDE DEF c
  <2> QED BY <1>3, PendingIs
<1>5. IsList(<<>>)
  <2>1. <<>> \in Seq({})
    OBVIOUS
  <2> QED BY <2>1, SeqIsList
<1> HIDE DEF c, p
<1>6. /\ IsList(p)
      /\ fresh = <<>> => p = <<>>
      /\ fresh # <<>> => PendingHolds(p, old, level, c, fresh)
  BY <1>1, <1>4, <1>5 DEF PendingHolds
<1> QED BY <1>6 DEF c, p

-----------------------------------------------------------------------------
(* The levels of an append, by their equations. *)
Levels0(p) == Nat
LevelRank(l) == l
FreshBody(p, f, l) ==
  IF l = 0 THEN p[3] ELSE Completed(ToWrite(p[1], p[2], l - 1, f[l - 1]))
FreshR == INSTANCE Recursion WITH Dom <- Levels0, Rank <- LevelRank, Body <- FreshBody

LEMMA FreshEquation ==
  ASSUME NEW dir, NEW old, NEW hashes, NEW l \in Nat
  PROVE  /\ Fresh(dir, old, hashes)[0] = hashes
         /\ Fresh(dir, old, hashes)[l + 1] = Completed(ToWrite(dir, old, l, Fresh(dir, old, hashes)[l]))
<1> DEFINE p == <<dir, old, hashes>>
           F == Fresh(dir, old, hashes)
<1>1. FreshR!Local(p)
  <2>1. ASSUME NEW x \in Nat, NEW g, NEW h, \A y \in Nat : LevelRank(y) < LevelRank(x) => g[y] = h[y]
        PROVE  FreshBody(p, g, x) = FreshBody(p, h, x)
    <3>1. CASE x = 0
      BY <3>1 DEF FreshBody
    <3>2. CASE x # 0
      <4>1. x - 1 \in Nat /\ x - 1 < x
        BY <3>2
      <4>2. g[x - 1] = h[x - 1]
        BY <2>1, <4>1 DEF LevelRank
      <4> QED BY <3>2, <4>2 DEF FreshBody
    <3> QED BY <3>1, <3>2
  <2>2. \A x \in Nat : LevelRank(x) \in Nat
    BY DEF LevelRank
  <2> QED BY <2>1, <2>2, Zenon DEF FreshR!Local, Levels0
<1>2. \E f : f = [x \in Nat |-> FreshBody(p, f, x)]
  BY <1>1, FreshR!Recursive DEF Levels0
<1>3. F = [x \in Nat |-> FreshBody(p, F, x)]
  <2> DEFINE Is(f) == f = [x \in Nat |-> FreshBody(p, f, x)]
             v == CHOOSE f : Is(f)
  <2>1. Is(v)
    BY <1>2, Zenon
  <2>2. F = v
    BY Zenon DEF Fresh, FreshBody
  <2> QED BY <2>1, <2>2, Zenon
<1> HIDE DEF F
<1>4. F[0] = FreshBody(p, F, 0) /\ F[l + 1] = FreshBody(p, F, l + 1)
  BY <1>3
<1>5. l + 1 # 0 /\ (l + 1) - 1 = l
  OBVIOUS
<1>6. FreshBody(p, F, 0) = hashes
  BY DEF FreshBody
<1>7. FreshBody(p, F, l + 1) = Completed(ToWrite(dir, old, (l + 1) - 1, F[(l + 1) - 1]))
  BY <1>5 DEF FreshBody
<1> QED BY <1>4, <1>5, <1>6, <1>7 DEF F

LEMMA FreshIsList ==
  ASSUME NEW dir, NEW old \in Nat, NEW hashes, IsList(hashes)
  PROVE  \A l \in Nat : IsList(Fresh(dir, old, hashes)[l])
<1> DEFINE F == Fresh(dir, old, hashes)
           S == {l \in Nat : IsList(F[l])}
<1>1. 0 \in S
  BY FreshEquation
<1>2. ASSUME NEW l \in Nat, l \in S PROVE l + 1 \in S
  <2>1. IsList(ToWrite(dir, old, l, F[l]))
    BY <1>2, ToWriteIs
  <2>2. IsList(Completed(ToWrite(dir, old, l, F[l])))
    <3> HIDE DEF F
    <3> QED BY <2>1, CompletedAre
  <2>3. F[l + 1] = Completed(ToWrite(dir, old, l, F[l]))
    BY FreshEquation
  <2> HIDE DEF F
  <2> QED BY <2>2, <2>3
<1>3. Nat \subseteq S
  <2> HIDE DEF S
  <2> QED BY <1>1, <1>2, PowR!SetInduction
<1> QED BY <1>3

-----------------------------------------------------------------------------
\* x writes the values of p from place i * TileWidth + 1 on, in the file i after the first.
WriteIs(x, kind, old, level, p, i) ==
  /\ x = [name |-> x.name, data |-> x.data]
  /\ x.name = [kind |-> kind, level |-> level, n |-> FirstFile(old, level) + i, width |-> Room(Len(p), i)]
  /\ IsList(x.data) /\ Len(x.data) = Room(Len(p), i)
  /\ \A j \in 1..Room(Len(p), i) : x.data[j] = p[i * TileWidth + j]

WritesAre(s, kind, old, level, p) ==
  /\ IsList(s)
  /\ \A i \in Nat : i + 1 \in 1..Len(s) <=> i * TileWidth < Len(p)
  /\ \A i \in Nat : i * TileWidth < Len(p) => WriteIs(s[i + 1], kind, old, level, p, i)

LEMMA WritesOf ==
  ASSUME NEW kind, NEW old \in Nat, NEW level \in Nat, NEW p, IsList(p), NEW s,
         s = [i \in 1..Len(Chunks(p)) |->
                [name |-> [kind |-> kind, level |-> level, n |-> FirstFile(old, level) + i - 1,
                           width |-> Len(Chunks(p)[i])],
                 data |-> Chunks(p)[i]]]
  PROVE  WritesAre(s, kind, old, level, p)
<1> DEFINE c == Chunks(p)
           first == FirstFile(old, level)
<1>1. /\ IsList(c)
      /\ \A i \in Nat : i + 1 \in 1..Len(c) <=> i * TileWidth < Len(p)
      /\ \A i \in Nat : i * TileWidth < Len(p) =>
           /\ IsList(c[i + 1]) /\ Len(c[i + 1]) = Room(Len(p), i)
           /\ \A j \in 1..Len(c[i + 1]) : c[i + 1][j] = p[i * TileWidth + j]
  BY ChunksAre
<1>2. Len(c) \in Nat
  BY <1>1, ListLen
<1>3. first \in Nat
  BY FirstFileIs
<1>4. IsList(s) /\ Len(s) = Len(c)
  <2> HIDE DEF c
  <2>1. s = [i \in 1..Len(c) |-> s[i]]
    BY DEF c
  <2> QED BY <1>2, <2>1, FunctionIsList
<1>5. ASSUME NEW i \in Nat, i * TileWidth < Len(p) PROVE WriteIs(s[i + 1], kind, old, level, p, i)
  <2> DEFINE x == s[i + 1]
             d == c[i + 1]
  <2>1. i + 1 \in 1..Len(c)
    BY <1>1, <1>5
  <2>2. x = [name |-> [kind |-> kind, level |-> level, n |-> first + (i + 1) - 1, width |-> Len(d)], data |-> d]
    <3> HIDE DEF first
    <3> QED BY <2>1 DEF first
  <2>3. first + (i + 1) - 1 = first + i
    BY <1>3
  <2>4. IsList(d) /\ Len(d) = Room(Len(p), i) /\ \A j \in 1..Len(d) : d[j] = p[i * TileWidth + j]
    BY <1>1, <1>5
  <2> HIDE DEF d, x, c, first
  <2>5. x.name = [kind |-> kind, level |-> level, n |-> first + i, width |-> Room(Len(p), i)] /\ x.data = d
    BY <2>2, <2>3, <2>4
  <2>6. x = [name |-> x.name, data |-> x.data]
    BY <2>2
  <2> QED BY <2>4, <2>5, <2>6 DEF WriteIs, x, first
<1> HIDE DEF c, first
<1>6. \A i \in Nat : i + 1 \in 1..Len(s) <=> i * TileWidth < Len(p)
  BY <1>1, <1>4
<1> QED BY <1>4, <1>5, <1>6 DEF WritesAre

LEMMA LevelWritesAre ==
  ASSUME NEW dir, NEW old \in Nat, NEW level \in Nat, NEW fresh, IsList(fresh)
  PROVE  WritesAre(LevelWrites(dir, old, level, fresh), "tile", old, level, ToWrite(dir, old, level, fresh))
<1> DEFINE p == ToWrite(dir, old, level, fresh)
           s == LevelWrites(dir, old, level, fresh)
<1>1. IsList(p)
  BY ToWriteIs
<1>2. s = [i \in 1..Len(Chunks(p)) |->
             [name |-> [kind |-> "tile", level |-> level, n |-> FirstFile(old, level) + i - 1,
                        width |-> Len(Chunks(p)[i])],
              data |-> Chunks(p)[i]]]
  BY Zenon DEF LevelWrites, FirstFile, TileName
<1> HIDE DEF p, s
<1> QED BY <1>1, <1>2, WritesOf DEF p, s

ToBundle(dir, old, batch) == Pending(old, 0, FirstBundle(dir, old), batch)

LEMMA ToBundleIs ==
  ASSUME NEW dir, NEW old \in Nat, NEW batch, IsList(batch)
  PROVE  PendingHolds(ToBundle(dir, old, batch), old, 0, FirstBundle(dir, old), batch)
<1> DEFINE c == FirstBundle(dir, old)
           name == BundleName(FirstFile(old, 0), Started(old, 0))
<1>1. c = Read(dir, name) /\ name.width = Started(old, 0) /\ Started(old, 0) \in Nat
  BY FirstFileIs DEF FirstBundle, EntriesAt, BundleName
<1>2. IsList(c) /\ Len(c) = Started(old, 0)
  <2>1. IsList(Read(dir, name)) /\ Len(Read(dir, name)) = name.width
    <3> HIDE DEF name
    <3> QED BY <1>1, ReadIsList
  <2> HIDE DEF name
  <2> QED BY <1>1, <2>1
<1> HIDE DEF c
<1>3. 0 \in Nat
  OBVIOUS
<1>4. PendingHolds(Pending(old, 0, c, batch), old, 0, c, batch)
  BY <1>2, <1>3, PendingIs
<1> QED BY <1>4 DEF c, ToBundle

LEMMA BundleWritesAre ==
  ASSUME NEW dir, NEW old \in Nat, NEW batch, IsList(batch)
  PROVE  WritesAre(BundleWrites(dir, old, batch), "entries", old, 0, ToBundle(dir, old, batch))
<1> DEFINE p == ToBundle(dir, old, batch)
           s == BundleWrites(dir, old, batch)
<1>1. IsList(p)
  BY ToBundleIs DEF PendingHolds
<1>2. old \div TileWidth = FirstFile(old, 0)
  BY LevelCounts DEF FirstFile
<1>3. s = [i \in 1..Len(Chunks(p)) |->
             [name |-> BundleName(FirstFile(old, 0) + i - 1, Len(Chunks(p)[i])), data |-> Chunks(p)[i]]]
  BY <1>2, Zenon DEF BundleWrites, ToBundle, FirstBundle
<1>4. s = [i \in 1..Len(Chunks(p)) |->
             [name |-> [kind |-> "entries", level |-> 0, n |-> FirstFile(old, 0) + i - 1,
                        width |-> Len(Chunks(p)[i])],
              data |-> Chunks(p)[i]]]
  BY <1>3, Zenon DEF BundleName
<1> HIDE DEF p, s
<1> QED BY <1>1, <1>4, WritesOf DEF p, s

-----------------------------------------------------------------------------
Among(x, s) == \E i \in 1..Len(s) : s[i] = x

LEMMA AmongBoth ==
  ASSUME NEW s, NEW t, IsList(s), IsList(t), NEW x
  PROVE  Among(x, s \o t) <=> Among(x, s) \/ Among(x, t)
<1> DEFINE u == s \o t
<1>1. /\ Len(u) = Len(s) + Len(t)
      /\ \A i \in 1..Len(s) : u[i] = s[i]
      /\ \A i \in 1..Len(t) : u[Len(s) + i] = t[i]
  BY ConcatIs
<1>2. Len(s) \in Nat /\ Len(t) \in Nat
  BY ListLen
<1> HIDE DEF u
<1>3. ASSUME Among(x, u) PROVE Among(x, s) \/ Among(x, t)
  <2>1. PICK i \in 1..Len(u) : u[i] = x
    BY <1>3 DEF Among
  <2>2. CASE i <= Len(s)
    <3>1. i \in 1..Len(s)
      BY <2>2, <1>1, <1>2
    <3> QED BY <3>1, <2>1, <1>1 DEF Among
  <2>3. CASE i > Len(s)
    <3>1. i - Len(s) \in 1..Len(t) /\ Len(s) + (i - Len(s)) = i
      BY <2>3, <1>1, <1>2
    <3>2. u[Len(s) + (i - Len(s))] = t[i - Len(s)]
      BY <3>1, <1>1
    <3>3. t[i - Len(s)] = x
      BY <3>1, <3>2, <2>1
    <3> QED BY <3>1, <3>3 DEF Among
  <2> QED BY <2>2, <2>3, <1>1, <1>2
<1>4. ASSUME Among(x, s) PROVE Among(x, u)
  <2>1. PICK i \in 1..Len(s) : s[i] = x
    BY <1>4 DEF Among
  <2>2. i \in 1..Len(u)
    BY <1>1, <1>2
  <2> QED BY <2>1, <2>2, <1>1 DEF Among
<1>5. ASSUME Among(x, t) PROVE Among(x, u)
  <2>1. PICK i \in 1..Len(t) : t[i] = x
    BY <1>5 DEF Among
  <2>2. Len(s) + i \in 1..Len(u)
    BY <1>1, <1>2
  <2> QED BY <2>1, <2>2, <1>1 DEF Among
<1> QED BY <1>3, <1>4, <1>5 DEF u

BelowBody(p, f, l) ==
  IF l = 0 THEN <<>> ELSE f[l - 1] \o LevelWrites(p[1], p[2], l - 1, p[3][l - 1])
BelowR == INSTANCE Recursion WITH Dom <- Levels0, Rank <- LevelRank, Body <- BelowBody

BelowOf(dir, old, fresh) == CHOOSE f : f = [l \in Nat |-> BelowBody(<<dir, old, fresh>>, f, l)]

LEMMA BelowEquation ==
  ASSUME NEW dir, NEW old, NEW fresh
  PROVE  LET below == BelowOf(dir, old, fresh) IN
         /\ below[0] = <<>>
         /\ \A l \in Nat : below[l + 1] = below[l] \o LevelWrites(dir, old, l, fresh[l])
<1> DEFINE p == <<dir, old, fresh>>
           B == BelowOf(dir, old, fresh)
<1>1. BelowR!Local(p)
  <2>1. ASSUME NEW x \in Nat, NEW g, NEW h, \A y \in Nat : LevelRank(y) < LevelRank(x) => g[y] = h[y]
        PROVE  BelowBody(p, g, x) = BelowBody(p, h, x)
    <3>1. CASE x = 0
      BY <3>1 DEF BelowBody
    <3>2. CASE x # 0
      <4>1. x - 1 \in Nat /\ x - 1 < x
        BY <3>2
      <4>2. g[x - 1] = h[x - 1]
        BY <2>1, <4>1 DEF LevelRank
      <4> QED BY <3>2, <4>2 DEF BelowBody
    <3> QED BY <3>1, <3>2
  <2>2. \A x \in Nat : LevelRank(x) \in Nat
    BY DEF LevelRank
  <2> QED BY <2>1, <2>2, Zenon DEF BelowR!Local, Levels0
<1>2. \E f : f = [x \in Nat |-> BelowBody(p, f, x)]
  BY <1>1, BelowR!Recursive DEF Levels0
<1>3. B = [x \in Nat |-> BelowBody(p, B, x)]
  <2> DEFINE Is(f) == f = [x \in Nat |-> BelowBody(p, f, x)]
             v == CHOOSE f : Is(f)
  <2>1. Is(v)
    BY <1>2, Zenon
  <2>2. B = v
    BY Zenon DEF BelowOf
  <2> QED BY <2>1, <2>2, Zenon
<1> HIDE DEF B
<1>4. B[0] = <<>>
  BY <1>3 DEF BelowBody
<1>5. ASSUME NEW l \in Nat PROVE B[l + 1] = B[l] \o LevelWrites(dir, old, l, fresh[l])
  <2>1. l + 1 \in Nat /\ l + 1 # 0 /\ (l + 1) - 1 = l
    OBVIOUS
  <2>2. B[l + 1] = BelowBody(p, B, l + 1)
    BY <1>3, <2>1
  <2>3. BelowBody(p, B, l + 1) = B[(l + 1) - 1] \o LevelWrites(dir, old, (l + 1) - 1, fresh[(l + 1) - 1])
    BY <2>1 DEF BelowBody
  <2> QED BY <2>1, <2>2, <2>3
<1> QED BY <1>4, <1>5 DEF B

LEMMA TileWritesAre ==
  ASSUME NEW dir, NEW old \in Nat, NEW hashes, IsList(hashes)
  PROVE  LET fresh == Fresh(dir, old, hashes)  s == TileWrites(dir, old, hashes) IN
         /\ IsList(s)
         /\ \A x : Among(x, s) <=>
              \E l \in Nat : l < old + Len(hashes) /\ Among(x, LevelWrites(dir, old, l, fresh[l]))
<1> DEFINE F == Fresh(dir, old, hashes)
           B == BelowOf(dir, old, F)
           Lev(l) == LevelWrites(dir, old, l, F[l])
           N == old + Len(hashes)
           OK(n) == /\ IsList(B[n])
                    /\ \A x : Among(x, B[n]) <=> \E l \in Nat : l < n /\ Among(x, Lev(l))
           S == {n \in Nat : OK(n)}
<1>1. TileWrites(dir, old, hashes) = B[N]
  BY Zenon DEF TileWrites, BelowOf, BelowBody
<1>2. B[0] = <<>> /\ \A l \in Nat : B[l + 1] = B[l] \o Lev(l)
  <2> HIDE DEF F
  <2> QED BY BelowEquation
<1>3. \A l \in Nat : IsList(Lev(l))
  <2>1. ASSUME NEW l \in Nat PROVE IsList(Lev(l))
    <3>1. IsList(F[l])
      BY FreshIsList
    <3> HIDE DEF F
    <3>2. WritesAre(Lev(l), "tile", old, l, ToWrite(dir, old, l, F[l]))
      BY <3>1, LevelWritesAre
    <3> QED BY <3>2 DEF WritesAre
  <2> QED BY <2>1
<1>4. N \in Nat
  BY ListLen
<1> HIDE DEF F, B, Lev
<1>5. 0 \in S
  <2>1. IsList(<<>>) /\ Len(<<>>) = 0
    <3>1. <<>> \in Seq({})
      OBVIOUS
    <3> QED BY <3>1, SeqIsList
  <2>2. \A x : ~Among(x, <<>>)
    BY <2>1 DEF Among
  <2>3. \A l \in Nat : ~(l < 0)
    OBVIOUS
  <2> QED BY <1>2, <2>1, <2>2, <2>3
<1>6. ASSUME NEW n \in Nat, n \in S PROVE n + 1 \in S
  <2>1. OK(n) /\ IsList(Lev(n)) /\ B[n + 1] = B[n] \o Lev(n)
    BY <1>2, <1>3, <1>6
  <2>2. IsList(B[n + 1])
    BY <2>1, ConcatIs
  <2>3. ASSUME NEW x PROVE Among(x, B[n + 1]) <=> \E l \in Nat : l < n + 1 /\ Among(x, Lev(l))
    <3>1. Among(x, B[n + 1]) <=> Among(x, B[n]) \/ Among(x, Lev(n))
      BY <2>1, AmongBoth
    <3>2. \A l \in Nat : l < n + 1 <=> l < n \/ l = n
      OBVIOUS
    <3> QED BY <2>1, <3>1, <3>2
  <2>4. OK(n + 1)
    BY <2>2, <2>3
  <2> QED BY <2>4
<1>7. Nat \subseteq S
  <2> HIDE DEF S
  <2> QED BY <1>5, <1>6, PowR!SetInduction
<1>8. OK(N)
  BY <1>4, <1>7
<1> QED BY <1>1, <1>8 DEF F, Lev, N

-----------------------------------------------------------------------------
(***************************************************************************)
(* An append writes no file that the tree it starts from covers: each goes *)
(* past that tree's last value on its level.                               *)
(***************************************************************************)
LEMMA GoesPast ==
  ASSUME NEW old \in Nat, NEW level \in Nat, NEW carried, NEW fresh, IsList(fresh), fresh # <<>>,
         NEW p, PendingHolds(p, old, level, carried, fresh), NEW i \in Nat, i * TileWidth < Len(p)
  PROVE  (FirstFile(old, level) + i) * TileWidth + Room(Len(p), i) > LevelCount(old, level)
<1> DEFINE first == FirstFile(old, level)
           r == Started(old, level)
           x == Len(p)
           y == i * TileWidth
           z == first * TileWidth
           w == Room(x, i)
<1>1. /\ first \in Nat /\ r \in Nat /\ r < TileWidth /\ z \in Nat
      /\ LevelCount(old, level) = z + r /\ TileWidth \in Nat
  BY FirstFileIs, Units
<1>2. Len(fresh) \in Nat /\ Len(fresh) > 0
  BY ListLen
<1>3. x = r + Len(fresh)
  BY DEF PendingHolds
<1>4. x \in Nat
  BY <1>1, <1>2, <1>3
<1>5. y \in Nat /\ w \in 1..TileWidth /\ y + w <= x /\ (w < TileWidth => y + w = x)
  <2>1. i * TileWidth < x
    OBVIOUS
  <2> HIDE DEF x
  <2> QED BY <1>4, <2>1, RoomIs
<1>6. (first + i) * TileWidth = z + y
  <2> HIDE DEF first
  <2> QED BY <1>1
<1> HIDE DEF first, r, x, y, z, w
<1>7. y + w > r
  BY <1>1, <1>2, <1>3, <1>5
<1>8. (first + i) * TileWidth + w > LevelCount(old, level)
  BY <1>1, <1>5, <1>6, <1>7
<1> QED BY <1>8 DEF first, w, x

LEMMA NotCoveredThere ==
  ASSUME NEW old \in Nat, NEW level \in Nat, NEW kind, NEW s, NEW p, NEW carried, NEW fresh, IsList(fresh),
         fresh # <<>>, PendingHolds(p, old, level, carried, fresh),
         WritesAre(s, kind, old, level, p), NEW x, Among(x, s)
  PROVE  ~CoveredBy(x.name, old)
<1>1. PICK j \in 1..Len(s) : s[j] = x
  BY DEF Among
<1>2. j - 1 \in Nat /\ (j - 1) + 1 = j
  <2>1. Len(s) \in Nat
    BY ListLen DEF WritesAre
  <2> QED BY <2>1
<1> DEFINE i == j - 1
<1>3. i \in Nat /\ i + 1 \in 1..Len(s) /\ s[i + 1] = x
  BY <1>1, <1>2
<1> HIDE DEF i
<1>4. i * TileWidth < Len(p) /\ WriteIs(x, kind, old, level, p, i)
  BY <1>3 DEF WritesAre
<1>5. x.name.n = FirstFile(old, level) + i /\ x.name.width = Room(Len(p), i) /\ x.name.level = level
  BY <1>4 DEF WriteIs
<1>6. (FirstFile(old, level) + i) * TileWidth + Room(Len(p), i) > LevelCount(old, level)
  BY <1>3, <1>4, GoesPast
<1>7. LevelCount(old, level) \in Nat /\ FirstFile(old, level) \in Nat /\ TileWidth \in Nat
  BY LevelCounts, FirstFileIs, Units
<1>8. (FirstFile(old, level) + i) * TileWidth \in Nat
  BY <1>3, <1>7
<1>9. Room(Len(p), i) \in Nat
  <2>1. Len(p) \in Nat
    BY ListLen DEF PendingHolds
  <2> QED BY <2>1, <1>3, <1>4, <1>7, RoomIs
<1>10. x.name.n * TileWidth = (FirstFile(old, level) + i) * TileWidth
  BY <1>5
<1>11. ~(x.name.n * TileWidth + x.name.width <= LevelCount(old, level))
  BY <1>5, <1>6, <1>7, <1>8, <1>9, <1>10
<1> QED BY <1>5, <1>11 DEF CoveredBy

LEMMA WritesAreNotCovered ==
  ASSUME NEW dir, NEW old \in Nat, NEW batch, IsList(batch), batch # <<>>
  PROVE  /\ IsList(Writes(dir, old, batch))
         /\ \A x : Among(x, Writes(dir, old, batch)) => ~CoveredBy(x.name, old)
<1> DEFINE h == Hashes(batch)
           F == Fresh(dir, old, h)
           b == BundleWrites(dir, old, batch)
           t == TileWrites(dir, old, h)
<1>1. IsList(h)
  <2>1. h = [i \in 1..Len(batch) |-> h[i]] /\ Len(batch) \in Nat
    BY ListLen DEF Hashes
  <2> HIDE DEF h
  <2> QED BY <2>1, FunctionIsList
<1>2. WritesAre(b, "entries", old, 0, ToBundle(dir, old, batch))
  BY BundleWritesAre
<1>3. IsList(b)
  BY <1>2 DEF WritesAre
<1>4. ASSUME NEW x, Among(x, b) PROVE ~CoveredBy(x.name, old)
  <2>1. PendingHolds(ToBundle(dir, old, batch), old, 0, FirstBundle(dir, old), batch)
    BY ToBundleIs
  <2> HIDE DEF b
  <2> QED BY <1>2, <1>4, <2>1, NotCoveredThere
<1> HIDE DEF h
<1>5. /\ IsList(t)
      /\ \A x : Among(x, t) <=> \E l \in Nat : l < old + Len(h) /\ Among(x, LevelWrites(dir, old, l, F[l]))
  BY <1>1, TileWritesAre
<1>6. ASSUME NEW x, NEW l \in Nat, Among(x, LevelWrites(dir, old, l, F[l])) PROVE ~CoveredBy(x.name, old)
  <2> DEFINE s == LevelWrites(dir, old, l, F[l])
             p == ToWrite(dir, old, l, F[l])
             c == FirstTile(dir, old, l)
  <2>1. IsList(F[l])
    BY <1>1, FreshIsList
  <2> HIDE DEF F
  <2>2. WritesAre(s, "tile", old, l, p)
    BY <2>1, LevelWritesAre
  <2>3. IsList(p) /\ (F[l] = <<>> => p = <<>>) /\ (F[l] # <<>> => PendingHolds(p, old, l, c, F[l]))
    BY <2>1, ToWriteIs
  <2>4. Among(x, s)
    BY <1>6
  <2> HIDE DEF s, p, c
  <2>5. F[l] # <<>>
    <3> SUFFICES ASSUME F[l] = <<>> PROVE FALSE
      OBVIOUS
    <3>1. Len(p) = 0
      BY <2>3
    <3>2. \A i \in Nat : ~(i + 1 \in 1..Len(s))
      <4>1. ASSUME NEW i \in Nat PROVE ~(i * TileWidth < 0)
        <5>1. i * TileWidth \in Nat
          BY Units, TimesIs
        <5> QED BY <5>1
      <4> QED BY <2>2, <3>1, <4>1 DEF WritesAre
    <3>3. Len(s) \in Nat
      BY <2>2, ListLen DEF WritesAre
    <3>4. Len(s) = 0
      BY <3>2, <3>3
    <3> QED BY <2>4, <3>4 DEF Among
  <2> QED BY <2>1, <2>2, <2>3, <2>4, <2>5, NotCoveredThere
<1> HIDE DEF b, t, F
<1>7. Writes(dir, old, batch) = b \o t
  BY DEF Writes, b, t, h
<1>8. IsList(b \o t)
  BY <1>3, <1>5, ConcatIs
<1>9. ASSUME NEW x, Among(x, b \o t) PROVE ~CoveredBy(x.name, old)
  <2>1. Among(x, b) \/ Among(x, t)
    BY <1>3, <1>5, <1>9, AmongBoth
  <2> QED BY <2>1, <1>4, <1>5, <1>6
<1> QED BY <1>7, <1>8, <1>9

-----------------------------------------------------------------------------
(***************************************************************************)
(* A tree over the hashes of equal subtrees is the tree over their leaves. *)
(***************************************************************************)
LEMMA MthOne ==
  ASSUME NEW g, NEW s \in Nat
  PROVE  Mth(g)[<<s, 1>>] = g[s + 1]
BY MthEquation DEF MthBody

LEMMA Scaled ==
  ASSUME NEW f \in Nat, NEW q \in Nat, NEW w \in Nat, NEW P \in Nat, 0 < P, q < w, w <= 2 * q
  PROVE  /\ f * P \in Nat /\ q * P \in Nat /\ w * P \in Nat
         /\ (f + q) * P = f * P + q * P /\ (w - q) * P = w * P - q * P
         /\ q * P < w * P /\ w * P <= 2 * (q * P)
<1>1. f * P \in Nat /\ q * P \in Nat /\ w * P \in Nat
  BY TimesIs
<1>2. (f + q) * P = f * P + q * P /\ (w - q) * P = w * P - q * P /\ (2 * q) * P = 2 * (q * P)
  OBVIOUS
<1>3. (q + 1) * P <= w * P /\ w * P <= (2 * q) * P
  BY Monotone
<1>4. (q + 1) * P = q * P + P
  BY TimesIs
<1> QED BY <1>1, <1>2, <1>3, <1>4

SplitsAt(g, s, w, P) == Mth(g)[<<s, w>>] = node_hash(Mth(g)[<<s, P>>], Mth(g)[<<s + P, w - P>>])

LEMMA MthHalves ==
  ASSUME NEW g, NEW s \in Nat, NEW w \in Nat, NEW i \in Nat, Pow2[i] < w, w <= 2 * Pow2[i]
  PROVE  SplitsAt(g, s, w, Pow2[i])
BY MthSplits DEF SplitsAt

OverUnits(hs, g, s, a, n) == \A j \in 1..n : hs[j] = Mth(g)[<<s + (j - 1) * Pow2[a], Pow2[a]>>]

LEMMA MthOfMth ==
  ASSUME NEW g, NEW hs, NEW s \in Nat, NEW a \in Nat, NEW n \in Nat, OverUnits(hs, g, s, a, n),
         NEW f \in Nat, NEW w \in Nat, 0 < w, f + w <= n
  PROVE  Mth(hs)[<<f, w>>] = Mth(g)[<<s + f * Pow2[a], w * Pow2[a]>>]
<1> DEFINE P == Pow2[a]
           Same(k, v) == Mth(hs)[<<k, v>>] = Mth(g)[<<s + k * P, v * P>>]
           S == {v \in Nat : \A k \in Nat : 0 < v /\ k + v <= n => Same(k, v)}
<1>1. P \in Nat /\ 0 < P
  BY PowNat
<1>2. ASSUME NEW v \in Nat, \A u \in Nat : u < v => u \in S, NEW k \in Nat, 0 < v, k + v <= n
      PROVE  Same(k, v)
  <2>1. CASE v = 1
    <3>1. Mth(hs)[<<k, 1>>] = hs[k + 1]
      BY MthOne
    <3>2. k + 1 \in 1..n /\ (k + 1) - 1 = k
      BY <1>2, <2>1
    <3>3. hs[k + 1] = Mth(g)[<<s + k * P, P>>]
      BY <3>2 DEF OverUnits
    <3>4. 1 * P = P
      BY <1>1
    <3> QED BY <2>1, <3>1, <3>3, <3>4
  <2>2. CASE v > 1
    <3>1. PICK i \in Nat : Pow2[i] < v /\ v <= 2 * Pow2[i]
      BY <2>2, SplitPower
    <3> DEFINE q == Pow2[i]
    <3>2. q \in Nat /\ 0 < q /\ Pow2[a + i] = P * q
      <4>1. q \in Nat /\ 0 < q
        BY PowNat
      <4>2. Pow2[a + i] = Pow2[a] * Pow2[i]
        BY PowAdds
      <4> QED BY <4>1, <4>2
    <3>3. /\ k * P \in Nat /\ q * P \in Nat /\ v * P \in Nat
          /\ (k + q) * P = k * P + q * P /\ (v - q) * P = v * P - q * P
          /\ q * P < v * P /\ v * P <= 2 * (q * P)
      <4>1. q < v /\ v <= 2 * q
        BY <3>1
      <4> HIDE DEF P, q
      <4> QED BY <1>1, <3>2, <4>1, Scaled
    <3>4. Mth(hs)[<<k, v>>] = node_hash(Mth(hs)[<<k, q>>], Mth(hs)[<<k + q, v - q>>])
      BY <3>1, MthSplits
    <3>5. Same(k, q) /\ Same(k + q, v - q)
      <4>1. /\ q < v /\ k + q <= n /\ v - q \in Nat /\ v - q < v /\ 0 < v - q
            /\ k + q \in Nat /\ (k + q) + (v - q) <= n
        BY <1>2, <3>1, <3>2
      <4>2. q \in S /\ v - q \in S
        BY <1>2, <3>2, <4>1
      <4> HIDE DEF Same, q
      <4> QED BY <3>2, <4>1, <4>2
    <3>6. Pow2[a + i] = q * P
      <4> HIDE DEF P, q
      <4> QED BY <1>1, <3>2, TimesIs
    <3>7. Mth(g)[<<s + k * P, v * P>>] =
            node_hash(Mth(g)[<<s + k * P, q * P>>], Mth(g)[<<(s + k * P) + q * P, v * P - q * P>>])
      <4>1. s + k * P \in Nat /\ a + i \in Nat
        BY <3>3
      <4> DEFINE b == s + k * P
                 x == v * P
                 y == a + i
      <4>2. b \in Nat /\ x \in Nat /\ y \in Nat /\ Pow2[y] < x /\ x <= 2 * Pow2[y]
        BY <3>3, <3>6, <4>1
      <4>3. SplitsAt(g, b, x, Pow2[y])
        <5> HIDE DEF b, x, y
        <5> QED BY <4>2, MthHalves
      <4> QED BY <4>3, <3>6 DEF SplitsAt
    <3>8. (s + k * P) + q * P = s + (k + q) * P /\ v * P - q * P = (v - q) * P
      BY <3>3
    <3> QED BY <3>4, <3>5, <3>7, <3>8
  <2> QED BY <1>2, <2>1, <2>2
<1>3. ASSUME NEW v \in Nat, \A u \in Nat : u < v => u \in S PROVE v \in S
  <2> HIDE DEF Same
  <2> QED BY <1>2, <1>3
<1>4. Nat \subseteq S
  <2> HIDE DEF S
  <2> QED BY <1>3, PowR!StrongInduction
<1> QED BY <1>4

-----------------------------------------------------------------------------
(***************************************************************************)
(* What the files of a log of entries e hold.  IsFile: the names of the    *)
(* tiles and bundles of a tree of `size` leaves.  Holding: what is under a *)
(* name is what e has there.  Holds: a directory has every file of e.      *)
(***************************************************************************)
Value(e, kind, l, i) ==
  IF kind = "entries" THEN e[i + 1] ELSE Mth(Hashes(e))[<<i * Unit(l), Unit(l)>>]

Kind(kind, l) == kind \in {"tile", "entries"} /\ (kind = "entries" => l = 0)

IsFile(name, size) ==
  /\ name = [kind |-> name.kind, level |-> name.level, n |-> name.n, width |-> name.width]
  /\ Kind(name.kind, name.level) /\ name.level \in Nat /\ name.n \in Nat
  /\ name.n * TileWidth < LevelCount(size, name.level)
  /\ name.width = WidthOf(size, name.level, name.n)

Holding(data, name, e) ==
  /\ IsList(data) /\ Len(data) = name.width
  /\ \A j \in 1..name.width : data[j] = Value(e, name.kind, name.level, name.n * TileWidth + (j - 1))

Holds(dir, e) ==
  \A name : IsFile(name, Len(e)) => name \in DOMAIN dir /\ Holding(dir[name], name, e)

LEMMA HashesAre ==
  ASSUME NEW e, IsList(e)
  PROVE  /\ IsList(Hashes(e)) /\ Len(Hashes(e)) = Len(e)
         /\ \A i \in 1..Len(e) : Hashes(e)[i] = leaf_hash(e[i])
<1>1. Len(e) \in Nat
  BY ListLen
<1>2. Hashes(e) = [i \in 1..Len(e) |-> leaf_hash(e[i])]
  BY DEF Hashes
<1>3. \A i \in 1..Len(e) : Hashes(e)[i] = leaf_hash(e[i])
  BY <1>2
<1>4. Hashes(e) = [i \in 1..Len(e) |-> Hashes(e)[i]]
  BY <1>2, <1>3
<1> HIDE DEF leaf_hash
<1> QED BY <1>1, <1>3, <1>4, FunctionIsList

LEMMA FileIs ==
  ASSUME NEW size \in Nat, NEW name, IsFile(name, size)
  PROVE  /\ name.width \in 1..TileWidth /\ name.n * TileWidth \in Nat /\ CoveredBy(name, size)
         /\ \A j \in 1..name.width : /\ name.n * TileWidth + (j - 1) \in Nat
                                     /\ name.n * TileWidth + (j - 1) < LevelCount(size, name.level)
<1> DEFINE x == LevelCount(size, name.level)
<1>1. x \in Nat /\ name.n \in Nat /\ name.n * TileWidth < x /\ TileWidth \in Nat
  BY LevelCounts, Units DEF IsFile
<1>2. name.width = Room(x, name.n)
  BY WidthIsRoom DEF IsFile
<1> HIDE DEF x
<1>3. /\ name.n * TileWidth \in Nat /\ name.width \in 1..TileWidth
      /\ name.n * TileWidth + name.width <= x
  BY <1>1, <1>2, RoomIs
<1> QED BY <1>1, <1>3 DEF CoveredBy, x

LEMMA ValueStays ==
  ASSUME NEW e, NEW f, IsList(e), IsList(f), Begins(e, f),
         NEW kind, NEW l \in Nat, Kind(kind, l), NEW i \in Nat, i < LevelCount(Len(e), l)
  PROVE  Value(f, kind, l, i) = Value(e, kind, l, i)
<1>1. Len(e) \in Nat
  BY ListLen
<1>2. CASE kind = "entries"
  <2>1. l = 0
    BY <1>2 DEF Kind
  <2>2. i < Len(e)
    BY <1>1, <2>1, LevelCounts
  <2> QED BY <1>1, <1>2, <2>2 DEF Value, Begins
<1>3. CASE kind # "entries"
  <2>1. i + 1 \in Nat /\ LevelCount(Len(e), l) \in Nat /\ i + 1 <= LevelCount(Len(e), l)
    <3>1. LevelCount(Len(e), l) \in Nat
      BY <1>1, LevelCounts
    <3> QED BY <3>1
  <2>2. (i + 1) * Unit(l) <= Len(e)
    <3>1. \A m \in Nat : m <= LevelCount(Len(e), l) <=> m * Unit(l) <= Len(e)
      BY <1>1, LevelCounts
    <3> QED BY <2>1, <3>1, Zenon
  <2>3. Unit(l) \in Nat /\ i * Unit(l) \in Nat /\ (i + 1) * Unit(l) = i * Unit(l) + Unit(l)
    BY Units, TimesIs
  <2>4. SameLeaves(Hashes(f), Hashes(e), Len(e))
    BY <1>1, HashesAre, ListLen DEF SameLeaves, Begins
  <2>5. Mth(Hashes(f))[<<i * Unit(l), Unit(l)>>] = Mth(Hashes(e))[<<i * Unit(l), Unit(l)>>]
    BY <1>1, <2>2, <2>3, <2>4, MthPrefix
  <2> QED BY <1>3, <2>5 DEF Value
<1> QED BY <1>2, <1>3

\* A file keeps holding what it should while the log grows.
LEMMA HoldingStays ==
  ASSUME NEW e, NEW f, IsList(e), IsList(f), Begins(e, f), NEW name, IsFile(name, Len(e)),
         NEW data, Holding(data, name, e)
  PROVE  Holding(data, name, f)
<1>1. Len(e) \in Nat
  BY ListLen
<1>2. name.level \in Nat /\ Kind(name.kind, name.level)
  BY DEF IsFile
<1>3. ASSUME NEW j \in 1..name.width
      PROVE  data[j] = Value(f, name.kind, name.level, name.n * TileWidth + (j - 1))
  <2> DEFINE i == name.n * TileWidth + (j - 1)
  <2>1. i \in Nat /\ i < LevelCount(Len(e), name.level)
    BY <1>1, FileIs
  <2>2. data[j] = Value(e, name.kind, name.level, i)
    BY DEF Holding
  <2> HIDE DEF i
  <2>3. Value(f, name.kind, name.level, i) = Value(e, name.kind, name.level, i)
    BY <1>2, <2>1, ValueStays
  <2> QED BY <2>2, <2>3 DEF i
<1> QED BY <1>3 DEF Holding

\* Two files of one name that hold what e has there are the same.
LEMMA SameFiles ==
  ASSUME NEW e, NEW name, NEW data, NEW other, Holding(data, name, e), Holding(other, name, e)
  PROVE  data = other
BY SameLists DEF Holding

\* What is read of a file the directory has.
LEMMA ReadHolds ==
  ASSUME NEW dir, NEW e, IsList(e), Holds(dir, e), NEW kind, NEW l \in Nat, Kind(kind, l), NEW n \in Nat,
         n * TileWidth < LevelCount(Len(e), l), NEW width, width = WidthOf(Len(e), l, n)
  PROVE  LET r == Read(dir, [kind |-> kind, level |-> l, n |-> n, width |-> width]) IN
         /\ IsList(r) /\ Len(r) = width /\ width \in 1..TileWidth
         /\ \A j \in 1..width : r[j] = Value(e, kind, l, n * TileWidth + (j - 1))
<1> DEFINE name == [kind |-> kind, level |-> l, n |-> n, width |-> width]
<1>1. name.kind = kind /\ name.level = l /\ name.n = n /\ name.width = width
  OBVIOUS
<1>2. IsFile(name, Len(e))
  BY DEF IsFile
<1>3. name \in DOMAIN dir /\ Holding(dir[name], name, e)
  BY <1>2 DEF Holds
<1>4. Len(e) \in Nat
  BY ListLen
<1>5. width \in 1..TileWidth /\ width \in Nat
  <2>1. name.width \in 1..TileWidth
    BY <1>2, <1>4, FileIs
  <2>2. \A v \in 1..TileWidth : v \in Nat
    BY Units
  <2> HIDE DEF name
  <2> QED BY <2>1, <2>2, <1>1, Zenon
<1>6. /\ Len(dir[name]) = width
      /\ \A j \in 1..width : dir[name][j] = Value(e, kind, l, n * TileWidth + (j - 1))
  BY <1>1, <1>3 DEF Holding
<1> HIDE DEF name
<1>7. Read(dir, name) = SubSeq(dir[name], 1, width)
  BY <1>1, <1>3, <1>6 DEF Read
<1>8. /\ IsList(SubSeq(dir[name], 1, width)) /\ Len(SubSeq(dir[name], 1, width)) = width
      /\ \A i \in 1..width : SubSeq(dir[name], 1, width)[i] = dir[name][i]
  <2> DEFINE d == dir[name]
  <2>1. /\ IsList(SubSeq(d, 0 + 1, 0 + width)) /\ Len(SubSeq(d, 0 + 1, 0 + width)) = width
        /\ \A i \in 1..width : SubSeq(d, 0 + 1, 0 + width)[i] = d[0 + i]
    <3>1. \A s : \A a, m \in Nat :
            /\ IsList(SubSeq(s, a + 1, a + m)) /\ Len(SubSeq(s, a + 1, a + m)) = m
            /\ \A i \in 1..m : SubSeq(s, a + 1, a + m)[i] = s[a + i]
      BY SubSeqIs
    <3> HIDE DEF d
    <3>2. 0 \in Nat
      OBVIOUS
    <3> QED BY <1>5, <3>1, <3>2, Zenon
  <2>2. 0 + 1 = 1 /\ 0 + width = width /\ \A i \in 1..width : 0 + i = i
    BY <1>5
  <2> QED BY <2>1, <2>2, <1>5
<1>9. /\ IsList(Read(dir, name)) /\ Len(Read(dir, name)) = width /\ width \in 1..TileWidth
      /\ \A j \in 1..width : Read(dir, name)[j] = Value(e, kind, l, n * TileWidth + (j - 1))
  BY <1>5, <1>6, <1>7, <1>8
<1> QED BY <1>9 DEF name

-----------------------------------------------------------------------------
(***************************************************************************)
(* What an append writes holds what the longer log has there.  f is e and  *)
(* the batch; New: the values that are new at a level; Stores: these and   *)
(* those carried over, from the first value of the first file on.          *)
(***************************************************************************)
Grown(e, f) == IsList(e) /\ IsList(f) /\ Begins(e, f)

New(fresh, e, f, kind, l) ==
  /\ IsList(fresh) /\ Len(fresh) = LevelCount(Len(f), l) - LevelCount(Len(e), l)
  /\ \A q \in 1..Len(fresh) : fresh[q] = Value(f, kind, l, LevelCount(Len(e), l) + (q - 1))

Stores(p, e, f, kind, l) ==
  /\ IsList(p) /\ Len(p) = LevelCount(Len(f), l) - FirstFile(Len(e), l) * TileWidth
  /\ \A q \in 1..Len(p) : p[q] = Value(f, kind, l, FirstFile(Len(e), l) * TileWidth + (q - 1))

FirstName(e, kind, l) ==
  [kind |-> kind, level |-> l, n |-> FirstFile(Len(e), l), width |-> Started(Len(e), l)]

LEMMA GrownIs ==
  ASSUME NEW e, NEW f, Grown(e, f)
  PROVE  /\ Len(e) \in Nat /\ Len(f) \in Nat /\ Len(e) <= Len(f)
         /\ \A l \in Nat : /\ LevelCount(Len(e), l) \in Nat /\ LevelCount(Len(f), l) \in Nat
                           /\ LevelCount(Len(e), l) <= LevelCount(Len(f), l)
<1>1. Len(e) \in Nat /\ Len(f) \in Nat /\ Len(e) <= Len(f)
  BY ListLen DEF Grown, Begins
<1> QED BY <1>1, LevelCounts

LEMMA PendingStores ==
  ASSUME NEW dir, NEW e, NEW f, Grown(e, f), Holds(dir, e), NEW kind, NEW l \in Nat, Kind(kind, l),
         NEW fresh, New(fresh, e, f, kind, l),
         NEW p, PendingHolds(p, Len(e), l, Read(dir, FirstName(e, kind, l)), fresh)
  PROVE  Stores(p, e, f, kind, l)
<1> DEFINE old == Len(e)
           x == LevelCount(Len(e), l)
           y == LevelCount(Len(f), l)
           k == FirstFile(Len(e), l)
           b == FirstFile(Len(e), l) * TileWidth
           s == Started(Len(e), l)
           carried == Read(dir, FirstName(e, kind, l))
<1>1. old \in Nat /\ x \in Nat /\ y \in Nat /\ x <= y
  BY GrownIs
<1>2. k \in Nat /\ s \in Nat /\ b \in Nat /\ x = b + s /\ WidthOf(old, l, k) = s
  BY <1>1, FirstFileIs
<1>3. /\ IsList(fresh) /\ Len(fresh) = y - x
      /\ \A q \in 1..(y - x) : fresh[q] = Value(f, kind, l, x + (q - 1))
  BY DEF New
<1>4. /\ IsList(p) /\ Len(p) = s + (y - x)
      /\ \A j \in 1..s : p[j] = carried[j]
      /\ \A j \in 1..(y - x) : p[s + j] = fresh[j]
  BY <1>3 DEF PendingHolds
<1>5. ASSUME NEW q \in 1..s PROVE p[q] = Value(f, kind, l, b + (q - 1))
  <2>1. b < x
    BY <1>2
  <2>2. carried[q] = Value(e, kind, l, b + (q - 1))
    <3>1. /\ IsList(e) /\ k * TileWidth < LevelCount(old, l) /\ s = WidthOf(old, l, k)
      BY <1>2, <2>1 DEF Grown
    <3>2. carried = Read(dir, [kind |-> kind, level |-> l, n |-> k, width |-> s])
      BY DEF FirstName
    <3>3. \A j \in 1..s : Read(dir, [kind |-> kind, level |-> l, n |-> k, width |-> s])[j]
                            = Value(e, kind, l, k * TileWidth + (j - 1))
      <4> HIDE DEF s, k
      <4> QED BY <1>2, <3>1, ReadHolds
    <3> QED BY <3>2, <3>3
  <2>3. b + (q - 1) \in Nat /\ b + (q - 1) < x
    BY <1>2
  <2>4. Value(f, kind, l, b + (q - 1)) = Value(e, kind, l, b + (q - 1))
    <3> DEFINE i == b + (q - 1)
    <3>1. i \in Nat /\ i < LevelCount(Len(e), l)
      BY <2>3
    <3> HIDE DEF i
    <3>2. Value(f, kind, l, i) = Value(e, kind, l, i)
      BY <3>1, ValueStays DEF Grown
    <3> QED BY <3>2 DEF i
  <2> QED BY <1>4, <2>2, <2>4
<1>6. ASSUME NEW q \in 1..(s + (y - x)), q > s PROVE p[q] = Value(f, kind, l, b + (q - 1))
  <2> HIDE DEF x, y, b, s, k
  <2>1. q - s \in 1..(y - x) /\ s + (q - s) = q /\ x + ((q - s) - 1) = b + (q - 1)
    BY <1>1, <1>2, <1>6
  <2>2. p[s + (q - s)] = fresh[q - s] /\ fresh[q - s] = Value(f, kind, l, x + ((q - s) - 1))
    BY <1>3, <1>4, <2>1
  <2> QED BY <2>1, <2>2
<1>7. s + (y - x) = y - b
  BY <1>1, <1>2
<1>8. \A q \in 1..Len(p) : p[q] = Value(f, kind, l, b + (q - 1))
  <2> HIDE DEF x, y, b, s, k
  <2>1. ASSUME NEW q \in 1..Len(p) PROVE p[q] = Value(f, kind, l, b + (q - 1))
    <3>1. q \in 1..(s + (y - x)) /\ (q \in 1..s \/ q > s)
      BY <1>1, <1>2, <1>4
    <3> QED BY <3>1, <1>5, <1>6
  <2> QED BY <2>1
<1> QED BY <1>4, <1>7, <1>8 DEF Stores

\* The hashes of the files completed are the new values of the level above.
LEMMA CompletedIsNew ==
  ASSUME NEW e, NEW f, Grown(e, f), NEW l \in Nat, NEW p, Stores(p, e, f, "tile", l)
  PROVE  New(Completed(p), e, f, "tile", l + 1)
<1> DEFINE x == LevelCount(Len(e), l)
           y == LevelCount(Len(f), l)
           k == FirstFile(Len(e), l)
           m == y \div TileWidth
           c == Completed(p)
           g == Hashes(f)
           U == Unit(l)
<1>1. x \in Nat /\ y \in Nat /\ x <= y
  BY GrownIs
<1>2. /\ k \in Nat /\ k * TileWidth \in Nat /\ k * TileWidth <= x /\ LevelCount(Len(e), l + 1) = k
      /\ TileWidth \in Nat /\ 0 < TileWidth
  <2>1. Len(e) \in Nat
    BY GrownIs
  <2>2. TileWidth \in Nat /\ 0 < TileWidth
    BY Units
  <2>3. /\ k \in Nat /\ k * TileWidth \in Nat /\ Started(Len(e), l) \in Nat
        /\ x = k * TileWidth + Started(Len(e), l) /\ LevelCount(Len(e), l + 1) = k
    BY <2>1, FirstFileIs
  <2> HIDE DEF x, k
  <2> QED BY <2>2, <2>3
<1>3. m \in Nat /\ LevelCount(Len(f), l + 1) = m
  BY <1>1, <1>2, GrownIs, LevelCounts, DivIs
<1>4. /\ IsList(p) /\ Len(p) = y - k * TileWidth
      /\ \A q \in 1..(y - k * TileWidth) : p[q] = Value(f, "tile", l, k * TileWidth + (q - 1))
  BY DEF Stores
<1>5. k <= m /\ (y - k * TileWidth) \div TileWidth = m - k
  <2>1. k <= m
    <3> HIDE DEF y, k
    <3>1. k * TileWidth <= y
      BY <1>1, <1>2
    <3> QED BY <1>1, <1>2, <3>1, QuotientAtLeast
  <2>2. m * TileWidth \in Nat /\ m * TileWidth <= y /\ y < m * TileWidth + TileWidth
    <3> HIDE DEF y
    <3>1. y = m * TileWidth + (y % TileWidth) /\ y % TileWidth \in Nat /\ y % TileWidth < TileWidth
      BY <1>1, <1>2, DivIs
    <3>2. m * TileWidth \in Nat
      BY <1>2, <1>3, TimesIs
    <3> HIDE DEF m
    <3> QED BY <3>1, <3>2, <1>1, <1>2
  <2> DEFINE d == m - k
             z == y - k * TileWidth
  <2>3. d \in Nat /\ d * TileWidth = m * TileWidth - k * TileWidth
    <3> HIDE DEF y, m, k
    <3> QED BY <2>1, <1>2, <1>3
  <2>4. z \in Nat /\ d * TileWidth <= z /\ z < d * TileWidth + TileWidth
    <3> HIDE DEF y, m, k, d
    <3> QED BY <2>2, <2>3, <1>1, <1>2
  <2>5. z \div TileWidth = d
    <3> HIDE DEF d, z
    <3> QED BY <2>3, <2>4, <1>2, QuotientIs
  <2> QED BY <2>1, <2>5
<1>6. IsList(c) /\ Len(c) = m - k
  BY <1>4, <1>5, CompletedAre
<1>7. ASSUME NEW q \in Nat, q + 1 \in 1..Len(c)
      PROVE  c[q + 1] = Value(f, "tile", l + 1, k + q)
  <2> DEFINE hs == SubSeq(p, q * TileWidth + 1, q * TileWidth + TileWidth)
             a == q * TileWidth
             s == (k * TileWidth + q * TileWidth) * U
  <2>1. a + TileWidth <= Len(p) /\ c[q + 1] = MerkleRoot(hs)
    <3>1. (q + 1) * TileWidth <= Len(p) /\ c[q + 1] = MerkleRoot(hs)
      BY <1>4, <1>7, CompletedAre
    <3> QED BY <3>1, <1>2, TimesIs
  <2>2. a \in Nat
    BY <1>2, TimesIs
  <2>3. IsList(hs) /\ Len(hs) = TileWidth /\ \A j \in 1..TileWidth : hs[j] = p[a + j]
    <3> HIDE DEF a
    <3> QED BY <1>2, <2>2, SubSeqIs DEF a
  <2>4. U \in Nat /\ 0 < U /\ Unit(l + 1) = U * TileWidth /\ U = Pow2[TileHeight * l] /\ TileHeight * l \in Nat
    BY Units, TimesIs DEF Unit
  <2>5. s \in Nat /\ s = (k + q) * Unit(l + 1)
    <3>1. k * TileWidth + a = (k + q) * TileWidth /\ k + q \in Nat
      BY <1>2
    <3>2. ((k + q) * TileWidth) * U = (k + q) * (U * TileWidth)
      <4> HIDE DEF U, k
      <4> QED BY <1>2, <2>4
    <3>3. s \in Nat
      <4> HIDE DEF U, k, a
      <4>1. k * TileWidth + a \in Nat
        BY <1>2, <2>2
      <4> QED BY <4>1, <2>4, TimesIs DEF a
    <3> QED BY <3>1, <3>2, <3>3, <2>4
  <2>6. OverUnits(hs, g, s, TileHeight * l, TileWidth)
    <3>1. ASSUME NEW j \in 1..TileWidth PROVE hs[j] = Mth(g)[<<s + (j - 1) * U, U>>]
      <4> DEFINE v == k * TileWidth
      <4>1. a + j \in 1..(y - v)
        <5> HIDE DEF a, y, v
        <5> QED BY <1>1, <1>2, <1>4, <2>1, <2>2 DEF v
      <4>2. hs[j] = Value(f, "tile", l, v + ((a + j) - 1))
        BY <1>4, <2>3, <4>1
      <4>3. (v + ((a + j) - 1)) * U = s + (j - 1) * U
        <5>1. v \in Nat /\ a \in Nat /\ j - 1 \in Nat /\ U \in Nat
          BY <1>2, <2>2, <2>4
        <5>2. s = (v + a) * U
          OBVIOUS
        <5> HIDE DEF v, a, U, s
        <5>3. v + ((a + j) - 1) = (v + a) + (j - 1)
          BY <5>1
        <5>4. ((v + a) + (j - 1)) * U = (v + a) * U + (j - 1) * U
          BY <5>1
        <5> QED BY <5>2, <5>3, <5>4
      <4> HIDE DEF v, a, s
      <4> QED BY <4>2, <4>3 DEF Value
    <3> QED BY <3>1, <2>4 DEF OverUnits
  <2>7. Mth(hs)[<<0, TileWidth>>] = Mth(g)[<<s + 0 * U, TileWidth * U>>]
    <3>1. 0 + TileWidth <= TileWidth
      BY <1>2
    <3> HIDE DEF hs, g, s
    <3> QED BY <1>2, <2>4, <2>5, <2>6, <3>1, MthOfMth
  <2>8. s + 0 * U = s /\ TileWidth * U = Unit(l + 1)
    <3> HIDE DEF s, U
    <3> QED BY <2>4, <2>5, <1>2
  <2>9. MerkleRoot(hs) = Mth(g)[<<s, Unit(l + 1)>>]
    BY <2>3, <2>7, <2>8 DEF MerkleRoot
  <2> HIDE DEF s, hs, c, k
  <2> QED BY <2>1, <2>5, <2>9 DEF Value
<1>8. ASSUME NEW q \in 1..Len(c) PROVE c[q] = Value(f, "tile", l + 1, k + (q - 1))
  <2>1. q - 1 \in Nat /\ (q - 1) + 1 = q
    BY <1>6, ListLen
  <2> HIDE DEF c, k
  <2> QED BY <1>7, <2>1
<1> QED BY <1>2, <1>3, <1>6, <1>8 DEF New

-----------------------------------------------------------------------------
(***************************************************************************)
(* All an append of b to a log of e writes: the files that the longer log  *)
(* e \o b has, each holding what that log has there (Owed), and all those  *)
(* that e itself has not.                                                  *)
(***************************************************************************)
LEMMA Together ==
  ASSUME NEW e, NEW b, IsList(e), IsList(b)
  PROVE  /\ Grown(e, e \o b) /\ Len(e \o b) = Len(e) + Len(b)
         /\ \A i \in 1..Len(b) : (e \o b)[Len(e) + i] = b[i]
<1>1. Len(e) \in Nat /\ Len(b) \in Nat
  BY ListLen
<1>2. /\ IsList(e \o b) /\ Len(e \o b) = Len(e) + Len(b)
      /\ \A i \in 1..Len(e) : (e \o b)[i] = e[i]
      /\ \A i \in 1..Len(b) : (e \o b)[Len(e) + i] = b[i]
  BY ConcatIs
<1>3. Begins(e, e \o b)
  BY <1>1, <1>2 DEF Begins
<1> QED BY <1>2, <1>3 DEF Grown

LEMMA FirstFilesRead ==
  ASSUME NEW dir, NEW e, Len(e) \in Nat, NEW l \in Nat
  PROVE  /\ FirstTile(dir, Len(e), l) = Read(dir, FirstName(e, "tile", l))
         /\ FirstBundle(dir, Len(e)) = Read(dir, FirstName(e, "entries", 0))
<1>1. \A k \in Nat : WidthOf(Len(e), k, FirstFile(Len(e), k)) = Started(Len(e), k)
  BY FirstFileIs
<1>2. FirstTile(dir, Len(e), l) = Read(dir, FirstName(e, "tile", l))
  BY <1>1 DEF FirstTile, TileAt, TileName, FirstName
<1>3. FirstBundle(dir, Len(e)) = Read(dir, FirstName(e, "entries", 0))
  BY <1>1 DEF FirstBundle, EntriesAt, BundleName, FirstName
<1> QED BY <1>2, <1>3

LEMMA NewEntries ==
  ASSUME NEW e, NEW b, IsList(e), IsList(b)
  PROVE  New(b, e, e \o b, "entries", 0) /\ New(Hashes(b), e, e \o b, "tile", 0)
<1> DEFINE f == e \o b
<1>1. Len(e) \in Nat /\ Len(b) \in Nat /\ Len(f) = Len(e) + Len(b) /\ Len(f) \in Nat /\ IsList(f)
  BY ListLen, Together DEF Grown
<1>2. LevelCount(Len(f), 0) = Len(f) /\ LevelCount(Len(e), 0) = Len(e)
  BY <1>1, LevelCounts
<1>3. IsList(Hashes(b)) /\ Len(Hashes(b)) = Len(b) /\ \A q \in 1..Len(b) : Hashes(b)[q] = leaf_hash(b[q])
  BY HashesAre
<1>4. \A i \in 1..Len(f) : Hashes(f)[i] = leaf_hash(f[i])
  BY <1>1, HashesAre
<1>5. ASSUME NEW q \in 1..Len(b)
      PROVE  /\ b[q] = Value(f, "entries", 0, Len(e) + (q - 1))
             /\ Hashes(b)[q] = Value(f, "tile", 0, Len(e) + (q - 1))
  <2> DEFINE i == Len(e) + (q - 1)
  <2>1. i \in Nat /\ i + 1 = Len(e) + q /\ i + 1 \in 1..Len(f)
    BY <1>1
  <2>2. f[Len(e) + q] = b[q]
    BY Together
  <2> HIDE DEF f, i
  <2>3. f[i + 1] = b[q]
    BY <2>1, <2>2
  <2>4. Value(f, "entries", 0, i) = b[q]
    BY <2>3 DEF Value
  <2>5. Value(f, "tile", 0, i) = Mth(Hashes(f))[<<i * 1, 1>>]
    BY Units DEF Value
  <2>6. i * 1 = i
    BY <2>1
  <2>7. Mth(Hashes(f))[<<i, 1>>] = Hashes(f)[i + 1]
    BY <2>1, MthOne
  <2>8. Hashes(f)[i + 1] = leaf_hash(b[q]) /\ Hashes(b)[q] = leaf_hash(b[q])
    BY <1>3, <1>4, <2>1, <2>3
  <2>9. b[q] = Value(f, "entries", 0, i) /\ Hashes(b)[q] = Value(f, "tile", 0, i)
    BY <2>4, <2>5, <2>6, <2>7, <2>8
  <2> QED BY <2>9 DEF i
<1>6. Len(b) = Len(f) - Len(e)
  BY <1>1
<1> HIDE DEF f
<1>7. New(b, e, f, "entries", 0)
  BY <1>2, <1>5, <1>6 DEF New
<1>8. New(Hashes(b), e, f, "tile", 0)
  BY <1>2, <1>3, <1>5, <1>6 DEF New
<1> QED BY <1>7, <1>8 DEF f

\* Nothing new at a level: nothing to write there, and nothing new above.
LEMMA NothingNew ==
  ASSUME NEW e, NEW f, Grown(e, f), NEW l \in Nat, New(<<>>, e, f, "tile", l)
  PROVE  LevelCount(Len(f), l) = LevelCount(Len(e), l) /\ New(Completed(<<>>), e, f, "tile", l + 1)
<1> DEFINE x == LevelCount(Len(e), l)
           y == LevelCount(Len(f), l)
           c == Completed(<<>>)
<1>1. x \in Nat /\ y \in Nat
  BY GrownIs
<1>2. IsList(<<>>) /\ Len(<<>>) = 0 /\ y - x = 0
  BY ListLen DEF New
<1>3. x = y
  BY <1>1, <1>2
<1>4. LevelCount(Len(e), l + 1) = x \div TileWidth /\ LevelCount(Len(f), l + 1) = y \div TileWidth
  BY GrownIs, LevelCounts
<1>5. TileWidth \in Nat /\ 0 < TileWidth
  BY Units
<1>6. 0 \div TileWidth = 0 /\ x \div TileWidth \in Nat
  BY <1>1, <1>5
<1>7. IsList(c) /\ Len(c) = 0
  <2>1. IsList(c) /\ Len(c) = Len(<<>>) \div TileWidth
    BY <1>2, CompletedAre
  <2> QED BY <2>1, <1>2, <1>6
<1>8. Len(c) = LevelCount(Len(f), l + 1) - LevelCount(Len(e), l + 1)
  <2> HIDE DEF x, y, c
  <2> QED BY <1>3, <1>4, <1>6, <1>7
<1>9. \A q \in 1..Len(c) : FALSE
  BY <1>7
<1> HIDE DEF c
<1>10. New(c, e, f, "tile", l + 1)
  BY <1>7, <1>8, <1>9 DEF New
<1> QED BY <1>3, <1>10 DEF c, x, y

LEMMA FreshHolds ==
  ASSUME NEW dir, NEW e, NEW b, IsList(e), IsList(b), Holds(dir, e)
  PROVE  \A l \in Nat : New(Fresh(dir, Len(e), Hashes(b))[l], e, e \o b, "tile", l)
<1> DEFINE f == e \o b
           F == Fresh(dir, Len(e), Hashes(b))
           S == {l \in Nat : New(F[l], e, f, "tile", l)}
<1>1. Grown(e, f) /\ Len(e) \in Nat /\ IsList(Hashes(b))
  BY Together, ListLen, HashesAre
<1>2. F[0] = Hashes(b) /\ \A l \in Nat : F[l + 1] = Completed(ToWrite(dir, Len(e), l, F[l]))
  <2>1. ASSUME NEW l \in Nat
        PROVE  F[0] = Hashes(b) /\ F[l + 1] = Completed(ToWrite(dir, Len(e), l, F[l]))
    BY FreshEquation
  <2> QED BY <2>1
<1>3. New(Hashes(b), e, f, "tile", 0)
  BY NewEntries
<1> HIDE DEF F, f
<1>4. 0 \in S
  BY <1>2, <1>3
<1>5. ASSUME NEW l \in Nat, l \in S PROVE l + 1 \in S
  <2> DEFINE p == ToWrite(dir, Len(e), l, F[l])
  <2>1. New(F[l], e, f, "tile", l)
    BY <1>5
  <2>2. IsList(F[l])
    BY <2>1 DEF New
  <2>3. /\ F[l] = <<>> => p = <<>>
        /\ F[l] # <<>> => PendingHolds(p, Len(e), l, FirstTile(dir, Len(e), l), F[l])
    BY <1>1, <2>2, ToWriteIs
  <2>4. FirstTile(dir, Len(e), l) = Read(dir, FirstName(e, "tile", l))
    BY <1>1, FirstFilesRead
  <2>5. Kind("tile", l)
    BY DEF Kind
  <2> HIDE DEF p
  <2>6. CASE F[l] = <<>>
    <3>1. New(Completed(<<>>), e, f, "tile", l + 1)
      BY <1>1, <2>1, <2>6, NothingNew
    <3>2. New(F[l + 1], e, f, "tile", l + 1)
      BY <3>1, <2>3, <2>6, <1>2 DEF p
    <3> QED BY <3>2
  <2>7. CASE F[l] # <<>>
    <3>1. Stores(p, e, f, "tile", l)
      <4> DEFINE g == F[l]
      <4>1. New(g, e, f, "tile", l) /\ PendingHolds(p, Len(e), l, Read(dir, FirstName(e, "tile", l)), g)
        BY <2>1, <2>3, <2>4, <2>7
      <4> HIDE DEF g
      <4> QED BY <1>1, <2>5, <4>1, PendingStores
    <3>2. New(Completed(p), e, f, "tile", l + 1)
      BY <1>1, <3>1, CompletedIsNew
    <3>3. New(F[l + 1], e, f, "tile", l + 1)
      BY <3>2, <1>2 DEF p
    <3> QED BY <3>3
  <2> QED BY <2>6, <2>7
<1>6. Nat \subseteq S
  <2> HIDE DEF S
  <2> QED BY <1>4, <1>5, PowR!SetInduction
<1> QED BY <1>6 DEF F, f

-----------------------------------------------------------------------------
Owed(x, f) == IsFile(x.name, Len(f)) /\ Holding(x.data, x.name, f)

\* A place in what is stored from the first file on, and in its files.
LEMMA FilePlaces ==
  ASSUME NEW e, NEW f, Grown(e, f), NEW l \in Nat, NEW p, NEW kind, Stores(p, e, f, kind, l), NEW i \in Nat
  PROVE  LET k == FirstFile(Len(e), l)  y == LevelCount(Len(f), l) IN
         /\ k \in Nat /\ Len(p) \in Nat /\ i * TileWidth \in Nat /\ (k + i) * TileWidth \in Nat
         /\ k * TileWidth \in Nat /\ (k + i) * TileWidth = k * TileWidth + i * TileWidth
         /\ Len(p) = y - k * TileWidth
         /\ (k + i) * TileWidth < y <=> i * TileWidth < Len(p)
         /\ WidthOf(Len(f), l, k + i) = Room(Len(p), i)
<1> DEFINE k == FirstFile(Len(e), l)
           y == LevelCount(Len(f), l)
           u == k * TileWidth
           v == i * TileWidth
           z == (k + i) * TileWidth
<1>1. TileWidth \in Nat /\ 0 < TileWidth /\ y \in Nat
  BY Units, GrownIs
<1>2. k \in Nat /\ u \in Nat
  BY GrownIs, FirstFileIs
<1>3. Len(p) = y - u /\ Len(p) \in Nat
  BY ListLen DEF Stores
<1>4. v \in Nat
  BY <1>1, TimesIs
<1>5. z = u + v
  <2> HIDE DEF k
  <2> QED BY <1>1, <1>2
<1>6. WidthOf(Len(f), l, k + i) = Room(y, k + i)
  BY WidthIsRoom
<1>7. Room(y, k + i) = IF y - z < TileWidth THEN y - z ELSE TileWidth
  BY DEF Room
<1>8. Room(Len(p), i) = IF Len(p) - v < TileWidth THEN Len(p) - v ELSE TileWidth
  BY DEF Room
<1> HIDE DEF k, y, u, v, z
<1>9. z \in Nat /\ (z < y <=> v < Len(p)) /\ y - z = Len(p) - v
  BY <1>1, <1>2, <1>3, <1>4, <1>5
<1>10. WidthOf(Len(f), l, k + i) = Room(Len(p), i)
  BY <1>6, <1>7, <1>8, <1>9
<1> QED BY <1>2, <1>3, <1>4, <1>5, <1>9, <1>10 DEF k, y, u, v, z

LEMMA WriteIsFile ==
  ASSUME NEW e, NEW f, Grown(e, f), NEW kind, NEW l \in Nat, Kind(kind, l), NEW p, Stores(p, e, f, kind, l),
         NEW i \in Nat, i * TileWidth < Len(p), NEW x, WriteIs(x, kind, Len(e), l, p, i)
  PROVE  Owed(x, f)
<1> DEFINE k == FirstFile(Len(e), l)
           y == LevelCount(Len(f), l)
           n == k + i
           r == Room(Len(p), i)
<1>1. /\ k \in Nat /\ Len(p) \in Nat /\ i * TileWidth \in Nat /\ k * TileWidth \in Nat
      /\ n * TileWidth = k * TileWidth + i * TileWidth /\ Len(p) = y - k * TileWidth
      /\ n * TileWidth < y /\ WidthOf(Len(f), l, n) = r
  BY FilePlaces
<1>2. r \in 1..TileWidth /\ i * TileWidth + r <= Len(p)
  BY <1>1, RoomIs
<1>3. /\ x.name = [kind |-> kind, level |-> l, n |-> n, width |-> r]
      /\ IsList(x.data) /\ Len(x.data) = r
      /\ \A j \in 1..r : x.data[j] = p[i * TileWidth + j]
  BY DEF WriteIs
<1>4. TileWidth \in Nat
  BY Units
<1>5. ASSUME NEW j \in 1..r PROVE x.data[j] = Value(f, kind, l, n * TileWidth + (j - 1))
  <2> DEFINE v == i * TileWidth
             u == k * TileWidth
  <2>1. x.data[j] = p[v + j]
    BY <1>3
  <2>2. /\ v \in Nat /\ u \in Nat /\ n * TileWidth = u + v /\ v + r <= Len(p) /\ r \in Nat /\ Len(p) \in Nat
    BY <1>1, <1>2, <1>4
  <2>3. \A q \in 1..Len(p) : p[q] = Value(f, kind, l, u + (q - 1))
    BY DEF Stores
  <2> HIDE DEF v, u, r, n
  <2>4. v + j \in 1..Len(p) /\ u + ((v + j) - 1) = (u + v) + (j - 1)
    BY <2>2
  <2> QED BY <2>1, <2>2, <2>3, <2>4
<1> HIDE DEF n, r, y
<1>6. x.name.kind = kind /\ x.name.level = l /\ x.name.n = n /\ x.name.width = r
  BY <1>3
<1>7. n \in Nat
  BY <1>1 DEF n
<1>8. IsFile(x.name, Len(f))
  BY <1>1, <1>3, <1>6, <1>7 DEF IsFile, y
<1>9. Holding(x.data, x.name, f)
  BY <1>3, <1>5, <1>6 DEF Holding
<1> QED BY <1>8, <1>9 DEF Owed

\* A file of the longer log is one of e, or begins at or after the first file written.
LEMMA FilesAreWritten ==
  ASSUME NEW e, NEW f, Grown(e, f), NEW name, IsFile(name, Len(f)), ~IsFile(name, Len(e)),
         NEW p, Stores(p, e, f, name.kind, name.level)
  PROVE  \E i \in Nat :
           /\ i * TileWidth < Len(p)
           /\ name = [kind |-> name.kind, level |-> name.level, n |-> FirstFile(Len(e), name.level) + i,
                      width |-> Room(Len(p), i)]
<1> DEFINE l == name.level
           k == FirstFile(Len(e), l)
           x == LevelCount(Len(e), l)
           y == LevelCount(Len(f), l)
           n == name.n
<1>1. /\ name = [kind |-> name.kind, level |-> l, n |-> n, width |-> name.width]
      /\ Kind(name.kind, l) /\ l \in Nat /\ n \in Nat
      /\ n * TileWidth < y /\ name.width = WidthOf(Len(f), l, n)
  BY DEF IsFile
<1>2. x \in Nat /\ y \in Nat /\ x <= y /\ TileWidth \in Nat /\ 0 < TileWidth
  BY <1>1, GrownIs, Units
<1>3. k \in Nat /\ Started(Len(e), l) \in Nat /\ k * TileWidth \in Nat /\ x = k * TileWidth + Started(Len(e), l)
  BY <1>1, GrownIs, FirstFileIs
<1>4. n >= k
  <2> SUFFICES ASSUME n < k PROVE FALSE
    BY <1>1, <1>3
  <2>1. (n + 1) * TileWidth <= k * TileWidth /\ n * TileWidth \in Nat /\ (n + 1) * TileWidth = n * TileWidth + TileWidth
    <3>1. n + 1 <= k /\ n + 1 \in Nat
      BY <1>1, <1>3
    <3> HIDE DEF n, k
    <3> QED BY <3>1, <1>1, <1>2, <1>3, Monotone, TimesIs
  <2>2. Room(x, n) = TileWidth /\ Room(y, n) = TileWidth /\ n * TileWidth < x
    <3> DEFINE z == n * TileWidth
               u == k * TileWidth
    <3>1. z \in Nat /\ u \in Nat /\ z + TileWidth <= u /\ x = u + Started(Len(e), l) /\ Started(Len(e), l) \in Nat
      BY <1>3, <2>1
    <3> HIDE DEF z, u, x, y, l
    <3>2. ~(x - z < TileWidth) /\ ~(y - z < TileWidth) /\ z < x
      BY <3>1, <1>2
    <3> QED BY <3>2 DEF Room, z
  <2>3. WidthOf(Len(e), l, n) = name.width
    BY <1>1, <2>2, WidthIsRoom
  <2>4. IsFile(name, Len(e))
    BY <1>1, <2>2, <2>3 DEF IsFile
  <2> QED BY <2>4
<1> DEFINE i == n - k
<1>5. i \in Nat /\ k + i = n
  BY <1>1, <1>3, <1>4
<1> HIDE DEF i
<1>6. i * TileWidth < Len(p) /\ WidthOf(Len(f), l, n) = Room(Len(p), i)
  <2>1. /\ (k + i) * TileWidth < y <=> i * TileWidth < Len(p)
        /\ WidthOf(Len(f), l, k + i) = Room(Len(p), i)
    BY <1>1, <1>5, FilePlaces
  <2> QED BY <2>1, <1>1, <1>5
<1> QED BY <1>1, <1>5, <1>6

\* A level with as many values as before has the same files.
LEMMA SameCountSameFiles ==
  ASSUME NEW m, NEW n, NEW name, IsFile(name, n), LevelCount(m, name.level) = LevelCount(n, name.level)
  PROVE  IsFile(name, m)
BY WidthIsRoom DEF IsFile

LEMMA AmongWrites ==
  ASSUME NEW s, NEW kind, NEW old, NEW l, NEW p, WritesAre(s, kind, old, l, p)
  PROVE  \A x : Among(x, s) <=> \E i \in Nat : i * TileWidth < Len(p) /\ s[i + 1] = x
<1>1. Len(s) \in Nat
  BY ListLen DEF WritesAre
<1>2. ASSUME NEW x, NEW j \in 1..Len(s), s[j] = x
      PROVE  \E i \in Nat : i * TileWidth < Len(p) /\ s[i + 1] = x
  <2> DEFINE i == j - 1
  <2>1. i \in Nat /\ i + 1 = j
    BY <1>1
  <2> HIDE DEF i
  <2>2. i * TileWidth < Len(p)
    BY <2>1 DEF WritesAre
  <2> QED BY <2>1, <2>2, <1>2
<1>3. ASSUME NEW x, NEW i \in Nat, i * TileWidth < Len(p), s[i + 1] = x
      PROVE  Among(x, s)
  BY <1>3 DEF WritesAre, Among
<1> QED BY <1>2, <1>3 DEF Among

\* The writes of one level, when there is something new on it.
LEMMA WritesOfLevel ==
  ASSUME NEW e, NEW f, Grown(e, f), NEW kind, NEW l \in Nat, Kind(kind, l), NEW p, Stores(p, e, f, kind, l),
         NEW s, WritesAre(s, kind, Len(e), l, p)
  PROVE  /\ \A x : Among(x, s) => Owed(x, f)
         /\ \A name : IsFile(name, Len(f)) /\ ~IsFile(name, Len(e)) /\ name.kind = kind /\ name.level = l =>
              \E x : Among(x, s) /\ x.name = name
<1>1. \A x : Among(x, s) <=> \E i \in Nat : i * TileWidth < Len(p) /\ s[i + 1] = x
  BY AmongWrites
<1>2. \A i \in Nat : i * TileWidth < Len(p) => WriteIs(s[i + 1], kind, Len(e), l, p, i)
  BY DEF WritesAre
<1>3. ASSUME NEW x, Among(x, s) PROVE Owed(x, f)
  <2>1. PICK i \in Nat : i * TileWidth < Len(p) /\ s[i + 1] = x
    BY <1>1, <1>3
  <2>2. WriteIs(x, kind, Len(e), l, p, i)
    BY <1>2, <2>1
  <2> QED BY <2>1, <2>2, WriteIsFile
<1>4. ASSUME NEW name, IsFile(name, Len(f)), ~IsFile(name, Len(e)), name.kind = kind, name.level = l
      PROVE  \E x : Among(x, s) /\ x.name = name
  <2>1. PICK i \in Nat :
          /\ i * TileWidth < Len(p)
          /\ name = [kind |-> name.kind, level |-> name.level, n |-> FirstFile(Len(e), name.level) + i,
                     width |-> Room(Len(p), i)]
    <3>1. Stores(p, e, f, name.kind, name.level)
      BY <1>4
    <3> QED BY <1>4, <3>1, FilesAreWritten
  <2>2. WriteIs(s[i + 1], kind, Len(e), l, p, i) /\ Among(s[i + 1], s)
    BY <1>1, <1>2, <2>1
  <2>3. s[i + 1].name = name
    BY <1>4, <2>1, <2>2 DEF WriteIs
  <2> QED BY <2>2, <2>3
<1> QED BY <1>3, <1>4

LEMMA NothingWritten ==
  ASSUME NEW s, NEW kind, NEW old, NEW l, WritesAre(s, kind, old, l, <<>>), NEW x
  PROVE  ~Among(x, s)
<1>1. \A i \in Nat : ~(i * TileWidth < Len(<<>>))
  <2> TAKE i \in Nat
  <2>1. i * TileWidth \in Nat /\ Len(<<>>) = 0
    BY Units, TimesIs
  <2> QED BY <2>1
<1> QED BY <1>1, AmongWrites

LEMMA WritesAreRight ==
  ASSUME NEW dir, NEW e, NEW b, IsList(e), IsList(b), Holds(dir, e)
  PROVE  LET s == Writes(dir, Len(e), b)  f == e \o b IN
         /\ IsList(s)
         /\ \A x : Among(x, s) => Owed(x, f)
         /\ \A name : IsFile(name, Len(f)) /\ ~IsFile(name, Len(e)) => \E x : Among(x, s) /\ x.name = name
<1> DEFINE f == e \o b
           old == Len(e)
           F == Fresh(dir, old, Hashes(b))
           bs == BundleWrites(dir, old, b)
           ts == TileWrites(dir, old, Hashes(b))
           Lev(l) == LevelWrites(dir, old, l, F[l])
           P(l) == ToWrite(dir, old, l, F[l])
           bp == ToBundle(dir, old, b)
<1>1. /\ Grown(e, f) /\ old \in Nat /\ Len(b) \in Nat /\ Len(f) = old + Len(b)
      /\ IsList(Hashes(b)) /\ Len(Hashes(b)) = Len(b)
  BY Together, ListLen, HashesAre
<1>2. \A l \in Nat : New(F[l], e, f, "tile", l) /\ IsList(F[l])
  <2>1. \A l \in Nat : New(F[l], e, f, "tile", l)
    BY FreshHolds
  <2> HIDE DEF F, f
  <2> QED BY <2>1 DEF New
<1>3. Kind("entries", 0) /\ \A l \in Nat : Kind("tile", l)
  BY DEF Kind
<1>4. WritesAre(bs, "entries", old, 0, bp) /\ Stores(bp, e, f, "entries", 0)
  <2>1. WritesAre(bs, "entries", old, 0, bp)
    BY <1>1, BundleWritesAre
  <2>2. PendingHolds(bp, old, 0, FirstBundle(dir, old), b)
    BY <1>1, ToBundleIs
  <2>3. FirstBundle(dir, old) = Read(dir, FirstName(e, "entries", 0))
    BY <1>1, FirstFilesRead
  <2>4. New(b, e, f, "entries", 0)
    BY NewEntries
  <2>5. PendingHolds(bp, old, 0, Read(dir, FirstName(e, "entries", 0)), b)
    BY <2>2, <2>3
  <2> HIDE DEF bp, f
  <2>6. Stores(bp, e, f, "entries", 0)
    BY <1>1, <1>3, <2>4, <2>5, PendingStores
  <2> QED BY <2>1, <2>6
<1>5. ASSUME NEW l \in Nat
      PROVE  /\ WritesAre(Lev(l), "tile", old, l, P(l))
             /\ F[l] = <<>> => P(l) = <<>> /\ LevelCount(Len(f), l) = LevelCount(old, l)
             /\ F[l] # <<>> => Stores(P(l), e, f, "tile", l)
  <2> DEFINE g == F[l]
             p == ToWrite(dir, old, l, g)
  <2>1. New(g, e, f, "tile", l) /\ IsList(g)
    BY <1>2
  <2> HIDE DEF g, f
  <2>2. WritesAre(LevelWrites(dir, old, l, g), "tile", old, l, p)
    BY <1>1, <2>1, LevelWritesAre
  <2>3. /\ g = <<>> => p = <<>>
        /\ g # <<>> => PendingHolds(p, old, l, FirstTile(dir, old, l), g)
    BY <1>1, <2>1, ToWriteIs
  <2>4. FirstTile(dir, old, l) = Read(dir, FirstName(e, "tile", l))
    BY <1>1, FirstFilesRead
  <2>5. ASSUME g = <<>> PROVE LevelCount(Len(f), l) = LevelCount(old, l)
    BY <1>1, <2>1, <2>5, NothingNew
  <2> HIDE DEF p
  <2>6. ASSUME g # <<>> PROVE Stores(p, e, f, "tile", l)
    <3>1. PendingHolds(p, old, l, Read(dir, FirstName(e, "tile", l)), g)
      BY <2>3, <2>4, <2>6
    <3> QED BY <1>1, <1>3, <2>1, <3>1, PendingStores
  <2> QED BY <2>2, <2>3, <2>5, <2>6 DEF g, p
<1>6. /\ IsList(ts)
      /\ \A x : Among(x, ts) <=> \E l \in Nat : l < old + Len(Hashes(b)) /\ Among(x, Lev(l))
  BY <1>1, TileWritesAre
<1>7. IsList(bs)
  BY <1>4 DEF WritesAre
<1>8. Writes(dir, old, b) = bs \o ts
  BY DEF Writes
<1> HIDE DEF bs, ts, Lev, P, F, bp, f
<1>9. IsList(bs \o ts) /\ \A x : Among(x, bs \o ts) <=> Among(x, bs) \/ Among(x, ts)
  BY <1>6, <1>7, ConcatIs, AmongBoth
<1>10. /\ \A x : Among(x, bs) => Owed(x, f)
       /\ \A name : IsFile(name, Len(f)) /\ ~IsFile(name, old) /\ name.kind = "entries" /\ name.level = 0 =>
            \E x : Among(x, bs) /\ x.name = name
  BY <1>1, <1>3, <1>4, WritesOfLevel
<1>11. ASSUME NEW l \in Nat
       PROVE  /\ \A x : Among(x, Lev(l)) => Owed(x, f)
              /\ \A name : IsFile(name, Len(f)) /\ ~IsFile(name, old) /\ name.kind = "tile" /\ name.level = l =>
                   \E x : Among(x, Lev(l)) /\ x.name = name
  <2>1. CASE F[l] = <<>>
    <3>1. \A x : ~Among(x, Lev(l))
      BY <1>5, <2>1, NothingWritten
    <3>2. \A name : IsFile(name, Len(f)) /\ name.level = l => IsFile(name, old)
      BY <1>5, <2>1, SameCountSameFiles
    <3> QED BY <3>1, <3>2
  <2>2. CASE F[l] # <<>>
    <3> DEFINE s == Lev(l)
               p == P(l)
    <3>1. WritesAre(s, "tile", old, l, p) /\ Stores(p, e, f, "tile", l)
      BY <1>5, <2>2
    <3> HIDE DEF s, p
    <3>2. /\ \A x : Among(x, s) => Owed(x, f)
          /\ \A name : IsFile(name, Len(f)) /\ ~IsFile(name, old) /\ name.kind = "tile" /\ name.level = l =>
               \E x : Among(x, s) /\ x.name = name
      BY <1>1, <1>3, <3>1, WritesOfLevel
    <3> QED BY <3>2 DEF s
  <2> QED BY <2>1, <2>2
<1>12. ASSUME NEW x, Among(x, bs \o ts) PROVE Owed(x, f)
  BY <1>6, <1>9, <1>10, <1>11, <1>12
<1>13. ASSUME NEW name, IsFile(name, Len(f)), ~IsFile(name, old)
       PROVE  \E x : Among(x, bs \o ts) /\ x.name = name
  <2>1. name.kind \in {"tile", "entries"} /\ (name.kind = "entries" => name.level = 0) /\ name.level \in Nat
    BY <1>13 DEF IsFile, Kind
  <2>2. CASE name.kind = "entries"
    BY <1>9, <1>10, <1>13, <2>1, <2>2
  <2>3. CASE name.kind = "tile"
    <3> DEFINE l == name.level
    <3>1. PICK x : Among(x, Lev(l)) /\ x.name = name
      BY <1>11, <1>13, <2>1, <2>3
    <3>2. l < old + Len(Hashes(b))
      <4>1. name.n * TileWidth < LevelCount(Len(f), l) /\ name.n \in Nat /\ l \in Nat
        BY <1>13 DEF IsFile
      <4>2. name.n * TileWidth \in Nat /\ LevelCount(Len(f), l) \in Nat /\ Len(f) \in Nat
        BY <4>1, <1>1, Units, TimesIs, GrownIs
      <4>3. Len(f) <= l => LevelCount(Len(f), l) = 0
        BY <4>1, <4>2, LevelCounts
      <4> QED BY <4>1, <4>2, <4>3, <1>1
    <3>3. Among(x, ts)
      BY <1>6, <2>1, <3>1, <3>2
    <3> QED BY <1>9, <3>1, <3>3
  <2> QED BY <2>1, <2>2, <2>3
<1> QED BY <1>8, <1>9, <1>12, <1>13 DEF f

-----------------------------------------------------------------------------
(***************************************************************************)
(* What is read back: the entries from one file on, the complete subtrees  *)
(* that the tiles give, and the trees over them.                           *)
(***************************************************************************)
FromBody(p, f, n) ==
  IF n <= p[3] THEN <<>> ELSE f[n - 1] \o EntriesAt(p[1], p[2], n - 1)
FromR == INSTANCE Recursion WITH Dom <- Levels0, Rank <- LevelRank, Body <- FromBody

FromOf(dir, size, first) == CHOOSE f : f = [n \in Nat |-> FromBody(<<dir, size, first>>, f, n)]

LEMMA FromEquation ==
  ASSUME NEW dir, NEW size, NEW first \in Nat
  PROVE  LET from == FromOf(dir, size, first) IN
         /\ from[first] = <<>>
         /\ \A n \in Nat : n >= first => from[n + 1] = from[n] \o EntriesAt(dir, size, n)
<1> DEFINE p == <<dir, size, first>>
           B == FromOf(dir, size, first)
<1>1. FromR!Local(p)
  <2>1. ASSUME NEW x \in Nat, NEW g, NEW h, \A y \in Nat : LevelRank(y) < LevelRank(x) => g[y] = h[y]
        PROVE  FromBody(p, g, x) = FromBody(p, h, x)
    <3>1. CASE x <= p[3]
      BY <3>1 DEF FromBody
    <3>2. CASE ~(x <= p[3])
      <4>1. p[3] = first
        OBVIOUS
      <4>2. x - 1 \in Nat /\ x - 1 < x
        BY <3>2, <4>1
      <4>3. g[x - 1] = h[x - 1]
        BY <2>1, <4>2 DEF LevelRank
      <4> QED BY <3>2, <4>3 DEF FromBody
    <3> QED BY <3>1, <3>2
  <2>2. \A x \in Nat : LevelRank(x) \in Nat
    BY DEF LevelRank
  <2> QED BY <2>1, <2>2, Zenon DEF FromR!Local, Levels0
<1>2. \E f : f = [x \in Nat |-> FromBody(p, f, x)]
  BY <1>1, FromR!Recursive DEF Levels0
<1>3. B = [x \in Nat |-> FromBody(p, B, x)]
  <2> DEFINE Is(f) == f = [x \in Nat |-> FromBody(p, f, x)]
             v == CHOOSE f : Is(f)
  <2>1. Is(v)
    BY <1>2, Zenon
  <2>2. B = v
    BY Zenon DEF FromOf
  <2> QED BY <2>1, <2>2, Zenon
<1> HIDE DEF B
<1>4. B[first] = <<>>
  BY <1>3 DEF FromBody
<1>5. ASSUME NEW n \in Nat, n >= first PROVE B[n + 1] = B[n] \o EntriesAt(dir, size, n)
  <2>1. n + 1 \in Nat /\ ~(n + 1 <= first) /\ (n + 1) - 1 = n
    BY <1>5
  <2>2. B[n + 1] = FromBody(p, B, n + 1)
    BY <1>3, <2>1
  <2>3. FromBody(p, B, n + 1) = B[(n + 1) - 1] \o EntriesAt(dir, size, (n + 1) - 1)
    BY <2>1 DEF FromBody
  <2> QED BY <2>1, <2>2, <2>3
<1> QED BY <1>4, <1>5 DEF B

LEMMA EntriesAtIs ==
  ASSUME NEW dir, NEW size \in Nat, NEW n \in Nat, n * TileWidth < size
  PROVE  IsList(EntriesAt(dir, size, n)) /\ Len(EntriesAt(dir, size, n)) = Room(size, n)
<1> DEFINE name == BundleName(n, WidthOf(size, 0, n))
<1>1. WidthOf(size, 0, n) = Room(size, n)
  BY WidthIsRoom, LevelCounts
<1>2. name.width = Room(size, n)
  BY <1>1 DEF BundleName
<1>3. name.width \in Nat
  <2>1. \A v \in 1..TileWidth : v \in Nat
    BY Units
  <2> QED BY <2>1, <1>2, RoomIs
<1> HIDE DEF name
<1>4. IsList(Read(dir, name)) /\ Len(Read(dir, name)) = name.width
  BY <1>3, ReadIsList
<1> QED BY <1>2, <1>4 DEF EntriesAt, name

LEMMA StoredIs ==
  ASSUME NEW dir, NEW size \in Nat, NEW first \in Nat, first * TileWidth <= size
  PROVE  LET s == StoredFrom(dir, size, first) IN
         /\ IsList(s) /\ Len(s) = size - first * TileWidth
         /\ \A m \in Nat : m >= first /\ m * TileWidth < size =>
              \A j \in 1..Room(size, m) : s[(m - first) * TileWidth + j] = EntriesAt(dir, size, m)[j]
<1> DEFINE B == FromOf(dir, size, first)
           Upto(n) == IF n * TileWidth <= size THEN n * TileWidth ELSE size
           At0(m) == (m - first) * TileWidth
           OK(n) == /\ IsList(B[n]) /\ Len(B[n]) = Upto(n) - first * TileWidth
                    /\ \A m \in Nat : m >= first /\ m < n =>
                         \A j \in 1..Room(size, m) : B[n][At0(m) + j] = EntriesAt(dir, size, m)[j]
           S == {d \in Nat : d = 0 \/ ((first + d) - 1) * TileWidth < size => OK(first + d)}
<1>1. TileWidth \in Nat /\ 0 < TileWidth /\ first * TileWidth \in Nat
  BY Units, TimesIs
<1>2. /\ B[first] = <<>>
      /\ \A n \in Nat : n >= first => B[n + 1] = B[n] \o EntriesAt(dir, size, n)
  BY FromEquation
<1> HIDE DEF B
<1>3. 0 \in S
  <2>1. IsList(<<>>) /\ Len(<<>>) = 0
    <3>1. <<>> \in Seq({})
      OBVIOUS
    <3> QED BY <3>1, SeqIsList
  <2>2. Upto(first) = first * TileWidth /\ first + 0 = first
    OBVIOUS
  <2>3. \A m \in Nat : ~(m >= first /\ m < first)
    OBVIOUS
  <2>4. first * TileWidth - first * TileWidth = 0
    BY <1>1
  <2>5. OK(first)
    BY <1>2, <2>1, <2>2, <2>3, <2>4
  <2> QED BY <2>2, <2>5
<1>4. ASSUME NEW d \in Nat, d \in S, (first + d) * TileWidth < size
      PROVE  OK((first + d) + 1)
  <2> DEFINE n == first + d
             x == n * TileWidth
             y == first * TileWidth
             c == EntriesAt(dir, size, n)
             r == Room(size, n)
             z == (n + 1) * TileWidth
  <2>1. n \in Nat /\ n >= first /\ x \in Nat /\ y \in Nat /\ z = x + TileWidth /\ x < size
    <3>1. n \in Nat /\ n >= first
      OBVIOUS
    <3> HIDE DEF n
    <3> QED BY <3>1, <1>1, <1>4, TimesIs DEF n
  <2>2. y <= x
    <3>1. first <= n
      OBVIOUS
    <3> HIDE DEF n
    <3> QED BY <1>1, <2>1, <3>1, Monotone
  <2>3. OK(n)
    <3>1. CASE d = 0
      BY <1>4, <3>1 DEF S
    <3>2. CASE d # 0
      <4>1. (n - 1) * TileWidth < size
        <5>1. n - 1 \in Nat /\ n - 1 <= n
          BY <3>2
        <5>2. (n - 1) * TileWidth <= n * TileWidth /\ (n - 1) * TileWidth \in Nat
          <6> HIDE DEF n
          <6> QED BY <5>1, <2>1, <1>1, Monotone, TimesIs
        <5> HIDE DEF n
        <5> QED BY <5>2, <2>1
      <4>2. ((first + d) - 1) * TileWidth < size
        BY <4>1
      <4> QED BY <1>4, <4>2 DEF S
    <3> QED BY <3>1, <3>2
  <2>4. IsList(c) /\ Len(c) = r /\ r \in 1..TileWidth /\ (r < TileWidth => x + r = size) /\ x + r <= size
    <3>1. n * TileWidth < size
      BY <1>4
    <3> HIDE DEF n
    <3> QED BY <2>1, <3>1, EntriesAtIs, RoomIs
  <2>5. B[n + 1] = B[n] \o c
    <3> HIDE DEF n, c
    <3> QED BY <1>2, <2>1 DEF c
  <2>6. IsList(B[n]) /\ Len(B[n]) = x - y
    <3>1. Upto(n) = x
      BY <2>1
    <3> HIDE DEF n, x, y, Upto
    <3> QED BY <2>3, <3>1 DEF y
  <2>7. IsList(B[n + 1]) /\ Len(B[n + 1]) = (x - y) + r
        /\ (\A i \in 1..(x - y) : B[n + 1][i] = B[n][i]) /\ (\A i \in 1..r : B[n + 1][(x - y) + i] = c[i])
    <3> DEFINE b == B[n]
    <3>1. IsList(b) /\ IsList(c) /\ Len(b) = x - y /\ Len(c) = r
      BY <2>4, <2>6
    <3>2. B[n + 1] = b \o c
      BY <2>5
    <3> HIDE DEF n, c, x, y, r, b
    <3>3. /\ IsList(b \o c) /\ Len(b \o c) = Len(b) + Len(c)
          /\ \A i \in 1..Len(b) : (b \o c)[i] = b[i]
          /\ \A i \in 1..Len(c) : (b \o c)[Len(b) + i] = c[i]
      BY <3>1, ConcatIs
    <3>4. /\ IsList(B[n + 1]) /\ Len(B[n + 1]) = (x - y) + r
          /\ (\A i \in 1..(x - y) : B[n + 1][i] = b[i]) /\ (\A i \in 1..r : B[n + 1][(x - y) + i] = c[i])
      BY <3>1, <3>2, <3>3
    <3> QED BY <3>4 DEF b
  <2>8. Upto(n + 1) = x + r
    <3>1. Upto(n + 1) = IF z <= size THEN z ELSE size
      OBVIOUS
    <3> HIDE DEF n, x, z, r, Upto
    <3> QED BY <3>1, <2>1, <2>4, <1>1
  <2>9. Len(B[n + 1]) = Upto(n + 1) - y
    <3> HIDE DEF n, x, y, r, Upto
    <3> QED BY <2>1, <2>2, <2>4, <2>7, <2>8, <1>1
  <2>10. ASSUME NEW m \in Nat, m >= first, m < n + 1, NEW j \in 1..Room(size, m)
         PROVE  B[n + 1][At0(m) + j] = EntriesAt(dir, size, m)[j]
    <3>1. CASE m = n
      <4>1. At0(m) = x - y
        <5>1. At0(m) = (n - first) * TileWidth
          BY <3>1
        <5> HIDE DEF n, At0
        <5> QED BY <5>1, <2>1, <1>1 DEF x, y
      <4> HIDE DEF n, At0, x, y, r, c
      <4> QED BY <2>7, <3>1, <4>1 DEF r, c
    <3>2. CASE m # n
      <4>1. m < n /\ m + 1 <= n
        BY <2>1, <2>10, <3>2
      <4>2. B[n][At0(m) + j] = EntriesAt(dir, size, m)[j]
        <5> HIDE DEF n, At0
        <5> QED BY <2>3, <2>10, <4>1
      <4>3. At0(m) + j \in 1..(x - y)
        <5> DEFINE q == m - first
                   w == q * TileWidth
        <5>1. q \in Nat /\ q + 1 <= n - first /\ n - first \in Nat
          BY <2>10, <4>1, <2>1
        <5>2. (q + 1) * TileWidth <= (n - first) * TileWidth /\ w \in Nat /\ (q + 1) * TileWidth = w + TileWidth
          <6> HIDE DEF q, n
          <6> QED BY <1>1, <5>1, Monotone, TimesIs
        <5>3. (n - first) * TileWidth = x - y
          <6> HIDE DEF n
          <6> QED BY <1>1, <2>1 DEF x, y
        <5>4. Room(size, m) <= TileWidth /\ Room(size, m) \in Nat
          <6>1. m * TileWidth <= n * TileWidth /\ m * TileWidth \in Nat
            <7> HIDE DEF n
            <7> QED BY <1>1, <2>1, <4>1, Monotone, TimesIs
          <6>2. m * TileWidth < size
            <7> HIDE DEF n
            <7> QED BY <6>1, <2>1 DEF x
          <6> QED BY <1>1, <6>2, RoomIs
        <5>5. At0(m) = w
          OBVIOUS
        <5> HIDE DEF w, x, y, n, q, At0
        <5> QED BY <1>1, <2>1, <2>2, <5>2, <5>3, <5>4, <5>5
      <4> HIDE DEF n, At0, x, y
      <4> QED BY <2>7, <4>2, <4>3
    <3> QED BY <3>1, <3>2
  <2> HIDE DEF n, At0, Upto
  <2>11. OK(n + 1)
    BY <2>7, <2>9, <2>10
  <2> QED BY <2>11 DEF n
<1>5. ASSUME NEW d \in Nat, d \in S PROVE d + 1 \in S
  <2>1. first + (d + 1) = (first + d) + 1 /\ (first + (d + 1)) - 1 = first + d
    OBVIOUS
  <2>2. (first + d) * TileWidth < size => OK((first + d) + 1)
    BY <1>4, <1>5
  <2>3. d + 1 # 0 /\ d + 1 \in Nat
    OBVIOUS
  <2> HIDE DEF OK
  <2> QED BY <2>1, <2>2, <2>3
<1>6. Nat \subseteq S
  <2> HIDE DEF S
  <2> QED BY <1>3, <1>5, PowR!SetInduction
<1> DEFINE c == FilesIn(size, 0)
<1>7. StoredFrom(dir, size, first) = B[c]
  BY Zenon DEF StoredFrom, FromOf, FromBody, B
<1>8. c \in Nat /\ \A i \in Nat : i + 1 <= c <=> i * TileWidth < size
  <2>1. FilesIn(size, 0) = (size + TileWidth - 1) \div TileWidth
    BY LevelCounts DEF FilesIn
  <2> HIDE DEF c
  <2> QED BY <2>1, FilesFor DEF c
<1> HIDE DEF c
<1>9. first <= c
  <2> SUFFICES ASSUME first > c PROVE FALSE
    BY <1>8
  <2>1. ~(c * TileWidth < size)
    <3>1. ~(c + 1 <= c)
      BY <1>8
    <3> QED BY <1>8, <3>1
  <2>2. (c + 1) * TileWidth <= first * TileWidth /\ (c + 1) * TileWidth = c * TileWidth + TileWidth /\ c * TileWidth \in Nat
    BY <1>1, <1>8, Monotone, TimesIs
  <2> DEFINE x == c * TileWidth
             y == first * TileWidth
  <2>3. x \in Nat /\ y \in Nat /\ x + TileWidth <= y /\ y <= size /\ ~(x < size)
    BY <1>1, <2>1, <2>2
  <2> HIDE DEF x, y
  <2> QED BY <2>3, <1>1
<1> DEFINE d == c - first
<1>10. d \in Nat /\ first + d = c
  BY <1>8, <1>9
<1>11. d = 0 \/ ((first + d) - 1) * TileWidth < size
  <2>1. ASSUME d # 0 PROVE (c - 1) * TileWidth < size
    <3>1. c - 1 \in Nat /\ (c - 1) + 1 <= c
      BY <1>8, <1>10, <2>1
    <3> QED BY <3>1, <1>8
  <2> QED BY <2>1, <1>10
<1>12. OK(c)
  <2>1. d \in S
    BY <1>6, <1>10
  <2> HIDE DEF OK, d
  <2> QED BY <2>1, <1>10, <1>11
<1>13. Upto(c) = size
  <2>1. ~(c * TileWidth < size) /\ c * TileWidth \in Nat
    <3>1. ~(c + 1 <= c)
      BY <1>8
    <3> QED BY <1>1, <1>8, <3>1, TimesIs
  <2> QED BY <2>1
<1>14. ASSUME NEW m \in Nat, m >= first, m * TileWidth < size PROVE m < c
  BY <1>8, <1>14
<1> HIDE DEF Upto
<1> QED BY <1>7, <1>12, <1>13, <1>14

-----------------------------------------------------------------------------
(***************************************************************************)
(* TilesHold: the tiles of a tree of `size` leaves hold the hashes of its  *)
(* complete subtrees, and the view gives every tree over them.             *)
(***************************************************************************)
TilesHold(dir, size, g) ==
  /\ \A i \in 1..size : g[i] # Missing
  /\ \A l, n \in Nat : n * TileWidth < LevelCount(size, l) =>
       \A j \in 1..WidthOf(size, l, n) :
         TileAt(dir, size, l, n)[j] = Mth(g)[<<(n * TileWidth + (j - 1)) * Unit(l), Unit(l)>>]

NodeBody(p, f, a) ==
  IF a[1] % TileHeight = 0
    THEN TileAt(p[1], p[2], a[1] \div TileHeight, a[2] \div TileWidth)[(a[2] % TileWidth) + 1]
    ELSE Joined(f[<<a[1] - 1, 2 * a[2]>>], f[<<a[1] - 1, 2 * a[2] + 1>>])
NodeRank(a) == a[1]
NodeR == INSTANCE Recursion WITH Dom <- Ranges, Rank <- NodeRank, Body <- NodeBody

LEMMA NodeEquation ==
  ASSUME NEW dir, NEW size, NEW a \in Nat \X Nat
  PROVE  NodeAt(dir, size)[a] = NodeBody(<<dir, size>>, NodeAt(dir, size), a)
<1> DEFINE p == <<dir, size>>
<1>1. NodeR!Local(p)
  <2>1. ASSUME NEW x \in Nat \X Nat, NEW g, NEW h,
               \A y \in Nat \X Nat : NodeRank(y) < NodeRank(x) => g[y] = h[y]
        PROVE  NodeBody(p, g, x) = NodeBody(p, h, x)
    <3>1. CASE x[1] % TileHeight = 0
      BY <3>1 DEF NodeBody
    <3>2. CASE x[1] % TileHeight # 0
      <4>1. x[1] \in Nat /\ x[2] \in Nat /\ x[1] # 0
        <5>1. x[1] \in Nat /\ x[2] \in Nat /\ TileHeight \in Nat /\ 0 < TileHeight
          BY Units
        <5>2. 0 % TileHeight = 0
          BY <5>1
        <5> QED BY <3>2, <5>1, <5>2
      <4>2. <<x[1] - 1, 2 * x[2]>> \in Nat \X Nat /\ <<x[1] - 1, 2 * x[2] + 1>> \in Nat \X Nat
        BY <4>1
      <4>3. \A k : NodeRank(<<x[1] - 1, k>>) < NodeRank(x)
        BY <4>1 DEF NodeRank
      <4>4. g[<<x[1] - 1, 2 * x[2]>>] = h[<<x[1] - 1, 2 * x[2]>>]
            /\ g[<<x[1] - 1, 2 * x[2] + 1>>] = h[<<x[1] - 1, 2 * x[2] + 1>>]
        BY <2>1, <4>2, <4>3
      <4> QED BY <3>2, <4>4 DEF NodeBody
    <3> QED BY <3>1, <3>2
  <2>2. \A x \in Nat \X Nat : NodeRank(x) \in Nat
    BY DEF NodeRank
  <2> QED BY <2>1, <2>2, Zenon DEF NodeR!Local, Ranges
<1>2. \E f : f = [x \in Nat \X Nat |-> NodeBody(p, f, x)]
  BY <1>1, NodeR!Recursive DEF Ranges
<1>3. NodeAt(dir, size) = [x \in Nat \X Nat |-> NodeBody(p, NodeAt(dir, size), x)]
  <2> DEFINE Is(f) == f = [x \in Nat \X Nat |-> NodeBody(p, f, x)]
             v == CHOOSE f : Is(f)
  <2>1. Is(v)
    BY <1>2, Zenon
  <2>2. NodeAt(dir, size) = v
    BY Zenon DEF NodeAt, NodeBody
  <2> QED BY <2>1, <2>2, Zenon
<1> QED BY <1>3

\* A tree over hashes that can be read can be read.
LEMMA MthIsRead ==
  ASSUME NEW g, NEW size \in Nat, \A i \in 1..size : g[i] # Missing, NEW s \in Nat, NEW w \in Nat, s + w <= size
  PROVE  Mth(g)[<<s, w>>] # Missing
<1>1. Mth(g)[<<s, w>>] = MthBody(g, Mth(g), <<s, w>>)
  BY MthEquation
<1>2. CASE w = 0
  BY <1>1, <1>2 DEF MthBody, EmptyRoot, Missing
<1>3. CASE w = 1
  <2>1. s + 1 \in 1..size
    BY <1>3
  <2> QED BY <1>1, <1>3, <2>1 DEF MthBody
<1>4. CASE w > 1
  BY <1>1, <1>4 DEF MthBody, node_hash, Missing
<1> QED BY <1>2, <1>3, <1>4

LEMMA JoinedIs ==
  ASSUME NEW l, NEW r, l # Missing, r # Missing
  PROVE  Joined(l, r) = node_hash(l, r)
BY DEF Joined

LEMMA NodeIs ==
  ASSUME NEW dir, NEW size \in Nat, NEW g, TilesHold(dir, size, g)
  PROVE  \A h, k \in Nat : (k + 1) * Pow2[h] <= size =>
           NodeAt(dir, size)[<<h, k>>] = Mth(g)[<<k * Pow2[h], Pow2[h]>>]
<1> DEFINE node == NodeAt(dir, size)
           OK(h, k) == node[<<h, k>>] = Mth(g)[<<k * Pow2[h], Pow2[h]>>]
           S == {h \in Nat : \A k \in Nat : (k + 1) * Pow2[h] <= size => OK(h, k)}
<1>0. TileHeight \in Nat /\ 0 < TileHeight /\ TileWidth \in Nat /\ 0 < TileWidth
  BY Units
<1>1. ASSUME NEW h \in Nat, h % TileHeight = 0, NEW k \in Nat, (k + 1) * Pow2[h] <= size
      PROVE  OK(h, k)
  <2> DEFINE l == h \div TileHeight
             n == k \div TileWidth
             r == k % TileWidth
             x == LevelCount(size, l)
  <2>1. l \in Nat /\ h = TileHeight * l
    <3>1. l \in Nat /\ h = l * TileHeight + (h % TileHeight)
      BY <1>0, DivIs
    <3> HIDE DEF l
    <3>2. l * TileHeight = TileHeight * l /\ l * TileHeight \in Nat
      BY <1>0, <3>1, TimesIs
    <3> QED BY <1>1, <3>1, <3>2
  <2>2. Pow2[h] = Unit(l)
    <3> HIDE DEF l
    <3> QED BY <2>1 DEF Unit
  <2>3. n \in Nat /\ r \in Nat /\ r < TileWidth /\ k = n * TileWidth + r
    BY <1>0, DivIs
  <2>4. x \in Nat /\ k + 1 <= x
    <3> HIDE DEF l
    <3>1. k + 1 \in Nat /\ (k + 1) * Unit(l) <= size
      BY <1>1, <2>2
    <3> QED BY <2>1, <3>1, LevelCounts
  <2>5. n * TileWidth \in Nat /\ n * TileWidth < x
    <3>1. n * TileWidth \in Nat
      <4> HIDE DEF n
      <4> QED BY <1>0, <2>3, TimesIs
    <3> HIDE DEF n, r, x
    <3> QED BY <2>3, <2>4, <3>1
  <2>6. r + 1 \in 1..WidthOf(size, l, n)
    <3> DEFINE u == n * TileWidth
    <3>1. WidthOf(size, l, n) = IF x - u < TileWidth THEN x - u ELSE TileWidth
      BY DEF WidthOf
    <3>2. u \in Nat /\ k = u + r /\ r \in Nat /\ r < TileWidth /\ k + 1 <= x /\ x \in Nat
      BY <2>3, <2>4, <2>5
    <3> HIDE DEF u, x, r, n, l
    <3> QED BY <1>0, <3>1, <3>2
  <2>7. node[<<h, k>>] = TileAt(dir, size, l, n)[r + 1]
    <3>1. node[<<h, k>>] = NodeBody(<<dir, size>>, node, <<h, k>>)
      BY NodeEquation
    <3> HIDE DEF node
    <3> QED BY <1>1, <3>1 DEF NodeBody
  <2>8. TileAt(dir, size, l, n)[r + 1] = Mth(g)[<<(n * TileWidth + ((r + 1) - 1)) * Unit(l), Unit(l)>>]
    <3> DEFINE j == r + 1
    <3>1. j \in 1..WidthOf(size, l, n)
      BY <2>6
    <3> HIDE DEF j, l, n, r
    <3>2. TileAt(dir, size, l, n)[j] = Mth(g)[<<(n * TileWidth + (j - 1)) * Unit(l), Unit(l)>>]
      BY <2>1, <2>3, <2>5, <3>1 DEF TilesHold, x
    <3> QED BY <3>2 DEF j
  <2>9. n * TileWidth + ((r + 1) - 1) = k
    <3> HIDE DEF n, r
    <3> QED BY <2>3, <2>5
  <2> HIDE DEF node, l, n, r
  <2> QED BY <2>2, <2>7, <2>8, <2>9
<1>2. ASSUME NEW h \in Nat, h \in S, (h + 1) % TileHeight # 0, NEW k \in Nat, (k + 1) * Pow2[h + 1] <= size
      PROVE  OK(h + 1, k)
  <2> DEFINE P == Pow2[h]
             a == 2 * k
             b == 2 * k + 1
             s == k * Pow2[h + 1]
  <2>1. P \in Nat /\ 0 < P /\ Pow2[h + 1] = 2 * P
    BY PowNat, PowStep
  <2>2. a \in Nat /\ b \in Nat
    OBVIOUS
  <2>3. /\ s \in Nat /\ a * P = s /\ b * P = s + P /\ (a + 1) * P = s + P /\ (b + 1) * P = s + 2 * P
        /\ (k + 1) * Pow2[h + 1] = s + 2 * P
    <3>1. s = k * (2 * P) /\ (k + 1) * Pow2[h + 1] = (k + 1) * (2 * P)
      BY <2>1
    <3> DEFINE v == k * P
    <3>2. v \in Nat
      BY <2>1, TimesIs
    <3> HIDE DEF P, s
    <3>3. k * (2 * P) = 2 * v /\ (k + 1) * (2 * P) = 2 * v + 2 * P /\ a * P = 2 * v /\ b * P = 2 * v + P
          /\ (a + 1) * P = 2 * v + P /\ (b + 1) * P = 2 * v + 2 * P
      BY <2>1
    <3> HIDE DEF v
    <3> QED BY <2>1, <3>1, <3>2, <3>3
  <2>4. s + 2 * P <= size
    BY <1>2, <2>3
  <2>5. node[<<h, a>>] = Mth(g)[<<s, P>>] /\ node[<<h, b>>] = Mth(g)[<<s + P, P>>]
    <3>1. (a + 1) * Pow2[h] <= size /\ (b + 1) * Pow2[h] <= size
      <4>1. s + P <= size
        <5> HIDE DEF s, P
        <5> QED BY <2>1, <2>3, <2>4
      <4> QED BY <4>1, <2>3, <2>4
    <3>2. OK(h, a) /\ OK(h, b)
      <4> HIDE DEF OK, a, b
      <4> QED BY <1>2, <2>2, <3>1
    <3> HIDE DEF node, a, b, s
    <3> QED BY <2>3, <3>2
  <2>6. node[<<h + 1, k>>] = Joined(node[<<h, a>>], node[<<h, b>>])
    <3>1. node[<<h + 1, k>>] = NodeBody(<<dir, size>>, node, <<h + 1, k>>)
      BY NodeEquation
    <3>2. (h + 1) - 1 = h
      OBVIOUS
    <3> HIDE DEF node
    <3> QED BY <1>2, <3>1, <3>2 DEF NodeBody
  <2>7. Mth(g)[<<s, P>>] # Missing /\ Mth(g)[<<s + P, P>>] # Missing
    <3>1. s + P \in Nat /\ s + P <= size /\ (s + P) + P <= size
      <4> HIDE DEF s, P
      <4> QED BY <2>1, <2>3, <2>4
    <3> DEFINE c == s + P
    <3>2. c \in Nat /\ c + P <= size
      BY <3>1
    <3>3. \A i \in 1..size : g[i] # Missing
      BY DEF TilesHold
    <3> HIDE DEF s, P, c
    <3> QED BY <2>1, <2>3, <3>1, <3>2, <3>3, MthIsRead DEF c
  <2>8. Mth(g)[<<s, 2 * P>>] = node_hash(Mth(g)[<<s, P>>], Mth(g)[<<s + P, P>>])
    <3> DEFINE w == 2 * P
    <3>1. w \in Nat /\ Pow2[h] < w /\ w <= 2 * Pow2[h] /\ w - P = P
      BY <2>1
    <3> HIDE DEF w, s
    <3>2. Mth(g)[<<s, w>>] = node_hash(Mth(g)[<<s, Pow2[h]>>], Mth(g)[<<s + Pow2[h], w - Pow2[h]>>])
      BY <2>3, <3>1, MthSplits
    <3> QED BY <3>1, <3>2 DEF w
  <2>9. node[<<h + 1, k>>] = Mth(g)[<<s, Pow2[h + 1]>>]
    <3> HIDE DEF node, s, P, a, b
    <3> QED BY <2>1, <2>5, <2>6, <2>7, <2>8, JoinedIs
  <2> QED BY <2>9
<1>3. 0 \in S
  <2>1. 0 % TileHeight = 0
    BY <1>0
  <2> HIDE DEF OK
  <2> QED BY <1>1, <2>1
<1>4. ASSUME NEW h \in Nat, h \in S PROVE h + 1 \in S
  <2>1. h + 1 \in Nat
    OBVIOUS
  <2>2. \A k \in Nat : (k + 1) * Pow2[h + 1] <= size => OK(h + 1, k)
    <3> DEFINE i == h + 1
    <3>1. CASE i % TileHeight = 0
      <4>1. i \in Nat
        OBVIOUS
      <4> HIDE DEF OK, i
      <4>2. \A k \in Nat : (k + 1) * Pow2[i] <= size => OK(i, k)
        BY <1>1, <3>1, <4>1
      <4> QED BY <4>2 DEF i
    <3>2. CASE i % TileHeight # 0
      <4> HIDE DEF OK
      <4> QED BY <1>2, <1>4, <3>2
    <3> QED BY <3>1, <3>2
  <2> HIDE DEF OK
  <2> QED BY <2>1, <2>2
<1>5. Nat \subseteq S
  <2> HIDE DEF S
  <2> QED BY <1>3, <1>4, PowR!SetInduction
<1> HIDE DEF node
<1> QED BY <1>5 DEF node

LEMMA LogIs ==
  ASSUME NEW i \in Nat
  PROVE  Log2(Pow2[i]) = i
<1>1. Pow2[i] \in Nat /\ i \in 0..Pow2[i]
  BY PowNat
<1>2. ASSUME NEW h \in 0..Pow2[i], Pow2[h] = Pow2[i] PROVE h = i
  <2>1. h \in Nat /\ Pow2[h] \in Nat /\ 0 < Pow2[i]
    BY <1>1, PowNat
  <2>2. h < i => 2 * Pow2[h] <= Pow2[i]
    BY <2>1, PowRises
  <2>3. i < h => 2 * Pow2[i] <= Pow2[h]
    BY <2>1, PowRises
  <2> QED BY <1>1, <1>2, <2>1, <2>2, <2>3
<1> QED BY <1>1, <1>2 DEF Log2

LEMMA ViewIs ==
  ASSUME NEW dir, NEW size \in Nat, NEW g, TilesHold(dir, size, g)
  PROVE  \A s, w \in Nat : s + w <= size =>
           ViewMth(dir, size)[<<s, w>>] = Mth(g)[<<s, w>>] /\ Mth(g)[<<s, w>>] # Missing
<1> DEFINE v == ViewMth(dir, size)
           OK(s, w) == v[<<s, w>>] = Mth(g)[<<s, w>>]
           S == {w \in Nat : \A s \in Nat : s + w <= size => OK(s, w)}
<1>0. \A i \in 1..size : g[i] # Missing
  BY DEF TilesHold
<1>1. ASSUME NEW w \in Nat, \A u \in Nat : u < w => u \in S, NEW s \in Nat, s + w <= size
      PROVE  OK(s, w)
  <2>1. v[<<s, w>>] = ViewBody(<<dir, size>>, v, <<s, w>>) /\ Mth(g)[<<s, w>>] = MthBody(g, Mth(g), <<s, w>>)
    BY ViewEquation, MthEquation
  <2>2. CASE w = 0
    <3> HIDE DEF v
    <3> QED BY <2>1, <2>2 DEF ViewBody, MthBody
  <2>3. CASE w # 0 /\ PowerOfTwo(w) /\ s % w = 0
    <3>1. PICK i \in Nat : w = Pow2[i]
      BY <2>3 DEF PowerOfTwo
    <3> DEFINE k == s \div w
    <3>2. k \in Nat /\ s = k * w
      <4>1. k \in Nat /\ s = k * w + (s % w)
        BY <2>3, DivIs
      <4> HIDE DEF k
      <4>2. k * w \in Nat
        BY <4>1, TimesIs
      <4> QED BY <2>3, <4>1, <4>2
    <3>3. Log2(w) = i
      BY <3>1, LogIs
    <3> HIDE DEF k
    <3>4. v[<<s, w>>] = NodeAt(dir, size)[<<i, k>>]
      <4> HIDE DEF v
      <4> QED BY <2>1, <2>3, <3>3 DEF ViewBody, k
    <3>5. (k + 1) * w = s + w
      BY <3>2, TimesIs
    <3>6. NodeAt(dir, size)[<<i, k>>] = Mth(g)[<<k * Pow2[i], Pow2[i]>>]
      <4>1. (k + 1) * Pow2[i] <= size
        BY <1>1, <3>1, <3>5
      <4> QED BY <3>2, <4>1, NodeIs
    <3> HIDE DEF v
    <3> QED BY <3>1, <3>2, <3>4, <3>6
  <2>4. CASE w # 0 /\ ~(PowerOfTwo(w) /\ s % w = 0)
    <3>1. w > 1
      <4>1. w # 1
        BY <2>4, OneIsPower
      <4> QED BY <2>4, <4>1
    <3>2. Split(w) \in Nat /\ 0 < Split(w) /\ Split(w) < w
      BY <3>1, SplitBetween
    <3> DEFINE q == Split(w)
    <3> HIDE DEF q
    <3>3. LeftOf(<<s, w>>) = <<s, q>> /\ RightOf(<<s, w>>) = <<s + q, w - q>>
      BY DEF LeftOf, RightOf, q
    <3>4. q \in Nat /\ 0 < q /\ q < w /\ w - q \in Nat /\ w - q < w /\ s + q \in Nat /\ s + q <= size
          /\ (s + q) + (w - q) <= size
      BY <1>1, <3>2 DEF q
    <3>5. OK(s, q) /\ OK(s + q, w - q)
      <4>1. q \in S /\ w - q \in S
        BY <1>1, <3>4
      <4> HIDE DEF OK
      <4> QED BY <3>4, <4>1
    <3>6. Mth(g)[<<s, q>>] # Missing /\ Mth(g)[<<s + q, w - q>>] # Missing
      <4> DEFINE c == s + q
                 d == w - q
      <4>1. c \in Nat /\ d \in Nat /\ c + d <= size
        BY <3>4
      <4> HIDE DEF c, d
      <4>2. Mth(g)[<<c, d>>] # Missing
        BY <1>0, <4>1, MthIsRead
      <4>3. Mth(g)[<<s, q>>] # Missing
        BY <1>0, <3>4, MthIsRead
      <4> QED BY <4>2, <4>3 DEF c, d
    <3>7. v[<<s, w>>] = Joined(v[<<s, q>>], v[<<s + q, w - q>>])
      <4> HIDE DEF v
      <4> QED BY <2>1, <2>4, <3>3 DEF ViewBody
    <3>8. Mth(g)[<<s, w>>] = node_hash(Mth(g)[<<s, q>>], Mth(g)[<<s + q, w - q>>])
      BY <2>1, <3>1, <3>3 DEF MthBody
    <3> HIDE DEF v
    <3> QED BY <3>5, <3>6, <3>7, <3>8, JoinedIs
  <2> QED BY <2>2, <2>3, <2>4
<1>2. ASSUME NEW w \in Nat, \A u \in Nat : u < w => u \in S PROVE w \in S
  <2> HIDE DEF OK
  <2> QED BY <1>1, <1>2
<1>3. Nat \subseteq S
  <2> HIDE DEF S
  <2> QED BY <1>2, PowR!StrongInduction
<1>4. ASSUME NEW s \in Nat, NEW w \in Nat, s + w <= size PROVE OK(s, w) /\ Mth(g)[<<s, w>>] # Missing
  <2>1. OK(s, w)
    BY <1>3, <1>4
  <2> HIDE DEF OK
  <2> QED BY <2>1, <1>0, <1>4, MthIsRead
<1> QED BY <1>4

-----------------------------------------------------------------------------
(***************************************************************************)
(* What verify_log_dir compares: the levels recomputed from the entries,   *)
(* with the tiles; and the entries, file by file, with those of the log.   *)
(***************************************************************************)
LevelsBody(p, f, l) == IF l = 0 THEN p ELSE Completed(f[l - 1])
LevelsR == INSTANCE Recursion WITH Dom <- Levels0, Rank <- LevelRank, Body <- LevelsBody

LEMMA LevelsEquation ==
  ASSUME NEW hashes, NEW l \in Nat
  PROVE  LevelsOf(hashes)[0] = hashes /\ LevelsOf(hashes)[l + 1] = Completed(LevelsOf(hashes)[l])
<1> DEFINE p == hashes
           B == LevelsOf(hashes)
<1>1. LevelsR!Local(p)
  <2>1. ASSUME NEW x \in Nat, NEW g, NEW h, \A y \in Nat : LevelRank(y) < LevelRank(x) => g[y] = h[y]
        PROVE  LevelsBody(p, g, x) = LevelsBody(p, h, x)
    <3>1. CASE x = 0
      BY <3>1 DEF LevelsBody
    <3>2. CASE x # 0
      <4>1. x - 1 \in Nat /\ x - 1 < x
        BY <3>2
      <4>2. g[x - 1] = h[x - 1]
        BY <2>1, <4>1 DEF LevelRank
      <4> QED BY <3>2, <4>2 DEF LevelsBody
    <3> QED BY <3>1, <3>2
  <2>2. \A x \in Nat : LevelRank(x) \in Nat
    BY DEF LevelRank
  <2> QED BY <2>1, <2>2, Zenon DEF LevelsR!Local, Levels0
<1>2. \E f : f = [x \in Nat |-> LevelsBody(p, f, x)]
  BY <1>1, LevelsR!Recursive DEF Levels0
<1>3. B = [x \in Nat |-> LevelsBody(p, B, x)]
  <2> DEFINE Is(f) == f = [x \in Nat |-> LevelsBody(p, f, x)]
             v == CHOOSE f : Is(f)
  <2>1. Is(v)
    BY <1>2, Zenon
  <2>2. B = v
    BY Zenon DEF LevelsOf, LevelsBody
  <2> QED BY <2>1, <2>2, Zenon
<1> HIDE DEF B
<1>4. B[0] = hashes
  BY <1>3 DEF LevelsBody
<1>5. l + 1 \in Nat /\ l + 1 # 0 /\ (l + 1) - 1 = l
  OBVIOUS
<1>6. B[l + 1] = LevelsBody(p, B, l + 1)
  BY <1>3, <1>5
<1>7. LevelsBody(p, B, l + 1) = Completed(B[(l + 1) - 1])
  BY <1>5 DEF LevelsBody
<1>8. B[l + 1] = Completed(B[l])
  BY <1>5, <1>6, <1>7
<1> QED BY <1>4, <1>8 DEF B

LEMMA EmptyCounts ==
  ASSUME NEW l \in Nat
  PROVE  /\ IsList(<<>>) /\ Len(<<>>) = 0 /\ LevelCount(0, l) = 0
         /\ FirstFile(0, l) = 0 /\ FirstFile(0, l) * TileWidth = 0
<1>1. IsList(<<>>) /\ Len(<<>>) = 0
  <2>1. <<>> \in Seq({})
    OBVIOUS
  <2> QED BY <2>1, SeqIsList
<1>2. LevelCount(0, l) = 0
  BY LevelCounts
<1>3. TileWidth \in Nat /\ 0 < TileWidth
  BY Units
<1>4. FirstFile(0, l) = 0
  <2>1. 0 \div TileWidth = 0
    BY <1>3
  <2> QED BY <1>2, <2>1 DEF FirstFile
<1>5. 0 * TileWidth = 0
  BY <1>3
<1> QED BY <1>1, <1>2, <1>4, <1>5

LEMMA LevelsHold ==
  ASSUME NEW f, IsList(f)
  PROVE  \A l \in Nat : /\ New(LevelsOf(Hashes(f))[l], <<>>, f, "tile", l)
                        /\ Stores(LevelsOf(Hashes(f))[l], <<>>, f, "tile", l)
<1> DEFINE H == LevelsOf(Hashes(f))
           z == <<>>
           S == {l \in Nat : New(H[l], z, f, "tile", l)}
<1>1. IsList(z) /\ Len(z) = 0 /\ \A l \in Nat : LevelCount(Len(z), l) = 0 /\ FirstFile(Len(z), l) * TileWidth = 0
  BY EmptyCounts
<1> HIDE DEF z
<1>2. Grown(z, f)
  <2>1. \A i \in 1..Len(z) : z[i] = f[i]
    BY <1>1
  <2>2. Len(z) <= Len(f)
    BY <1>1, ListLen
  <2> QED BY <1>1, <2>1, <2>2 DEF Grown, Begins
<1>3. H[0] = Hashes(f) /\ \A l \in Nat : H[l + 1] = Completed(H[l])
  <2>1. ASSUME NEW l \in Nat PROVE H[0] = Hashes(f) /\ H[l + 1] = Completed(H[l])
    BY LevelsEquation
  <2> QED BY <2>1
<1> HIDE DEF H
<1>4. New(Hashes(f), z, f, "tile", 0)
  <2> DEFINE g == Hashes(f)
  <2>1. IsList(g) /\ Len(g) = Len(f) /\ Len(f) \in Nat
    BY HashesAre, ListLen
  <2>2. LevelCount(Len(f), 0) = Len(f)
    BY <2>1, LevelCounts
  <2>3. ASSUME NEW q \in 1..Len(g) PROVE g[q] = Value(f, "tile", 0, 0 + (q - 1))
    <3> DEFINE i == 0 + (q - 1)
    <3>1. i \in Nat /\ i + 1 = q /\ i * 1 = i
      BY <2>1
    <3> HIDE DEF i
    <3>2. Value(f, "tile", 0, i) = Mth(g)[<<i * 1, 1>>]
      BY Units DEF Value
    <3>3. Mth(g)[<<i, 1>>] = g[i + 1]
      BY <3>1, MthOne
    <3>4. g[q] = Value(f, "tile", 0, i)
      BY <3>1, <3>2, <3>3
    <3> QED BY <3>4 DEF i
  <2> HIDE DEF g
  <2>4. New(g, z, f, "tile", 0)
    <3>1. LevelCount(Len(z), 0) = 0 /\ Len(g) = LevelCount(Len(f), 0) - 0
      BY <1>1, <2>1, <2>2
    <3> QED BY <2>1, <2>3, <3>1 DEF New
  <2> QED BY <2>4 DEF g
<1>5. ASSUME NEW l \in Nat, New(H[l], z, f, "tile", l) PROVE Stores(H[l], z, f, "tile", l)
  <2>1. LevelCount(Len(z), l) = 0 /\ FirstFile(Len(z), l) * TileWidth = 0
    BY <1>1
  <2> QED BY <1>5, <2>1 DEF New, Stores
<1>6. 0 \in S
  BY <1>3, <1>4
<1>7. ASSUME NEW l \in Nat, l \in S PROVE l + 1 \in S
  <2> DEFINE p == H[l]
  <2>1. Stores(p, z, f, "tile", l)
    BY <1>5, <1>7
  <2> HIDE DEF p
  <2>2. New(Completed(p), z, f, "tile", l + 1)
    BY <1>2, <2>1, CompletedIsNew
  <2>3. New(H[l + 1], z, f, "tile", l + 1)
    BY <1>3, <2>2 DEF p
  <2> QED BY <2>3
<1>8. Nat \subseteq S
  <2> HIDE DEF S
  <2> QED BY <1>6, <1>7, PowR!SetInduction
<1>9. \A l \in Nat : New(H[l], z, f, "tile", l) /\ Stores(H[l], z, f, "tile", l)
  BY <1>5, <1>8
<1> QED BY <1>9 DEF H, z

LEMMA TileAtIs ==
  ASSUME NEW dir, NEW size \in Nat, NEW l \in Nat, NEW n \in Nat, n * TileWidth < LevelCount(size, l)
  PROVE  /\ IsList(TileAt(dir, size, l, n)) /\ Len(TileAt(dir, size, l, n)) = Room(LevelCount(size, l), n)
         /\ WidthOf(size, l, n) = Room(LevelCount(size, l), n)
<1> DEFINE name == TileName(l, n, WidthOf(size, l, n))
<1>1. WidthOf(size, l, n) = Room(LevelCount(size, l), n)
  BY WidthIsRoom
<1>2. name.width = Room(LevelCount(size, l), n)
  BY <1>1 DEF TileName
<1>3. name.width \in Nat
  <2>1. \A v \in 1..TileWidth : v \in Nat
    BY Units
  <2>2. LevelCount(size, l) \in Nat
    BY LevelCounts
  <2> QED BY <2>1, <2>2, <1>2, RoomIs
<1> HIDE DEF name
<1>4. IsList(Read(dir, name)) /\ Len(Read(dir, name)) = name.width
  BY <1>3, ReadIsList
<1> QED BY <1>1, <1>2, <1>4 DEF TileAt, name

TileIs(dir, size, e, l, n) ==
  \A j \in 1..WidthOf(size, l, n) :
    TileAt(dir, size, l, n)[j] = Mth(Hashes(e))[<<(n * TileWidth + (j - 1)) * Unit(l), Unit(l)>>]

\* A tile and the chunk of the recomputed level that it should be.
LEMMA TileOrChunk ==
  ASSUME NEW dir, NEW e, IsList(e), NEW l \in Nat, NEW n \in Nat
  PROVE  LET chunks == Chunks(LevelsOf(Hashes(e))[l]) IN
         /\ n + 1 \in 1..Len(chunks) <=> n * TileWidth < LevelCount(Len(e), l)
         /\ n * TileWidth < LevelCount(Len(e), l) =>
              (TileAt(dir, Len(e), l, n) = chunks[n + 1] <=> TileIs(dir, Len(e), e, l, n))
         /\ Len(chunks) \in Nat
<1> DEFINE size == Len(e)
           p == LevelsOf(Hashes(e))[l]
           x == LevelCount(size, l)
           chunks == Chunks(p)
           c == chunks[n + 1]
           t == TileAt(dir, size, l, n)
<1>1. size \in Nat /\ x \in Nat
  BY ListLen, LevelCounts
<1>2. /\ IsList(p) /\ Len(p) = x
      /\ \A q \in 1..Len(p) : p[q] = Value(e, "tile", l, 0 + (q - 1))
  <2>1. New(p, <<>>, e, "tile", l)
    BY LevelsHold
  <2>2. LevelCount(Len(<<>>), l) = 0
    BY EmptyCounts
  <2> HIDE DEF p
  <2>3. IsList(p) /\ Len(p) = x - 0 /\ \A q \in 1..Len(p) : p[q] = Value(e, "tile", l, 0 + (q - 1))
    BY <2>1, <2>2 DEF New
  <2> QED BY <2>3, <1>1
<1> HIDE DEF p
<1>3. /\ IsList(chunks)
      /\ n + 1 \in 1..Len(chunks) <=> n * TileWidth < x
      /\ n * TileWidth < x => /\ IsList(c) /\ Len(c) = Room(x, n)
                              /\ \A j \in 1..Len(c) : c[j] = p[n * TileWidth + j]
  BY <1>2, ChunksAre
<1>4. Len(chunks) \in Nat
  BY <1>3, ListLen
<1>5. ASSUME n * TileWidth < x PROVE t = c <=> TileIs(dir, size, e, l, n)
  <2> DEFINE r == Room(x, n)
             u == n * TileWidth
             val(j) == Mth(Hashes(e))[<<(u + (j - 1)) * Unit(l), Unit(l)>>]
  <2>1. IsList(t) /\ Len(t) = r /\ WidthOf(size, l, n) = r
    BY <1>1, <1>5, TileAtIs
  <2>2. u \in Nat /\ r \in Nat /\ u + r <= x
    <3>1. \A v \in 1..TileWidth : v \in Nat
      BY Units
    <3> QED BY <3>1, <1>1, <1>5, RoomIs
  <2>3. ASSUME NEW j \in 1..r PROVE c[j] = val(j)
    <3> HIDE DEF u, r, c, x, size
    <3>1. u + j \in 1..x /\ 0 + ((u + j) - 1) = u + (j - 1)
      BY <1>1, <2>2
    <3>2. c[j] = p[u + j]
      BY <1>3, <1>5 DEF u, r
    <3>3. p[u + j] = Value(e, "tile", l, u + (j - 1))
      BY <1>2, <3>1
    <3>4. Value(e, "tile", l, u + (j - 1)) = val(j)
      BY DEF Value
    <3> QED BY <3>2, <3>3, <3>4
  <2>4. TileIs(dir, size, e, l, n) <=> \A j \in 1..r : t[j] = val(j)
    BY <2>1 DEF TileIs
  <2>5. IsList(c) /\ Len(c) = r
    BY <1>3, <1>5
  <2> HIDE DEF t, c, r, val, size
  <2>6. ASSUME t = c PROVE TileIs(dir, size, e, l, n)
    BY <2>3, <2>4, <2>6
  <2>7. ASSUME TileIs(dir, size, e, l, n) PROVE t = c
    <3>1. \A j \in 1..Len(t) : t[j] = c[j]
      BY <2>1, <2>3, <2>4, <2>7
    <3> QED BY <2>1, <2>5, <3>1, SameLists
  <2> QED BY <2>6, <2>7
<1> QED BY <1>3, <1>4, <1>5 DEF p

-----------------------------------------------------------------------------
(***************************************************************************)
(* What a directory that verifies holds, and what one that has every file  *)
(* of its log gives to those who read and verify it.                       *)
(***************************************************************************)
LEMMA HashesRead ==
  ASSUME NEW e, IsList(e)
  PROVE  \A i \in 1..Len(e) : Hashes(e)[i] # Missing
BY HashesAre DEF leaf_hash, Missing

LEMMA HoldsGivesTiles ==
  ASSUME NEW dir, NEW e, IsList(e), Holds(dir, e)
  PROVE  TilesHold(dir, Len(e), Hashes(e))
<1> DEFINE size == Len(e)
<1>1. \A i \in 1..size : Hashes(e)[i] # Missing
  BY HashesRead
<1>2. ASSUME NEW l \in Nat, NEW n \in Nat, n * TileWidth < LevelCount(size, l), NEW j \in 1..WidthOf(size, l, n)
      PROVE  TileAt(dir, size, l, n)[j] = Mth(Hashes(e))[<<(n * TileWidth + (j - 1)) * Unit(l), Unit(l)>>]
  <2> DEFINE w == WidthOf(size, l, n)
  <2>1. Kind("tile", l)
    BY DEF Kind
  <2>2. \A i \in 1..w : Read(dir, [kind |-> "tile", level |-> l, n |-> n, width |-> w])[i]
                          = Value(e, "tile", l, n * TileWidth + (i - 1))
    <3> HIDE DEF w
    <3>1. w = WidthOf(Len(e), l, n)
      BY DEF w
    <3> QED BY <1>2, <2>1, <3>1, ReadHolds
  <2>3. TileAt(dir, size, l, n)[j] = Value(e, "tile", l, n * TileWidth + (j - 1))
    BY <1>2, <2>2 DEF TileAt, TileName
  <2> QED BY <2>3 DEF Value
<1> QED BY <1>1, <1>2 DEF TilesHold

LEMMA NoFileAtZero == 0 * TileWidth = 0 /\ \A size \in Nat : 0 * TileWidth <= size
<1>1. TileWidth \in Nat
  BY Units
<1>2. 0 * TileWidth = 0
  BY <1>1
<1> QED BY <1>2

LEMMA StoredAll ==
  ASSUME NEW dir, NEW size \in Nat
  PROVE  /\ IsList(StoredFrom(dir, size, 0)) /\ Len(StoredFrom(dir, size, 0)) = size
         /\ \A m \in Nat : m * TileWidth < size =>
              \A j \in 1..Room(size, m) : StoredFrom(dir, size, 0)[m * TileWidth + j] = EntriesAt(dir, size, m)[j]
<1> DEFINE s == StoredFrom(dir, size, 0)
<1>1. 0 \in Nat /\ 0 * TileWidth <= size /\ 0 * TileWidth = 0
  BY NoFileAtZero
<1>2. /\ IsList(s) /\ Len(s) = size - 0 * TileWidth
      /\ \A m \in Nat : m >= 0 /\ m * TileWidth < size =>
           \A j \in 1..Room(size, m) : s[(m - 0) * TileWidth + j] = EntriesAt(dir, size, m)[j]
  BY <1>1, StoredIs
<1> HIDE DEF s
<1>3. \A m \in Nat : m >= 0 /\ m - 0 = m
  OBVIOUS
<1>4. IsList(s) /\ Len(s) = size
  BY <1>1, <1>2
<1>5. \A m \in Nat : m * TileWidth < size =>
        \A j \in 1..Room(size, m) : s[m * TileWidth + j] = EntriesAt(dir, size, m)[j]
  BY <1>2, <1>3
<1> QED BY <1>4, <1>5 DEF s

\* The bundles are the entries read, cut into files.
LEMMA ReadInChunks ==
  ASSUME NEW dir, NEW size \in Nat, NEW n \in 1..FilesIn(size, 0)
  PROVE  EntriesAt(dir, size, n - 1) = Chunks(StoredFrom(dir, size, 0))[n]
<1> DEFINE s == StoredFrom(dir, size, 0)
           m == n - 1
           c == Chunks(s)[m + 1]
           E == EntriesAt(dir, size, m)
<1>1. LevelCount(size, 0) = size /\ FilesIn(size, 0) \in Nat
  BY LevelCounts, FilesFor DEF FilesIn
<1>2. m \in Nat /\ m + 1 = n /\ m + 1 <= FilesIn(size, 0)
  BY <1>1
<1>3. m * TileWidth < size
  <2> HIDE DEF m
  <2> QED BY <1>1, <1>2, FilesFor DEF FilesIn
<1>4. /\ IsList(s) /\ Len(s) = size
      /\ \A j \in 1..Room(size, m) : s[m * TileWidth + j] = EntriesAt(dir, size, m)[j]
  BY <1>2, <1>3, StoredAll
<1> HIDE DEF s, m
<1>5. IsList(c) /\ Len(c) = Room(size, m) /\ \A j \in 1..Len(c) : c[j] = s[m * TileWidth + j]
  BY <1>2, <1>3, <1>4, ChunksAre
<1>6. IsList(E) /\ Len(E) = Room(size, m)
  BY <1>2, <1>3, EntriesAtIs
<1> HIDE DEF c, E
<1>7. \A j \in 1..Len(E) : E[j] = c[j]
  BY <1>4, <1>5, <1>6 DEF E
<1>8. E = c
  BY <1>5, <1>6, <1>7, SameLists
<1> QED BY <1>2, <1>8 DEF E, c, s, m

LEMMA VerifiedTiles ==
  ASSUME NEW dir, NEW note, note.size \in Nat, VerifyLogDir(dir, note)
  PROVE  LET e == StoredFrom(dir, note.size, 0) IN
         /\ TilesHold(dir, note.size, Hashes(e))
         /\ note.root = MerkleRoot(Hashes(e))
<1> DEFINE size == note.size
           e == StoredFrom(dir, size, 0)
           C(l) == Chunks(LevelsOf(Hashes(e))[l])
<1>1. IsList(e) /\ Len(e) = size /\ size \in Nat
  BY StoredAll
<1>2. \A l \in 0..size : \A n \in 1..Len(C(l)) : TileAt(dir, size, l, n - 1) = C(l)[n]
  BY Zenon DEF VerifyLogDir
<1>3. ViewMth(dir, size)[<<0, size>>] = note.root
  BY Zenon DEF VerifyLogDir
<1> HIDE DEF e, size
<1>4. ASSUME NEW l \in Nat, NEW n \in Nat, n * TileWidth < LevelCount(size, l)
      PROVE  TileIs(dir, size, e, l, n)
  <2>1. l \in 0..size
    <3>1. size <= l => LevelCount(size, l) = 0
      BY <1>1, LevelCounts
    <3>2. n * TileWidth \in Nat
      BY Units, TimesIs
    <3> QED BY <1>1, <1>4, <3>1, <3>2
  <2>2. /\ n + 1 \in 1..Len(C(l)) <=> n * TileWidth < LevelCount(Len(e), l)
        /\ n * TileWidth < LevelCount(Len(e), l) =>
             (TileAt(dir, Len(e), l, n) = C(l)[n + 1] <=> TileIs(dir, Len(e), e, l, n))
    BY <1>1, TileOrChunk
  <2> HIDE DEF C
  <2>3. n + 1 \in 1..Len(C(l)) /\ (n + 1) - 1 = n
    BY <1>1, <1>4, <2>2
  <2>4. TileAt(dir, size, l, (n + 1) - 1) = C(l)[n + 1]
    BY <1>2, <2>1, <2>3
  <2> QED BY <1>1, <1>4, <2>2, <2>3, <2>4
<1>5. TilesHold(dir, size, Hashes(e))
  <2>1. \A i \in 1..size : Hashes(e)[i] # Missing
    BY <1>1, HashesRead
  <2> QED BY <1>4, <2>1 DEF TilesHold, TileIs
<1>6. ViewMth(dir, size)[<<0, size>>] = Mth(Hashes(e))[<<0, size>>]
  <2>1. 0 \in Nat /\ 0 + size <= size
    BY <1>1
  <2> QED BY <1>1, <1>5, <2>1, ViewIs
<1>7. Len(Hashes(e)) = size
  BY <1>1, HashesAre
<1> QED BY <1>3, <1>5, <1>6, <1>7 DEF MerkleRoot, e, size

\* Lists with the same root, of the same length, are the same.
LEMMA RootsTellLists ==
  ASSUME NEW e, NEW f, IsList(e), IsList(f), Len(e) = Len(f), MerkleRoot(Hashes(e)) = MerkleRoot(Hashes(f))
  PROVE  e = f
<1> DEFINE g == Hashes(e)
           h == Hashes(f)
           N == Len(e)
<1>1. N \in Nat /\ Len(g) = N /\ Len(h) = N
  BY ListLen, HashesAre
<1>2. /\ \A i \in 1..N : g[i] = leaf_hash(e[i])
      /\ \A i \in 1..N : h[i] = leaf_hash(f[i])
  BY HashesAre
<1>3. Mth(g)[<<0, N>>] = Mth(h)[<<0, N>>]
  BY <1>1 DEF MerkleRoot
<1> HIDE DEF g, h, N
<1>4. SameLeaves(g, h, N)
  BY <1>1, <1>3, MthTells
<1>5. ASSUME NEW i \in 1..N PROVE e[i] = f[i]
  <2>1. leaf_hash(e[i]) = leaf_hash(f[i])
    BY <1>2, <1>4 DEF SameLeaves
  <2> QED BY <2>1 DEF leaf_hash
<1> QED BY <1>5, SameLists DEF N

LEMMA VerifiedIsLog ==
  ASSUME NEW dir, NEW e, IsList(e), VerifyLogDir(dir, TreeOf(e))
  PROVE  /\ StoredFrom(dir, Len(e), 0) = e
         /\ \A n \in 1..FilesIn(Len(e), 0) : EntriesAt(dir, Len(e), n - 1) = Chunks(e)[n]
<1> DEFINE note == TreeOf(e)
           s == StoredFrom(dir, Len(e), 0)
<1>1. Len(e) \in Nat /\ note.size = Len(e) /\ note.root = MerkleRoot(Hashes(e))
  BY ListLen DEF TreeOf, Checkpoint
<1> HIDE DEF note
<1>2. MerkleRoot(Hashes(s)) = MerkleRoot(Hashes(e))
  BY <1>1, VerifiedTiles DEF note
<1>3. IsList(s) /\ Len(s) = Len(e)
  BY <1>1, StoredAll
<1>4. s = e
  BY <1>2, <1>3, RootsTellLists
<1>5. \A n \in 1..FilesIn(Len(e), 0) : EntriesAt(dir, Len(e), n - 1) = Chunks(s)[n]
  BY <1>1, ReadInChunks
<1> QED BY <1>4, <1>5


-----------------------------------------------------------------------------
\* What is read back from a file on.
LEMMA BundleIs ==
  ASSUME NEW dir, NEW e, IsList(e), Holds(dir, e), NEW m \in Nat, m * TileWidth < Len(e)
  PROVE  \A j \in 1..Room(Len(e), m) : EntriesAt(dir, Len(e), m)[j] = e[m * TileWidth + j]
<1> DEFINE size == Len(e)
           w == WidthOf(size, 0, m)
           u == m * TileWidth
<1>1. size \in Nat /\ LevelCount(size, 0) = size /\ w = Room(size, m) /\ Kind("entries", 0) /\ 0 \in Nat
  <2>1. size \in Nat
    BY ListLen
  <2>2. LevelCount(size, 0) = size
    BY <2>1, LevelCounts
  <2>3. w = Room(size, m)
    BY <2>2, WidthIsRoom
  <2> QED BY <2>1, <2>2, <2>3 DEF Kind
<1>2. u \in Nat
  BY Units, TimesIs
<1>3. \A j \in 1..w : Read(dir, [kind |-> "entries", level |-> 0, n |-> m, width |-> w])[j]
                        = Value(e, "entries", 0, u + (j - 1))
  <2> HIDE DEF w
  <2>1. w = WidthOf(Len(e), 0, m) /\ m * TileWidth < LevelCount(Len(e), 0)
    BY <1>1 DEF w
  <2> QED BY <1>1, <2>1, ReadHolds
<1>4. EntriesAt(dir, size, m) = Read(dir, [kind |-> "entries", level |-> 0, n |-> m, width |-> w])
  BY DEF EntriesAt, BundleName
<1>5. ASSUME NEW j \in 1..w PROVE EntriesAt(dir, size, m)[j] = e[u + j]
  <2>1. EntriesAt(dir, size, m)[j] = Value(e, "entries", 0, u + (j - 1))
    BY <1>3, <1>4
  <2>2. (u + (j - 1)) + 1 = u + j
    BY <1>2
  <2> HIDE DEF u
  <2> QED BY <2>1, <2>2 DEF Value
<1> QED BY <1>1, <1>5

LEMMA StoredRead ==
  ASSUME NEW dir, NEW e, IsList(e), Holds(dir, e), NEW first \in Nat, first * TileWidth <= Len(e)
  PROVE  LET s == StoredFrom(dir, Len(e), first) IN
         /\ IsList(s) /\ Len(s) = Len(e) - first * TileWidth /\ first * TileWidth \in Nat
         /\ \A i \in 1..(Len(e) - first * TileWidth) : s[i] = e[first * TileWidth + i]
<1> DEFINE size == Len(e)
           s == StoredFrom(dir, size, first)
           f == first * TileWidth
<1>1. size \in Nat /\ TileWidth \in Nat /\ 0 < TileWidth /\ f \in Nat
  BY ListLen, Units, TimesIs
<1>2. /\ IsList(s) /\ Len(s) = size - f
      /\ \A m \in Nat : m >= first /\ m * TileWidth < size =>
           \A j \in 1..Room(size, m) : s[(m - first) * TileWidth + j] = EntriesAt(dir, size, m)[j]
  <2>1. size \in Nat /\ first * TileWidth <= size
    BY <1>1
  <2> HIDE DEF size
  <2> QED BY <2>1, StoredIs
<1>3. ASSUME NEW i \in 1..(size - f) PROVE s[i] = e[f + i]
  <2> DEFINE a == i - 1
             q == a \div TileWidth
             r == a % TileWidth
             m == first + q
             v == q * TileWidth
  <2>1. a \in Nat
    BY <1>1
  <2>2. q \in Nat /\ r \in Nat /\ r < TileWidth /\ a = v + r
    <3> HIDE DEF a
    <3> QED BY <1>1, <2>1, DivIs
  <2> HIDE DEF q, r
  <2>3. m \in Nat /\ m >= first /\ m - first = q
    BY <2>2
  <2>4. v \in Nat /\ m * TileWidth = f + v
    <3>1. v \in Nat
      BY <1>1, <2>2, TimesIs
    <3>2. m * TileWidth = f + v
      BY <1>1, <2>2
    <3> QED BY <3>1, <3>2
  <2> DEFINE z == m * TileWidth
  <2>5. z \in Nat /\ z = f + v
    BY <1>1, <2>4
  <2> HIDE DEF v, m, f, size, s, z
  <2>6. z < size /\ r + 1 <= size - z /\ i = v + (r + 1)
    BY <1>1, <2>2, <2>4, <2>5
  <2>7. Room(size, m) = IF size - z < TileWidth THEN size - z ELSE TileWidth
    BY DEF Room, z
  <2>8. r + 1 \in 1..Room(size, m)
    BY <1>1, <2>2, <2>5, <2>6, <2>7
  <2>9. s[v + (r + 1)] = EntriesAt(dir, size, m)[r + 1]
    <3>1. z < size => \A j \in 1..Room(size, m) : s[(m - first) * TileWidth + j] = EntriesAt(dir, size, m)[j]
      BY <1>2, <2>3 DEF z
    <3>2. (m - first) * TileWidth = v
      BY <2>3 DEF v
    <3> QED BY <2>6, <2>8, <3>1, <3>2
  <2>10. EntriesAt(dir, size, m)[r + 1] = e[z + (r + 1)]
    BY <2>3, <2>6, <2>8, BundleIs DEF z, size
  <2>11. z + (r + 1) = f + i
    BY <1>1, <2>2, <2>4, <2>5, <2>6
  <2> QED BY <2>6, <2>9, <2>10, <2>11
<1> QED BY <1>1, <1>2, <1>3

LEMMA StoredIsLog ==
  ASSUME NEW dir, NEW e, IsList(e), Holds(dir, e)
  PROVE  StoredFrom(dir, Len(e), 0) = e
<1> DEFINE size == Len(e)
           s == StoredFrom(dir, size, 0)
           z == 0 * TileWidth
<1>1. size \in Nat /\ z = 0 /\ z <= size
  BY ListLen, NoFileAtZero
<1>2. IsList(s) /\ Len(s) = size
  BY <1>1, StoredAll
<1>3. \A i \in 1..(size - z) : s[i] = e[z + i]
  BY <1>1, StoredRead
<1> HIDE DEF z, s
<1>4. \A i \in 1..size : s[i] = e[i]
  <2>1. \A i \in 1..size : i \in 1..(size - z) /\ z + i = i
    BY <1>1
  <2> QED BY <1>3, <2>1
<1>5. s = e
  BY <1>2, <1>4, SameLists
<1> QED BY <1>5 DEF s

LEMMA VerifyHolds ==
  ASSUME NEW dir, NEW e, IsList(e), Holds(dir, e), \A i \in 1..Len(e) : e[i] # Missing
  PROVE  /\ VerifyLogDir(dir, TreeOf(e))
         /\ \A n \in 1..FilesIn(Len(e), 0) : EntriesAt(dir, Len(e), n - 1) = Chunks(e)[n]
<1> DEFINE note == TreeOf(e)
           size == note.size
           s == StoredFrom(dir, size, 0)
           C(l) == Chunks(LevelsOf(Hashes(s))[l])
<1>1. Len(e) \in Nat /\ note.size = Len(e) /\ note.root = MerkleRoot(Hashes(e))
  BY ListLen DEF TreeOf, Checkpoint
<1> HIDE DEF note
<1>2. s = e
  BY <1>1, StoredIsLog
<1>3. TilesHold(dir, Len(e), Hashes(e))
  BY HoldsGivesTiles
<1>4. ~HoldsMissing(s)
  BY <1>2 DEF HoldsMissing
<1>5. ASSUME NEW l \in 0..size, NEW n \in 1..Len(C(l)) PROVE TileAt(dir, size, l, n - 1) = C(l)[n]
  <2> DEFINE D == Chunks(LevelsOf(Hashes(e))[l])
             m == n - 1
  <2>1. D = C(l)
    BY <1>2
  <2> HIDE DEF C, D
  <2>2. l \in Nat
    BY <1>1
  <2>3. Len(D) \in Nat
    BY <2>2, TileOrChunk DEF D
  <2>4. m \in Nat /\ m + 1 = n
    BY <1>5, <2>1, <2>3
  <2> HIDE DEF m
  <2>5. /\ m + 1 \in 1..Len(D) <=> m * TileWidth < LevelCount(Len(e), l)
        /\ m * TileWidth < LevelCount(Len(e), l) =>
             (TileAt(dir, Len(e), l, m) = D[m + 1] <=> TileIs(dir, Len(e), e, l, m))
    BY <2>2, <2>4, TileOrChunk DEF D
  <2>6. m * TileWidth < LevelCount(Len(e), l)
    BY <1>5, <2>1, <2>4, <2>5
  <2>7. TileIs(dir, Len(e), e, l, m)
    BY <1>3, <2>2, <2>4, <2>6 DEF TilesHold, TileIs
  <2>8. TileAt(dir, size, l, m) = D[n]
    BY <1>1, <2>4, <2>5, <2>6, <2>7
  <2> QED BY <2>1, <2>8 DEF m
<1>6. ViewMth(dir, size)[<<0, size>>] = note.root
  <2>1. 0 \in Nat /\ 0 + Len(e) <= Len(e)
    BY <1>1
  <2>2. ViewMth(dir, Len(e))[<<0, Len(e)>>] = Mth(Hashes(e))[<<0, Len(e)>>]
    BY <1>1, <1>3, <2>1, ViewIs
  <2>3. Len(Hashes(e)) = Len(e)
    BY HashesAre
  <2> QED BY <1>1, <2>2, <2>3 DEF MerkleRoot
<1>7. VerifyLogDir(dir, note)
  <2>1. \A l \in 0..size : \A n \in 1..Len(C(l)) : TileAt(dir, size, l, n - 1) = C(l)[n]
    BY <1>5
  <2>2. /\ ~HoldsMissing(StoredFrom(dir, note.size, 0))
        /\ \A l \in 0..note.size :
             \A n \in 1..Len(Chunks(LevelsOf(Hashes(StoredFrom(dir, note.size, 0)))[l])) :
               TileAt(dir, note.size, l, n - 1) = Chunks(LevelsOf(Hashes(StoredFrom(dir, note.size, 0)))[l])[n]
        /\ ViewMth(dir, note.size)[<<0, note.size>>] = note.root
    BY <1>4, <1>6, <2>1
  <2> QED BY <2>2, Zenon DEF VerifyLogDir
<1>8. \A n \in 1..FilesIn(Len(e), 0) : EntriesAt(dir, Len(e), n - 1) = Chunks(s)[n]
  BY <1>1, ReadInChunks
<1> QED BY <1>2, <1>7, <1>8 DEF note

-----------------------------------------------------------------------------
(***************************************************************************)
(* A view that gives the trees of a log gives its proofs.                  *)
(***************************************************************************)
AgreeIn(v, m, N) == \A a, b \in Nat : a + b <= N => v[<<a, b>>] = m[<<a, b>>]

LEMMA SubSame ==
  ASSUME NEW v, NEW m, NEW N \in Nat, AgreeIn(v, m, N)
  PROVE  \A w \in Nat : \A i, s \in Nat : \A whole \in Flags : 0 < i /\ i <= w /\ s + w <= N =>
           SubproofOf(v, i, s, w, whole) = SubproofOf(m, i, s, w, whole)
<1> DEFINE Same(i, s, w, whole) == SubproofOf(v, i, s, w, whole) = SubproofOf(m, i, s, w, whole)
           S == {w \in Nat : \A i, s \in Nat : \A whole \in Flags : 0 < i /\ i <= w /\ s + w <= N => Same(i, s, w, whole)}
<1>1. ASSUME NEW w \in Nat, \A u \in Nat : u < w => u \in S, NEW i \in Nat, NEW s \in Nat,
             NEW whole \in Flags, 0 < i, i <= w, s + w <= N
      PROVE  Same(i, s, w, whole)
  <2>1. SubCases(v, i, s, w, whole) /\ SubCases(m, i, s, w, whole)
    BY <1>1, SubEquation
  <2>2. CASE i = w
    <3>1. v[<<s, w>>] = m[<<s, w>>]
      BY <1>1 DEF AgreeIn
    <3>2. CASE whole # No
      BY <2>1, <2>2, <3>2 DEF SubCases
    <3>3. CASE whole = No
      BY <2>1, <2>2, <3>1, <3>3 DEF SubCases
    <3> QED BY <3>2, <3>3
  <2>3. CASE i # w
    <3> DEFINE k == Split(w)
    <3>1. w > 1
      BY <1>1, <2>3
    <3>2. k \in Nat /\ 0 < k /\ k < w
      BY <3>1, SplitBetween
    <3> HIDE DEF k
    <3>3. /\ s + k \in Nat /\ w - k \in Nat /\ w - k < w /\ (s + k) + (w - k) <= N /\ s + k <= N
          /\ k \in S /\ w - k \in S
      BY <1>1, <3>2
    <3>4. v[<<s, k>>] = m[<<s, k>>] /\ v[<<s + k, w - k>>] = m[<<s + k, w - k>>]
      BY <3>2, <3>3 DEF AgreeIn
    <3>5. CASE i <= k
      <4>1. Same(i, s, k, whole)
        <5> HIDE DEF Same
        <5> QED BY <1>1, <3>2, <3>3, <3>5
      <4> QED BY <2>1, <2>3, <3>4, <3>5, <4>1 DEF SubCases, k
    <3>6. CASE i > k
      <4>1. i - k \in Nat /\ 0 < i - k /\ i - k <= w - k /\ No \in Flags
        <5>1. No \in Flags
          BY Zenon DEF No, Flags
        <5> QED BY <5>1, <1>1, <3>2, <3>6
      <4>2. Same(i - k, s + k, w - k, No)
        <5> HIDE DEF Same
        <5> QED BY <1>1, <3>3, <4>1
      <4> QED BY <2>1, <2>3, <3>4, <3>6, <4>2 DEF SubCases, k
    <3> QED BY <1>1, <3>2, <3>5, <3>6
  <2> QED BY <2>2, <2>3
<1>2. ASSUME NEW w \in Nat, \A u \in Nat : u < w => u \in S PROVE w \in S
  <2> HIDE DEF Same
  <2> QED BY <1>1, <1>2
<1>3. Nat \subseteq S
  <2> HIDE DEF S
  <2> QED BY <1>2, PowR!StrongInduction
<1> HIDE DEF Same
<1>4. \A w \in Nat : \A i, s \in Nat : \A whole \in Flags : 0 < i /\ i <= w /\ s + w <= N => Same(i, s, w, whole)
  BY <1>3
<1> QED BY <1>4 DEF Same

LEMMA PathSame ==
  ASSUME NEW v, NEW m, NEW N \in Nat, AgreeIn(v, m, N)
  PROVE  \A w \in Nat : \A i, s \in Nat : s + w <= N => PathOf(v, i, s, w) = PathOf(m, i, s, w)
<1> DEFINE Same(i, s, w) == PathOf(v, i, s, w) = PathOf(m, i, s, w)
           S == {w \in Nat : \A i, s \in Nat : s + w <= N => Same(i, s, w)}
<1>1. ASSUME NEW w \in Nat, \A u \in Nat : u < w => u \in S, NEW i \in Nat, NEW s \in Nat, s + w <= N
      PROVE  Same(i, s, w)
  <2>0. ASSUME NEW x
        PROVE  /\ w <= 1 => PathOf(x, i, s, w) = <<>>
               /\ w > 1 /\ i < Split(w) =>
                    PathOf(x, i, s, w) = Append(PathOf(x, i, s, Split(w)), x[<<s + Split(w), w - Split(w)>>])
               /\ w > 1 /\ i >= Split(w) =>
                    PathOf(x, i, s, w) =
                      Append(PathOf(x, i - Split(w), s + Split(w), w - Split(w)), x[<<s, Split(w)>>])
    <3> HIDE DEF S
    <3> QED BY PathEquation
  <2>1. CASE w <= 1
    BY <2>0, <2>1
  <2>2. CASE w > 1
    <3> DEFINE k == Split(w)
    <3>1. k \in Nat /\ 0 < k /\ k < w
      BY <2>2, SplitBetween
    <3>2. /\ i < k => /\ PathOf(v, i, s, w) = Append(PathOf(v, i, s, k), v[<<s + k, w - k>>])
                      /\ PathOf(m, i, s, w) = Append(PathOf(m, i, s, k), m[<<s + k, w - k>>])
          /\ i >= k => /\ PathOf(v, i, s, w) = Append(PathOf(v, i - k, s + k, w - k), v[<<s, k>>])
                       /\ PathOf(m, i, s, w) = Append(PathOf(m, i - k, s + k, w - k), m[<<s, k>>])
      <4> HIDE DEF S
      <4> QED BY <2>0, <2>2
    <3> HIDE DEF k
    <3>3. /\ s + k \in Nat /\ w - k \in Nat /\ w - k < w /\ (s + k) + (w - k) <= N /\ s + k <= N
          /\ k \in S /\ w - k \in S
      BY <1>1, <3>1
    <3>4. v[<<s, k>>] = m[<<s, k>>] /\ v[<<s + k, w - k>>] = m[<<s + k, w - k>>]
      BY <3>1, <3>3 DEF AgreeIn
    <3>5. CASE i < k
      <4>1. Same(i, s, k)
        <5> HIDE DEF Same
        <5> QED BY <3>1, <3>3
      <4> QED BY <3>2, <3>4, <3>5, <4>1
    <3>6. CASE i >= k
      <4>1. i - k \in Nat
        BY <3>1, <3>6
      <4>2. Same(i - k, s + k, w - k)
        <5> HIDE DEF Same
        <5> QED BY <3>3, <4>1
      <4> QED BY <3>2, <3>4, <3>6, <4>2
    <3> QED BY <3>1, <3>5, <3>6
  <2> QED BY <2>1, <2>2
<1>2. ASSUME NEW w \in Nat, \A u \in Nat : u < w => u \in S PROVE w \in S
  <2> HIDE DEF Same
  <2> QED BY <1>1, <1>2
<1>3. Nat \subseteq S
  <2> HIDE DEF S
  <2> QED BY <1>2, PowR!StrongInduction
<1> HIDE DEF Same
<1>4. \A w \in Nat : \A i, s \in Nat : s + w <= N => Same(i, s, w)
  BY <1>3
<1> QED BY <1>4 DEF Same

\* What a directory that has every file gives.
LEMMA ViewHolds ==
  ASSUME NEW dir, NEW e, IsList(e), Holds(dir, e)
  PROVE  /\ Len(e) \in Nat /\ AgreeIn(ViewMth(dir, Len(e)), Mth(Hashes(e)), Len(e))
         /\ ViewMth(dir, Len(e))[<<0, Len(e)>>] = MerkleRoot(Hashes(e)) /\ MerkleRoot(Hashes(e)) # Missing
<1> DEFINE size == Len(e)
           v == ViewMth(dir, size)
           m == Mth(Hashes(e))
<1>1. size \in Nat /\ Len(Hashes(e)) = size /\ 0 + size <= size /\ 0 \in Nat
  BY ListLen, HashesAre
<1>2. TilesHold(dir, size, Hashes(e))
  BY HoldsGivesTiles
<1> HIDE DEF size
<1>3. \A s, w \in Nat : s + w <= size => v[<<s, w>>] = m[<<s, w>>] /\ m[<<s, w>>] # Missing
  BY <1>1, <1>2, ViewIs
<1> HIDE DEF v, m
<1>4. AgreeIn(v, m, size)
  BY <1>3 DEF AgreeIn
<1>5. v[<<0, size>>] = m[<<0, size>>] /\ m[<<0, size>>] # Missing
  BY <1>1, <1>3
<1>6. m[<<0, size>>] = MerkleRoot(Hashes(e))
  BY <1>1 DEF MerkleRoot, m
<1> QED BY <1>1, <1>4, <1>5, <1>6 DEF v, m, size


\* The old tile that a longer log's entries are compared with.
LEMMA FirstTileIs ==
  ASSUME NEW dir, NEW e, IsList(e), Holds(dir, e), NEW k \in Nat, NEW s \in Nat, 0 < s, s <= TileWidth,
         Len(e) = k * TileWidth + s,
         NEW d, IsList(d), Len(d) = s, \A j \in 1..s : d[j] = e[k * TileWidth + j]
  PROVE  WidthOf(Len(e), 0, k) = s => Hashes(d) = TileAt(dir, Len(e), 0, k)
<1> SUFFICES ASSUME WidthOf(Len(e), 0, k) = s PROVE Hashes(d) = TileAt(dir, Len(e), 0, k)
  OBVIOUS
<1> DEFINE u == k * TileWidth
           tile == TileAt(dir, Len(e), 0, k)
           h == Hashes(d)
           n == Len(e)
<1>1. u \in Nat /\ n \in Nat /\ n = u + s /\ LevelCount(n, 0) = n /\ 0 \in Nat
  <2>1. n \in Nat
    BY ListLen
  <2> QED BY <2>1, Units, TimesIs, LevelCounts
<1>2. u < LevelCount(n, 0)
  <2> HIDE DEF u, n
  <2> QED BY <1>1
<1>3. TilesHold(dir, n, Hashes(e))
  BY HoldsGivesTiles
<1>4. \A j \in 1..s : tile[j] = Mth(Hashes(e))[<<(u + (j - 1)) * Unit(0), Unit(0)>>]
  <2> HIDE DEF n
  <2>1. WidthOf(n, 0, k) = s
    BY DEF n
  <2> QED BY <1>1, <1>2, <1>3, <2>1 DEF TilesHold, n
<1>5. IsList(tile) /\ Len(tile) = s
  <2>1. IsList(tile) /\ Len(tile) = Room(LevelCount(n, 0), k) /\ WidthOf(n, 0, k) = Room(LevelCount(n, 0), k)
    <3>1. n \in Nat /\ k * TileWidth < LevelCount(n, 0)
      BY <1>1, <1>2
    <3> HIDE DEF n
    <3>2. /\ IsList(TileAt(dir, n, 0, k)) /\ Len(TileAt(dir, n, 0, k)) = Room(LevelCount(n, 0), k)
          /\ WidthOf(n, 0, k) = Room(LevelCount(n, 0), k)
      BY <1>1, <3>1, TileAtIs
    <3> QED BY <3>2 DEF n
  <2> QED BY <2>1
<1>6. IsList(h) /\ Len(h) = s /\ \A j \in 1..s : h[j] = leaf_hash(d[j])
  BY HashesAre
<1>7. \A i \in 1..n : Hashes(e)[i] = leaf_hash(e[i])
  BY HashesAre
<1>8. ASSUME NEW j \in 1..s PROVE tile[j] = h[j]
  <2> DEFINE i == u + (j - 1)
  <2>1. i \in Nat /\ i + 1 = u + j /\ i + 1 \in 1..n /\ i * 1 = i
    <3> HIDE DEF u, n
    <3> QED BY <1>1
  <2>2. tile[j] = Mth(Hashes(e))[<<i * 1, 1>>]
    BY <1>4, Units
  <2> HIDE DEF i
  <2>3. Mth(Hashes(e))[<<i, 1>>] = Hashes(e)[i + 1]
    BY <2>1, MthOne
  <2>4. Hashes(e)[i + 1] = leaf_hash(e[i + 1])
    BY <1>7, <2>1
  <2>5. d[j] = e[i + 1]
    BY <2>1
  <2>6. h[j] = leaf_hash(d[j])
    BY <1>6
  <2> QED BY <2>1, <2>2, <2>3, <2>4, <2>5, <2>6
<1> HIDE DEF tile, h
<1>9. h = tile
  BY <1>5, <1>6, <1>8, SameLists
<1> QED BY <1>9 DEF h, tile

\* What follows the old entries, of what is read back from their last file on.
LEMMA ReadBackIs ==
  ASSUME NEW dir, NEW e, NEW b, IsList(e), IsList(b), Holds(dir, e), Holds(dir, e \o b)
  PROVE  LET k == Len(e) \div TileWidth
             skip == Len(e) % TileWidth
             stored == StoredFrom(dir, Len(e) + Len(b), k)
         IN /\ SubSeq(stored, skip + 1, skip + Len(b)) = b
            /\ skip > 0 => Hashes(SubSeq(stored, 1, skip)) = TileAt(dir, Len(e), 0, k)
<1> DEFINE f == e \o b
           n == Len(e)
           m == Len(b)
           k == n \div TileWidth
           skip == n % TileWidth
           u == k * TileWidth
           stored == StoredFrom(dir, Len(f), k)
<1>1. n \in Nat /\ m \in Nat /\ Len(f) = n + m /\ IsList(f) /\ TileWidth \in Nat /\ 0 < TileWidth
  BY ListLen, Together, Units DEF Grown
<1>2. k \in Nat /\ skip \in Nat /\ skip < TileWidth /\ n = u + skip
  <2> HIDE DEF n
  <2> QED BY <1>1, DivIs
<1>3. u \in Nat
  BY <1>1, <1>2, TimesIs
<1>4. /\ \A i \in 1..n : f[i] = e[i]
      /\ \A i \in 1..m : f[n + i] = b[i]
  BY Together DEF Grown, Begins
<1>w. WidthOf(n, 0, k) = skip
  BY <1>1, FirstFileIs, LevelCounts DEF FirstFile, Started
<1> HIDE DEF f, k, skip
<1>5. IsList(stored) /\ Len(stored) = Len(f) - u /\ \A i \in 1..(Len(f) - u) : stored[i] = f[u + i]
  <2>1. k * TileWidth <= Len(f)
    <3> HIDE DEF n, m
    <3> QED BY <1>1, <1>2, <1>3
  <2>2. Holds(dir, f)
    BY DEF f
  <2> QED BY <1>1, <1>2, <2>1, <2>2, StoredRead
<1> DEFINE back == SubSeq(stored, skip + 1, skip + m)
           d == SubSeq(stored, 1, skip)
<1> HIDE DEF u, n, m, stored
<1>6. IsList(back) /\ Len(back) = m /\ \A i \in 1..m : back[i] = stored[skip + i]
  BY <1>1, <1>2, SubSeqIs
<1>7. back = b
  <2>1. ASSUME NEW i \in 1..m PROVE back[i] = b[i]
    <3>1. skip + i \in 1..(Len(f) - u) /\ u + (skip + i) = n + i
      BY <1>1, <1>2, <1>3
    <3> QED BY <1>4, <1>5, <1>6, <3>1
  <2> HIDE DEF back
  <2>2. Len(b) = m
    BY DEF m
  <2> QED BY <1>6, <2>1, <2>2, SameLists
<1>8. IsList(d) /\ Len(d) = skip /\ \A i \in 1..skip : d[i] = stored[i]
  <2>1. \A s : \A a, w \in Nat :
          /\ IsList(SubSeq(s, a + 1, a + w)) /\ Len(SubSeq(s, a + 1, a + w)) = w
          /\ \A i \in 1..w : SubSeq(s, a + 1, a + w)[i] = s[a + i]
    BY SubSeqIs
  <2>2. 0 + 1 = 1 /\ 0 + skip = skip /\ (\A i \in 1..skip : 0 + i = i) /\ 0 \in Nat
    BY <1>2
  <2>3. /\ IsList(SubSeq(stored, 0 + 1, 0 + skip)) /\ Len(SubSeq(stored, 0 + 1, 0 + skip)) = skip
        /\ \A i \in 1..skip : SubSeq(stored, 0 + 1, 0 + skip)[i] = stored[0 + i]
    BY <1>2, <2>1, <2>2, Zenon
  <2> QED BY <2>2, <2>3
<1>9. ASSUME skip > 0 PROVE Hashes(d) = TileAt(dir, n, 0, k)
  <2>1. ASSUME NEW j \in 1..skip PROVE d[j] = e[u + j]
    <3>1. j \in 1..(Len(f) - u) /\ u + j \in 1..n
      BY <1>1, <1>2, <1>3
    <3> QED BY <1>4, <1>5, <1>8, <3>1
  <2> HIDE DEF d
  <2>2. Len(e) = k * TileWidth + skip /\ WidthOf(Len(e), 0, k) = skip
    BY <1>2, <1>w DEF u, n
  <2>3. Hashes(d) = TileAt(dir, Len(e), 0, k)
    <3>1. \A j \in 1..skip : d[j] = e[k * TileWidth + j]
      BY <2>1 DEF u
    <3>2. 0 < skip /\ skip <= TileWidth
      BY <1>1, <1>2, <1>9
    <3> QED BY <1>2, <1>8, <2>2, <3>1, <3>2, FirstTileIs
  <2> QED BY <2>3 DEF n
<1> QED BY <1>1, <1>7, <1>9 DEF d, back, stored, n, m, k, skip


-----------------------------------------------------------------------------
(***************************************************************************)
(* The tree a whole append leaves is the right one: of what was written,   *)
(* what was there before and what they give together.                      *)
(***************************************************************************)
LEMMA HashesJoined ==
  ASSUME NEW e, NEW b, IsList(e), IsList(b)
  PROVE  /\ SameLeaves(Hashes(e \o b), Hashes(e), Len(e))
         /\ Shifted(Hashes(b), Hashes(e \o b), Len(e), Len(b))
<1>1. /\ Len(e) \in Nat /\ Len(b) \in Nat /\ Len(e \o b) = Len(e) + Len(b) /\ IsList(e \o b)
      /\ \A i \in 1..Len(e) : (e \o b)[i] = e[i]
      /\ \A i \in 1..Len(b) : (e \o b)[Len(e) + i] = b[i]
  BY ListLen, ConcatIs
<1>2. /\ \A i \in 1..Len(e) : Hashes(e)[i] = leaf_hash(e[i])
      /\ \A i \in 1..Len(b) : Hashes(b)[i] = leaf_hash(b[i])
      /\ \A i \in 1..Len(e \o b) : Hashes(e \o b)[i] = leaf_hash((e \o b)[i])
  BY <1>1, HashesAre
<1>3. \A i \in 1..Len(e) : i \in 1..Len(e \o b)
  BY <1>1
<1>4. \A i \in 1..Len(b) : Len(e) + i \in 1..Len(e \o b)
  BY <1>1
<1> QED BY <1>1, <1>2, <1>3, <1>4 DEF SameLeaves, Shifted

\* The root that the batch gives on top of the old tree.
LEMMA ExpectedRoot ==
  ASSUME NEW dir, NEW e, NEW b, IsList(e), IsList(b), Holds(dir, e)
  PROVE  SumOf(Len(e), ViewMth(dir, Len(e)), Mth(Hashes(b)))[<<0, Len(e) + Len(b)>>] = MerkleRoot(Hashes(e \o b))
<1> DEFINE n == Len(e)
           m == Len(b)
           N == n + m
           g == Hashes(e \o b)
           h == Hashes(b)
<1>1. n \in Nat /\ m \in Nat /\ N \in Nat /\ n <= N /\ N - n = m /\ Len(g) = N
  <2>1. Len(e) \in Nat /\ Len(b) \in Nat /\ Len(e \o b) = Len(e) + Len(b) /\ IsList(e \o b)
    BY ListLen, ConcatIs
  <2>2. Len(g) = Len(e \o b)
    BY <2>1, HashesAre
  <2> HIDE DEF g
  <2> QED BY <2>1, <2>2
<1>2. SameLeaves(g, Hashes(e), n) /\ Shifted(h, g, n, m)
  BY HashesJoined
<1>3. ViewMth(dir, n)[<<0, n>>] = Mth(Hashes(e))[<<0, n>>]
  BY ViewHolds, HashesAre DEF MerkleRoot
<1>4. Mth(g)[<<0, n>>] = Mth(Hashes(e))[<<0, n>>]
  <2> DEFINE k == Hashes(e)
  <2>1. SameLeaves(g, k, n)
    BY <1>2
  <2> HIDE DEF g, n, k
  <2>2. 0 \in Nat /\ 0 + n <= n
    BY <1>1
  <2>3. Mth(g)[<<0, n>>] = Mth(k)[<<0, n>>]
    BY <1>1, <2>1, <2>2, MthPrefix
  <2> QED BY <2>3 DEF k
<1> HIDE DEF n, m, N, g, h
<1>5. Shifted(h, g, n, N - n) /\ ViewMth(dir, n)[<<0, n>>] = Mth(g)[<<0, n>>]
  BY <1>1, <1>2, <1>3, <1>4
<1>6. SumOf(n, ViewMth(dir, n), Mth(h))[<<0, N>>] = Mth(g)[<<0, N>>]
  BY <1>1, <1>5, SumIsRoot
<1>7. Mth(g)[<<0, N>>] = MerkleRoot(g)
  BY <1>1 DEF MerkleRoot
<1> QED BY <1>6, <1>7 DEF n, m, N, g, h

\* The proof a view gives convinces whoever holds the old root.
LEMMA ViewExtends ==
  ASSUME NEW dir, NEW e, NEW b, IsList(e), IsList(b), b # <<>>, Holds(dir, e \o b),
         NEW old, old = Len(e), NEW N, N = Len(e) + Len(b)
  PROVE  VerifyConsistency(old, N, MerkleRoot(Hashes(e)), ViewMth(dir, N)[<<0, N>>],
                           IF old = 0 THEN <<>> ELSE SubproofOf(ViewMth(dir, N), old, 0, N, TRUE))
<1> DEFINE g == Hashes(e \o b)
           v == ViewMth(dir, N)
           proof == SubproofOf(v, old, 0, N, TRUE)
<1>1. old \in Nat /\ N \in Nat /\ old < N /\ IsList(e \o b) /\ Len(e \o b) = N
  <2>1. /\ Len(e) \in Nat /\ Len(b) \in Nat /\ Len(b) # 0
        /\ Len(e \o b) = Len(e) + Len(b) /\ IsList(e \o b)
    BY ListLen, ConcatIs
  <2> QED BY <2>1
<1>2. Len(g) = N /\ Len(Hashes(e)) = old
  BY <1>1, HashesAre
<1>3. AgreeIn(v, Mth(g), N) /\ v[<<0, N>>] = MerkleRoot(g)
  BY <1>1, ViewHolds
<1>4. MerkleRoot(Hashes(e)) = Mth(g)[<<0, old>>]
  <2> DEFINE k == Hashes(e)
  <2>1. SameLeaves(g, k, old)
    BY HashesJoined
  <2>2. MerkleRoot(k) = Mth(k)[<<0, old>>]
    BY <1>2 DEF MerkleRoot
  <2> HIDE DEF g, k
  <2>3. 0 \in Nat /\ 0 + old <= old
    BY <1>1
  <2>4. Mth(g)[<<0, old>>] = Mth(k)[<<0, old>>]
    BY <1>1, <2>1, <2>3, MthPrefix
  <2>5. MerkleRoot(k) = Mth(g)[<<0, old>>]
    BY <2>2, <2>4
  <2> QED BY <2>5 DEF k
<1> DEFINE oldRoot == MerkleRoot(Hashes(e))
           root == v[<<0, N>>]
<1> HIDE DEF g, v, oldRoot
<1>5. CASE old = 0
  <2> HIDE DEF root
  <2>1. VerifyConsistency(old, N, oldRoot, root, <<>>)
    BY <1>1, <1>5 DEF VerifyConsistency
  <2> QED BY <1>5, <2>1 DEF oldRoot, root, v
<1>6. CASE old # 0
  <2>1. proof = SubproofOf(Mth(g), old, 0, N, TRUE)
    <3>1. 0 \in Nat /\ 0 + N <= N /\ 0 < old /\ old <= N
      BY <1>1, <1>6
    <3>2. \A w \in Nat : \A i, s \in Nat : \A whole \in Flags : 0 < i /\ i <= w /\ s + w <= N =>
            SubproofOf(v, i, s, w, whole) = SubproofOf(Mth(g), i, s, w, whole)
      BY <1>1, <1>3, SubSame
    <3> DEFINE yes == TRUE
    <3>3. yes \in Flags
      BY Zenon DEF Flags
    <3> HIDE DEF yes
    <3>4. SubproofOf(v, old, 0, N, yes) = SubproofOf(Mth(g), old, 0, N, yes)
      BY <1>1, <3>1, <3>2, <3>3
    <3> QED BY <3>4 DEF yes
  <2> DEFINE own == ConsistencyPath(Hashes(e \o b), old, N)
  <2>2. own = SubproofOf(Mth(g), old, 0, N, TRUE)
    <3>1. old \notin {0, N}
      BY <1>1, <1>6
    <3> QED BY <3>1, Zenon DEF ConsistencyPath, g
  <2>3. own \in Seq(HashesOf(Mth(g)))
    <3>1. old <= N
      BY <1>1
    <3>2. ConsistencyPath(g, old, N) \in Seq(HashesOf(Mth(g)))
      BY <1>1, <3>1, ConsistencyIsSeq
    <3> QED BY <3>2 DEF g
  <2>4. proof = own
    BY <2>1, <2>2
  <2> HIDE DEF own
  <2>5. VerifyConsistency(old, N, oldRoot, Mth(g)[<<0, N>>], own)
    <3>1. old \in Nat \ {0} /\ oldRoot = Mth(g)[<<0, old>>] /\ own = ConsistencyPath(g, old, N)
      BY <1>1, <1>4, <1>6 DEF oldRoot, own, g
    <3> QED BY <1>1, <2>3, <3>1, ConsistencyIsJudged
  <2>6. root = Mth(g)[<<0, N>>]
    BY <1>2, <1>3 DEF MerkleRoot
  <2>7. VerifyConsistency(old, N, oldRoot, root, proof)
    BY <2>4, <2>5, <2>6
  <2> HIDE DEF proof, root
  <2>8. VerifyConsistency(old, N, oldRoot, root, IF old = 0 THEN <<>> ELSE proof)
    BY <1>6, <2>7
  <2> QED BY <2>8 DEF oldRoot, root, proof, v
<1> QED BY <1>5, <1>6


LEMMA RightTree ==
  ASSUME NEW t, NEW e, IsList(e), IsList(call[t].batch), call[t].batch # <<>>, call[t].old = TreeOf(e),
         Holds(disk, e), Holds(disk, e \o call[t].batch),
         \A w \in call[t].written : w.name \in DOMAIN disk /\ disk[w.name] = w.data
  PROVE  TreeIsRight(t)
<1> DEFINE b == call[t].batch
           old == Old(t)
           N == NewSize(t)
           skip == old % TileWidth
           k == old \div TileWidth
           stored == StoredFrom(disk, N, k)
           v == ViewMth(disk, N)
           root == v[<<0, N>>]
<1>1. old = Len(e) /\ call[t].old.root = MerkleRoot(Hashes(e)) /\ N = Len(e) + Len(b)
  BY DEF Old, NewSize, TreeOf, Checkpoint
<1>2. IsList(e \o b) /\ Len(e \o b) = N
  BY <1>1, ConcatIs
<1>3. v[<<0, N>>] = MerkleRoot(Hashes(e \o b)) /\ MerkleRoot(Hashes(e \o b)) # Missing
  <2> DEFINE f == e \o b
  <2>1. IsList(f) /\ Holds(disk, f) /\ Len(f) = N
    BY <1>2
  <2> HIDE DEF f, N
  <2>2. ViewMth(disk, Len(f))[<<0, Len(f)>>] = MerkleRoot(Hashes(f)) /\ MerkleRoot(Hashes(f)) # Missing
    BY <2>1, ViewHolds
  <2> QED BY <2>1, <2>2 DEF f, N
<1>4. /\ SubSeq(stored, skip + 1, skip + Len(b)) = b
      /\ skip > 0 => Hashes(SubSeq(stored, 1, skip)) = TileAt(disk, old, 0, k)
  <2> DEFINE n == Len(e)
             s == StoredFrom(disk, n + Len(b), n \div TileWidth)
  <2>1. /\ SubSeq(s, (n % TileWidth) + 1, (n % TileWidth) + Len(b)) = b
        /\ (n % TileWidth) > 0 => Hashes(SubSeq(s, 1, n % TileWidth)) = TileAt(disk, n, 0, n \div TileWidth)
    BY ReadBackIs
  <2>2. n = old /\ s = stored
    BY <1>1
  <2> HIDE DEF n, s, old, N, b
  <2> QED BY <2>1, <2>2
<1>5. ViewMth(disk, old)[<<0, old>>] = call[t].old.root
  BY <1>1, ViewHolds
<1>6. v[<<0, N>>] = Expected(t)
  <2>1. Expected(t) = SumOf(old, ViewMth(disk, old), Mth(Hashes(b)))[<<0, N>>]
    BY ExpectedIs
  <2>2. SumOf(Len(e), ViewMth(disk, Len(e)), Mth(Hashes(b)))[<<0, Len(e) + Len(b)>>] = MerkleRoot(Hashes(e \o b))
    BY ExpectedRoot
  <2>3. SumOf(old, ViewMth(disk, old), Mth(Hashes(b)))[<<0, N>>] = MerkleRoot(Hashes(e \o b))
    <3> HIDE DEF old, N, b
    <3> QED BY <1>1, <2>2
  <2> QED BY <1>3, <2>1, <2>3
<1>7. VerifyConsistency(old, N, call[t].old.root, root,
                        IF old = 0 THEN <<>> ELSE SubproofOf(v, old, 0, N, TRUE))
  <2> DEFINE rt == MerkleRoot(Hashes(e))
  <2>1. VerifyConsistency(old, N, rt, ViewMth(disk, N)[<<0, N>>],
                          IF old = 0 THEN <<>> ELSE SubproofOf(ViewMth(disk, N), old, 0, N, TRUE))
    <3> HIDE DEF old, N, b
    <3>1. IsList(b) /\ b # <<>> /\ Holds(disk, e \o b)
      BY DEF b
    <3> QED BY <1>1, <3>1, ViewExtends
  <2>2. rt = call[t].old.root
    BY <1>1
  <2> HIDE DEF rt, old, N
  <2>3. VerifyConsistency(old, N, call[t].old.root, ViewMth(disk, N)[<<0, N>>],
                          IF old = 0 THEN <<>> ELSE SubproofOf(ViewMth(disk, N), old, 0, N, TRUE))
    BY <2>1, <2>2, Zenon
  <2> QED BY <2>3 DEF v, root
<1>8. WrittenIsRight(t)
  BY <1>4, <1>5, <1>6, Zenon DEF WrittenIsRight
<1>9. ExtendsLast(t)
  <2>1. root # Missing
    BY <1>3
  <2> QED BY <1>7, <2>1, Zenon DEF ExtendsLast
<1> QED BY <1>8, <1>9 DEF TreeIsRight


-----------------------------------------------------------------------------
(***************************************************************************)
(* What the readers of a directory that has every file of a log get.       *)
(***************************************************************************)
LEMMA EmptyHolds ==
  ASSUME NEW dir
  PROVE  Holds(dir, <<>>)
<1> SUFFICES ASSUME NEW name, IsFile(name, Len(<<>>)) PROVE FALSE
  BY DEF Holds
<1>1. name.level \in Nat /\ name.n \in Nat /\ name.n * TileWidth < LevelCount(Len(<<>>), name.level)
  BY DEF IsFile
<1>2. LevelCount(Len(<<>>), name.level) = 0
  BY <1>1, EmptyCounts
<1>3. name.n * TileWidth \in Nat
  BY <1>1, Units, TimesIs
<1> QED BY <1>1, <1>2, <1>3

LEMMA EntryIs ==
  ASSUME NEW e, IsList(e), Holds(disk, e), NEW i \in Nat, i < Len(e)
  PROVE  EntryAt(Len(e), i) = e[i + 1]
<1> DEFINE m == i \div TileWidth
           r == i % TileWidth
           u == m * TileWidth
           n == Len(e)
<1>1. n \in Nat /\ TileWidth \in Nat /\ 0 < TileWidth
  BY ListLen, Units
<1>2. m \in Nat /\ r \in Nat /\ r < TileWidth /\ i = u + r
  BY <1>1, DivIs
<1> HIDE DEF m, r
<1>3. u \in Nat
  BY <1>1, <1>2, TimesIs
<1>4. Room(n, m) = IF n - u < TileWidth THEN n - u ELSE TileWidth
  BY DEF Room
<1> HIDE DEF u, n
<1>5. u < n /\ r + 1 \in 1..Room(n, m) /\ u + (r + 1) = i + 1
  <2>1. i < n
    BY DEF n
  <2> QED BY <1>1, <1>2, <1>3, <1>4, <2>1
<1>6. EntriesAt(disk, n, m)[r + 1] = e[u + (r + 1)]
  BY <1>2, <1>5, BundleIs DEF u, n
<1>7. EntryAt(n, i) = EntriesAt(disk, n, m)[r + 1]
  BY DEF EntryAt, m, r
<1> QED BY <1>5, <1>6, <1>7 DEF n

LEMMA ProofIs ==
  ASSUME NEW dir, NEW e, IsList(e), Holds(dir, e), NEW i \in Nat
  PROVE  PathOf(ViewMth(dir, Len(e)), i, 0, Len(e)) = PathOf(Mth(Hashes(e)), i, 0, Len(e))
<1> DEFINE n == Len(e)
           v == ViewMth(dir, n)
           m == Mth(Hashes(e))
<1>1. n \in Nat /\ AgreeIn(v, m, n)
  BY ViewHolds
<1> HIDE DEF n, v, m
<1>2. \A w \in Nat : \A j, s \in Nat : s + w <= n => PathOf(v, j, s, w) = PathOf(m, j, s, w)
  BY <1>1, PathSame
<1>3. 0 \in Nat /\ 0 + n <= n
  BY <1>1
<1>4. PathOf(v, i, 0, n) = PathOf(m, i, 0, n)
  BY <1>1, <1>2, <1>3
<1> QED BY <1>4 DEF n, v, m

LEMMA ProofVerifies ==
  ASSUME NEW e, IsList(e), NEW i \in Nat, i < Len(e)
  PROVE  VerifyInclusion(leaf_hash(e[i + 1]), i, Len(e), PathOf(Mth(Hashes(e)), i, 0, Len(e)), MerkleRoot(Hashes(e)))
<1> DEFINE g == Hashes(e)
           n == Len(e)
           proof == PathOf(Mth(g), i, 0, n)
           leaf == leaf_hash(e[i + 1])
<1>1. n \in Nat /\ Len(g) = n /\ i + 1 \in 1..n
  BY ListLen, HashesAre
<1>2. g[i + 1] = leaf
  BY <1>1, HashesAre
<1>3. MerkleRoot(g) = Mth(g)[<<0, n>>]
  BY <1>1 DEF MerkleRoot
<1> HIDE DEF g, n, leaf
<1>4. i < n
  BY DEF n
<1>5. proof \in Seq(HashesOf(Mth(g)))
  BY <1>1, <1>4, OwnPathIsSeq
<1>6. VerifyInclusion(leaf, i, n, proof, Mth(g)[<<0, n>>]) <=> i < n /\ leaf = g[i + 1] /\ proof = PathOf(Mth(g), i, 0, n)
  <2> DEFINE p == proof
  <2>1. p \in Seq(HashesOf(Mth(g)))
    BY <1>5
  <2> HIDE DEF p
  <2>2. VerifyInclusion(leaf, i, n, p, Mth(g)[<<0, n>>]) <=> i < n /\ leaf = g[i + 1] /\ p = PathOf(Mth(g), i, 0, n)
    BY <1>1, <2>1, InclusionIsExact
  <2> QED BY <2>2 DEF p
<1>7. VerifyInclusion(leaf, i, n, proof, MerkleRoot(g))
  BY <1>2, <1>3, <1>4, <1>6
<1> QED BY <1>7 DEF leaf, g, n
=============================================================================
