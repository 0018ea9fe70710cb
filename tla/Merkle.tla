-------------------------------- MODULE Merkle --------------------------------
(***************************************************************************)
(* entrovouch/tlog.py, hashing and proofs: the RFC 9162 tree over a list   *)
(* of leaf hashes, its inclusion and consistency proofs, and the two       *)
(* verifiers.  A hash is a term: two hashes are equal only when they hash  *)
(* the same thing, which is what SHA-256 is trusted for.                   *)
(***************************************************************************)
EXTENDS Integers, Sequences

leaf_hash(entry) == <<"leaf", entry>>
node_hash(left, right) == <<"node", left, right>>
EmptyRoot == <<"empty">>

Pow2[i \in Nat] == IF i = 0 THEN 1 ELSE 2 * Pow2[i - 1]

\* The largest power of two smaller than n (n > 1).
Split(n) == CHOOSE k \in {Pow2[i] : i \in 0..n} : k < n /\ 2 * k >= n

\* The two ranges of leaves a range <<start, n>> is the tree of (n > 1).
LeftOf(r) == <<r[1], Split(r[2])>>
RightOf(r) == <<r[1] + Split(r[2]), r[2] - Split(r[2])>>

(***************************************************************************)
(* mth[<<start, n>>]: the hash of the n leaves from `start`.               *)
(***************************************************************************)
Mth(hashes) ==
  LET mth[r \in Nat \X Nat] ==
        IF r[2] <= 1 THEN IF r[2] = 0 THEN EmptyRoot ELSE hashes[r[1] + 1]
        ELSE node_hash(mth[LeftOf(r)], mth[RightOf(r)])
  IN mth

MerkleRoot(hashes) == Mth(hashes)[<<0, Len(hashes)>>]

\* PATH(m, D[start : start + n]) over the range hashes mth.
PathOf(mth, m, start, n) ==
  LET path[a \in Nat \X (Nat \X Nat)] ==
        IF a[2][2] <= 1 THEN <<>>
        ELSE IF a[1] < Split(a[2][2])
          THEN Append(path[<<a[1], LeftOf(a[2])>>], mth[RightOf(a[2])])
          ELSE Append(path[<<a[1] - Split(a[2][2]), RightOf(a[2])>>], mth[LeftOf(a[2])])
  IN path[<<m, <<start, n>>>>]

\* SUBPROOF(m, D[start : start + n], whole), for 0 < m <= n.
SubproofOf(mth, m, start, n, whole) ==
  LET sub[a \in {b \in Nat \X (Nat \X Nat) \X BOOLEAN : 0 < b[1] /\ b[1] <= b[2][2]}] ==
        IF a[1] = a[2][2] THEN IF a[3] THEN <<>> ELSE <<mth[a[2]]>>
        ELSE IF a[1] <= Split(a[2][2])
          THEN Append(sub[<<a[1], LeftOf(a[2]), a[3]>>], mth[RightOf(a[2])])
          ELSE Append(sub[<<a[1] - Split(a[2][2]), RightOf(a[2]), FALSE>>], mth[LeftOf(a[2])])
  IN sub[<<m, <<start, n>>, whole>>]

InclusionPath(hashes, index, size) == PathOf(Mth(hashes), index, 0, size)

ConsistencyPath(hashes, oldSize, newSize) ==
  IF oldSize \in {0, newSize} THEN <<>>
  ELSE SubproofOf(Mth(hashes), oldSize, 0, newSize, TRUE)

-----------------------------------------------------------------------------
(***************************************************************************)
(* The verifiers walk a pair of indices up the tree, fn for the leaf (or   *)
(* the last leaf of the old tree) and sn for the last leaf of the tree.    *)
(***************************************************************************)
Odd(n) == n % 2 = 1

Halved(w) == [w EXCEPT !.fn = @ \div 2, !.sn = @ \div 2]

\* Fault in Climbed: levels at which the last leaf has no sibling are not passed over.
NotClimbed(w) == w

\* `while not fn & 1 and fn != 0`
Climbed(w) ==
  LET climb[v \in Nat \X Nat] ==
        IF Odd(v[1]) \/ v[1] = 0 THEN v ELSE climb[<<v[1] \div 2, v[2] \div 2>>]
      top == climb[<<w.fn, w.sn>>]
  IN [w EXCEPT !.fn = top[1], !.sn = top[2]]

\* `while fn & 1`
Stripped(w) ==
  LET strip[v \in Nat \X Nat] ==
        IF Odd(v[1]) THEN strip[<<v[1] \div 2, v[2] \div 2>>] ELSE v
      low == strip[<<w.fn, w.sn>>]
  IN [w EXCEPT !.fn = low[1], !.sn = low[2]]

\* Fault in OnTheRight: a last leaf that has no right sibling is not seen to be one.
OddOnTheRight(w) == Odd(w.fn)

\* Is p the left sibling of what has been hashed so far?
OnTheRight(w) == Odd(w.fn) \/ w.fn = w.sn

\* One step of the loop over the proof; a walk that is over accepts no more of it.
Step(w, p) ==
  IF w.sn = 0 THEN [w EXCEPT !.ok = FALSE]
  ELSE Halved(IF OnTheRight(w)
                THEN Climbed([w EXCEPT !.fr = node_hash(p, @), !.sr = node_hash(p, @)])
                ELSE [w EXCEPT !.sr = node_hash(@, p)])

Advanced(w, p) == IF w.ok THEN Step(w, p) ELSE w

Walk(start, proof) ==
  LET walk[i \in 0..Len(proof)] == IF i = 0 THEN start ELSE Advanced(walk[i - 1], proof[i])
  IN walk[Len(proof)]

VerifyInclusion(leaf, index, size, proof, root) ==
  /\ index < size
  /\ LET w == Walk([fn |-> index, sn |-> size - 1, fr |-> leaf, sr |-> leaf, ok |-> TRUE], proof)
     IN w.ok /\ w.sn = 0 /\ w.sr = root

PowerOfTwo(n) == \E i \in 0..n : n = Pow2[i]

\* Fault in Opened: the proof is always taken to hold the hash it starts from.
NeverOpened(oldSize, oldRoot, proof) == proof

\* The old root opens the path when the old tree is a complete subtree of the new one.
Opened(oldSize, oldRoot, proof) ==
  IF PowerOfTwo(oldSize) THEN <<oldRoot>> \o proof ELSE proof

VerifyConsistency(oldSize, newSize, oldRoot, newRoot, proof) ==
  CASE oldSize > newSize -> FALSE
    [] oldSize = newSize -> proof = <<>> /\ oldRoot = newRoot
    [] oldSize = 0 /\ oldSize < newSize -> proof = <<>>
    [] oldSize > 0 /\ oldSize < newSize ->
         /\ proof # <<>>
         /\ LET path  == Opened(oldSize, oldRoot, proof)
                start == Stripped([fn |-> oldSize - 1, sn |-> newSize - 1,
                                   fr |-> path[1], sr |-> path[1], ok |-> TRUE])
                w == Walk(start, Tail(path))
            IN w.ok /\ w.sn = 0 /\ w.fr = oldRoot /\ w.sr = newRoot

-----------------------------------------------------------------------------
(***************************************************************************)
(* detect_fork: what two checkpoints [origin, size, root] of one key say   *)
(* about each other, given a proof or NoProof.                             *)
(***************************************************************************)
CONSTANT NoProof

\* Fault in Compared: a proof that fails is taken for evidence.
FailedProofIsFork(old, new, proof) ==
  CASE old.size = new.size -> IF old.root = new.root THEN "consistent" ELSE "fork"
    [] old.size = 0 /\ old.size < new.size -> "consistent"
    [] old.size > 0 /\ old.size < new.size ->
         IF proof # NoProof /\ VerifyConsistency(old.size, new.size, old.root, new.root, proof)
           THEN "consistent" ELSE "fork"

Compared(old, new, proof) ==
  CASE old.size = new.size -> IF old.root = new.root THEN "consistent" ELSE "fork"
    [] old.size = 0 /\ old.size < new.size -> "consistent"
    [] old.size > 0 /\ old.size < new.size ->
         IF proof # NoProof /\ VerifyConsistency(old.size, new.size, old.root, new.root, proof)
           THEN "consistent" ELSE "unknown"

DetectFork(a, b, proof) ==
  IF a.origin # b.origin THEN "raises"
  ELSE IF a.size > b.size THEN Compared(b, a, proof) ELSE Compared(a, b, proof)
=============================================================================
