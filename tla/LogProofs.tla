------------------------------- MODULE LogProofs -------------------------------
(***************************************************************************)
(* What the verifiers of entrovouch/tlog.py conclude from a claim, against *)
(* the definition of the tree: a claim is put together from any hashes of  *)
(* the tree at hand, right or wrong, and then checked.                     *)
(***************************************************************************)
EXTENDS Merkle, SequencesExt

CONSTANTS MaxSize,      \* trees with every claim about them
          MaxTree,      \* trees with the log's own proofs only
          MaxProof      \* bound on the length of a proof put together

ASSUME BoundsAssumption == MaxSize \in Nat /\ MaxTree \in Nat /\ MaxProof \in Nat

VARIABLES claim,    \* what is put to a verifier
          verdict   \* its answer, "none" before it

vars == <<claim, verdict>>

\* The tree over the entries 0, 1, ... of a log.
LeavesOf(n) == [i \in 1..n |-> leaf_hash(i - 1)]
RootOf(n) == MerkleRoot(LeavesOf(n))

\* Every hash of the tree, the leaves' included.
HashesIn(n) ==
  LET mth == Mth(LeavesOf(n))
      under[r \in Nat \X Nat] ==
        LET s == r[1]  w == r[2]  k == Split(w) IN
        IF w = 1 THEN {mth[r]} ELSE {mth[r]} \cup under[<<s, k>>] \cup under[<<s + k, w - k>>]
  IN under[<<0, n>>]

InclusionClaim(n, index, leaf, proof) ==
  [kind |-> "inclusion", size |-> n, index |-> index, old |-> 0, hash |-> leaf, proof |-> proof]

ConsistencyClaim(n, old, root, proof) ==
  [kind |-> "consistency", size |-> n, index |-> 0, old |-> old, hash |-> root, proof |-> proof]

\* The log's own proofs ...
OwnClaims ==
  {InclusionClaim(p[1], p[2], leaf_hash(p[2]), InclusionPath(LeavesOf(p[1]), p[2], p[1])) :
     p \in {q \in (1..MaxTree) \X (0..MaxTree - 1) : q[2] < q[1]}}
  \cup
  {ConsistencyClaim(p[1], p[2], RootOf(p[2]), ConsistencyPath(LeavesOf(p[1]), p[2], p[1])) :
     p \in {q \in (1..MaxTree) \X (1..MaxTree) : q[2] <= q[1]}}

\* ... and all there are.
AnyClaim ==
  \E n \in 1..MaxSize : LET hashes == HashesIn(n)  roots == {RootOf(j) : j \in 1..n} IN
    \E proof \in BoundedSeq(hashes, MaxProof) :
      \/ \E i \in 0..n, leaf \in hashes : claim = InclusionClaim(n, i, leaf, proof)
      \/ \E m \in 1..(n + 1), root \in hashes \cup roots : claim = ConsistencyClaim(n, m, root, proof)

Init == (claim \in OwnClaims \/ AnyClaim) /\ verdict = "none"

CheckInclusion ==
  /\ verdict = "none" /\ claim.kind = "inclusion"
  /\ verdict' = IF VerifyInclusion(claim.hash, claim.index, claim.size, claim.proof, RootOf(claim.size))
                  THEN "accepted" ELSE "refused"
  /\ UNCHANGED claim

CheckConsistency ==
  /\ verdict = "none" /\ claim.kind = "consistency"
  /\ verdict' = IF VerifyConsistency(claim.old, claim.size, claim.hash, RootOf(claim.size), claim.proof)
                  THEN "accepted" ELSE "refused"
  /\ UNCHANGED claim

Next == CheckInclusion \/ CheckConsistency

Spec == Init /\ [][Next]_vars

-----------------------------------------------------------------------------
(***************************************************************************)
(* An inclusion proof is accepted exactly when it is the log's own for the *)
(* leaf that is at that index (verify_inclusion).                          *)
(***************************************************************************)
InclusionExact ==
  verdict # "none" /\ claim.kind = "inclusion" =>
    (verdict = "accepted" <=>
       /\ claim.index < claim.size
       /\ claim.hash = leaf_hash(claim.index)
       /\ claim.proof = InclusionPath(LeavesOf(claim.size), claim.index, claim.size))

(***************************************************************************)
(* A consistency proof is accepted exactly when the old root is the root   *)
(* of the first leaves of the new tree and the proof is the log's own      *)
(* (verify_consistency, for old sizes above 0).                            *)
(***************************************************************************)
ConsistencyExact ==
  verdict # "none" /\ claim.kind = "consistency" =>
    (verdict = "accepted" <=>
       /\ claim.old <= claim.size
       /\ claim.hash = RootOf(claim.old)
       /\ claim.proof = ConsistencyPath(LeavesOf(claim.size), claim.old, claim.size))

\* Inclusion and consistency proofs are accepted exactly when they are the log's own (verify_inclusion, verify_consistency).
AcceptedIsTrue == InclusionExact /\ ConsistencyExact
=============================================================================
