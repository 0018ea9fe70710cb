--------------------------- MODULE Verifiers_proofs ---------------------------
(***************************************************************************)
(* What a buyer can rely on.  The two verifiers of entrovouch/tlog.py      *)
(* accept what is true and nothing else, for logs and proofs of every      *)
(* length (the exactness of Merkle_proofs, for the tree of a log's         *)
(* entries); a fork is told from what was handed out; a report, a          *)
(* Statement and a proof bundle that pass say what was signed, however     *)
(* they were changed on their way; the alerts of a report keep apart and   *)
(* keep their identity; each weakness is stated once; what a command reads *)
(* it does not overwrite; and a hash-based signature verifies exactly for  *)
(* what was signed.                                                        *)
(***************************************************************************)
EXTENDS LogProofs, ForkCheck, LogEvidence, Merkle_proofs, ReportTrust, Sarif, Outputs, Statements,
        Signatures, FiniteSetTheorems, SequenceTheorems

\* A claim, by its fields.
ClaimIs(c) ==
  /\ c.kind \in {"inclusion", "consistency"}
  /\ c.size \in Nat \ {0} /\ c.index \in Nat /\ c.old \in Nat
  /\ c.kind = "consistency" => c.old # 0
  /\ \E S : c.proof \in Seq(S)

LEMMA InclusionFields ==
  ASSUME NEW n \in Nat \ {0}, NEW i \in Nat, NEW leaf, NEW S, NEW proof \in Seq(S)
  PROVE  ClaimIs(InclusionClaim(n, i, leaf, proof))
BY DEF ClaimIs, InclusionClaim

LEMMA ConsistencyFields ==
  ASSUME NEW n \in Nat \ {0}, NEW m \in Nat \ {0}, NEW root, NEW S, NEW proof \in Seq(S)
  PROVE  ClaimIs(ConsistencyClaim(n, m, root, proof))
BY DEF ClaimIs, ConsistencyClaim

LEMMA BoundedIsSeq ==
  ASSUME NEW S, NEW n \in Nat, NEW s \in BoundedSeq(S, n)
  PROVE  s \in Seq(S)
BY DEF BoundedSeq, SeqOf

-----------------------------------------------------------------------------
LEMMA LeavesAre ==
  ASSUME NEW n \in Nat
  PROVE  /\ Len(LeavesOf(n)) = n /\ RootOf(n) = Mth(LeavesOf(n))[<<0, n>>]
         /\ \A i \in Nat : i < n => LeavesOf(n)[i + 1] = leaf_hash(i)
<1>1. Len(LeavesOf(n)) = n
  BY DEF LeavesOf
<1>2. ASSUME NEW i \in Nat, i < n PROVE LeavesOf(n)[i + 1] = leaf_hash(i)
  <2>1. i + 1 \in 1..n /\ (i + 1) - 1 = i
    BY <1>2
  <2> QED BY <2>1 DEF LeavesOf
<1> QED BY <1>1, <1>2 DEF RootOf, MerkleRoot

\* The tree over the first m entries is in the tree over n of them.
LEMMA FirstLeaves ==
  ASSUME NEW n \in Nat, NEW m \in Nat, m <= n
  PROVE  RootOf(m) = Mth(LeavesOf(n))[<<0, m>>]
<1>1. SameLeaves(LeavesOf(m), LeavesOf(n), m)
  BY DEF SameLeaves, LeavesOf
<1>2. 0 + m <= m /\ 0 \in Nat
  OBVIOUS
<1>3. Mth(LeavesOf(m))[<<0, m>>] = Mth(LeavesOf(n))[<<0, m>>]
  BY <1>1, <1>2, MthPrefix
<1> QED BY <1>3, LeavesAre

-----------------------------------------------------------------------------
\* Every claim a verifier is given, the log's own included, is made of a sequence.
LEMMA InitClaims ==
  Init => ClaimIs(claim) /\ verdict = "none"
<1>1. ASSUME claim \in OwnClaims PROVE ClaimIs(claim)
  <2>1. CASE \E p \in {q \in (1..MaxTree) \X (0..MaxTree - 1) : q[2] < q[1]} :
               claim = InclusionClaim(p[1], p[2], leaf_hash(p[2]), InclusionPath(LeavesOf(p[1]), p[2], p[1]))
    <3>1. PICK p \in (1..MaxTree) \X (0..MaxTree - 1) :
            /\ p[2] < p[1]
            /\ claim = InclusionClaim(p[1], p[2], leaf_hash(p[2]), InclusionPath(LeavesOf(p[1]), p[2], p[1]))
      BY <2>1
    <3>2. p[1] \in Nat \ {0} /\ p[2] \in Nat
      BY <3>1, BoundsAssumption
    <3> DEFINE hashes == LeavesOf(p[1])
    <3>3. InclusionPath(hashes, p[2], p[1]) \in Seq(HashesOf(Mth(hashes)))
      BY <3>1, <3>2, OwnPathIsSeq DEF InclusionPath
    <3> QED BY <3>1, <3>2, <3>3, InclusionFields
  <2>2. CASE \E p \in {q \in (1..MaxTree) \X (1..MaxTree) : q[2] <= q[1]} :
               claim = ConsistencyClaim(p[1], p[2], RootOf(p[2]), ConsistencyPath(LeavesOf(p[1]), p[2], p[1]))
    <3>1. PICK p \in (1..MaxTree) \X (1..MaxTree) :
            /\ p[2] <= p[1]
            /\ claim = ConsistencyClaim(p[1], p[2], RootOf(p[2]), ConsistencyPath(LeavesOf(p[1]), p[2], p[1]))
      BY <2>2
    <3>2. p[1] \in Nat \ {0} /\ p[2] \in Nat \ {0}
      BY <3>1, BoundsAssumption
    <3> DEFINE hashes == LeavesOf(p[1])
    <3>3. ConsistencyPath(hashes, p[2], p[1]) \in Seq(HashesOf(Mth(hashes)))
      <4> HIDE DEF hashes
      <4> QED BY <3>1, <3>2, ConsistencyIsSeq
    <3> QED BY <3>1, <3>2, <3>3, ConsistencyFields
  <2> QED BY <1>1, <2>1, <2>2 DEF OwnClaims
<1>2. ASSUME AnyClaim PROVE ClaimIs(claim)
  <2>1. PICK n \in 1..MaxSize :
          LET hashes == HashesIn(n)  roots == {RootOf(j) : j \in 1..n} IN
          \E proof \in BoundedSeq(hashes, MaxProof) :
            \/ \E i \in 0..n, leaf \in hashes : claim = InclusionClaim(n, i, leaf, proof)
            \/ \E m \in 1..(n + 1), root \in hashes \cup roots : claim = ConsistencyClaim(n, m, root, proof)
    BY <1>2 DEF AnyClaim
  <2> DEFINE hashes == HashesIn(n)
  <2> HIDE DEF hashes
  <2>2. PICK proof \in BoundedSeq(hashes, MaxProof) :
          \/ \E i \in 0..n : \E leaf : claim = InclusionClaim(n, i, leaf, proof)
          \/ \E m \in 1..(n + 1) : \E root : claim = ConsistencyClaim(n, m, root, proof)
    BY <2>1 DEF hashes
  <2>3. proof \in Seq(hashes) /\ n \in Nat \ {0} /\ 0..n \subseteq Nat /\ 1..(n + 1) \subseteq Nat \ {0}
    BY BoundsAssumption, BoundedIsSeq
  <2> QED BY <2>2, <2>3, InclusionFields, ConsistencyFields
<1> QED BY <1>1, <1>2 DEF Init

-----------------------------------------------------------------------------
\* The verifiers, for the tree of a log's entries.
LEMMA InclusionOfLog ==
  ASSUME NEW n \in Nat, NEW i \in Nat, NEW leaf, NEW S, NEW proof \in Seq(S)
  PROVE  VerifyInclusion(leaf, i, n, proof, RootOf(n))
           <=> i < n /\ leaf = leaf_hash(i) /\ proof = InclusionPath(LeavesOf(n), i, n)
<1> DEFINE hashes == LeavesOf(n)
<1>1. RootOf(n) = Mth(hashes)[<<0, n>>] /\ (i < n => hashes[i + 1] = leaf_hash(i))
  BY LeavesAre
<1> HIDE DEF hashes
<1>2. VerifyInclusion(leaf, i, n, proof, Mth(hashes)[<<0, n>>])
        <=> i < n /\ leaf = hashes[i + 1] /\ proof = PathOf(Mth(hashes), i, 0, n)
  BY InclusionIsExact
<1>3. InclusionPath(hashes, i, n) = PathOf(Mth(hashes), i, 0, n)
  BY DEF InclusionPath
<1> QED BY <1>1, <1>2, <1>3 DEF hashes

LEMMA ConsistencyOfLog ==
  ASSUME NEW n \in Nat, NEW old \in Nat \ {0}, NEW root, NEW S, NEW proof \in Seq(S)
  PROVE  VerifyConsistency(old, n, root, RootOf(n), proof)
           <=> old <= n /\ root = RootOf(old) /\ proof = ConsistencyPath(LeavesOf(n), old, n)
<1> DEFINE hashes == LeavesOf(n)
<1>1. CASE old > n
  <2>1. old > n /\ ~(old <= n) /\ ~(old = n) /\ ~(old < n) /\ ~(old = 0)
    BY <1>1
  <2>2. ~VerifyConsistency(old, n, root, RootOf(n), proof)
    BY <2>1 DEF VerifyConsistency
  <2> QED BY <2>1, <2>2
<1>2. CASE old = n
  <2>1. ConsistencyPath(hashes, old, n) = <<>>
    BY <1>2 DEF ConsistencyPath
  <2>2. VerifyConsistency(old, n, root, RootOf(n), proof) <=> proof = <<>> /\ root = RootOf(n)
    <3>1. ~(old > n) /\ ~(old < n)
      BY <1>2
    <3> QED BY <1>2, <3>1 DEF VerifyConsistency
  <2> QED BY <1>2, <2>1, <2>2
<1>3. CASE old < n
  <2>1. RootOf(n) = Mth(hashes)[<<0, n>>] /\ RootOf(old) = Mth(hashes)[<<0, old>>]
    <3>1. RootOf(n) = Mth(hashes)[<<0, n>>]
      BY LeavesAre
    <3>2. old \in Nat /\ old <= n
      BY <1>3
    <3> QED BY <3>1, <3>2, FirstLeaves
  <2>2. old <= n /\ ConsistencyPath(LeavesOf(n), old, n) = ConsistencyPath(hashes, old, n)
    BY <1>3
  <2> HIDE DEF hashes
  <2>3. VerifyConsistency(old, n, root, Mth(hashes)[<<0, n>>], proof)
          <=> root = Mth(hashes)[<<0, old>>] /\ proof = ConsistencyPath(hashes, old, n)
    BY <1>3, ConsistencyIsJudged
  <2> QED BY <2>1, <2>2, <2>3
<1> QED BY <1>1, <1>2, <1>3

BInv == ClaimIs(claim) /\ AcceptedIsTrue

(***************************************************************************)
(* A verifier accepts a claim about a log exactly when it is true and its  *)
(* proof the log's own (verify_inclusion, verify_consistency): whatever    *)
(* the length of the log, of an older one, and of the proof.               *)
(***************************************************************************)
THEOREM OnlyTheTruthIsAccepted == Spec => []AcceptedIsTrue
<1>1. Init => BInv
  BY InitClaims DEF BInv, AcceptedIsTrue, InclusionExact, ConsistencyExact
<1>2. BInv /\ [Next]_vars => BInv'
  <2> SUFFICES ASSUME BInv, [Next]_vars PROVE BInv'
    OBVIOUS
  <2>1. CASE CheckInclusion
    <3>1. claim.size \in Nat /\ claim.index \in Nat /\ claim.kind = "inclusion" /\ claim' = claim
      BY <2>1 DEF BInv, ClaimIs, CheckInclusion
    <3>2. PICK S : claim.proof \in Seq(S)
      BY DEF BInv, ClaimIs
    <3>3. VerifyInclusion(claim.hash, claim.index, claim.size, claim.proof, RootOf(claim.size))
            <=> /\ claim.index < claim.size /\ claim.hash = leaf_hash(claim.index)
                /\ claim.proof = InclusionPath(LeavesOf(claim.size), claim.index, claim.size)
      BY <3>1, <3>2, InclusionOfLog
    <3>4. verdict' = "accepted" <=> VerifyInclusion(claim.hash, claim.index, claim.size, claim.proof, RootOf(claim.size))
      BY <2>1 DEF CheckInclusion
    <3> QED BY <3>1, <3>3, <3>4 DEF BInv, ClaimIs, AcceptedIsTrue, InclusionExact, ConsistencyExact
  <2>2. CASE CheckConsistency
    <3>1. claim.size \in Nat /\ claim.old \in Nat \ {0} /\ claim.kind = "consistency" /\ claim' = claim
      BY <2>2 DEF BInv, ClaimIs, CheckConsistency
    <3>2. PICK S : claim.proof \in Seq(S)
      BY DEF BInv, ClaimIs
    <3>3. VerifyConsistency(claim.old, claim.size, claim.hash, RootOf(claim.size), claim.proof)
            <=> /\ claim.old <= claim.size /\ claim.hash = RootOf(claim.old)
                /\ claim.proof = ConsistencyPath(LeavesOf(claim.size), claim.old, claim.size)
      BY <3>1, <3>2, ConsistencyOfLog
    <3>4. verdict' = "accepted" <=> VerifyConsistency(claim.old, claim.size, claim.hash, RootOf(claim.size), claim.proof)
      BY <2>2 DEF CheckConsistency
    <3> QED BY <3>1, <3>3, <3>4 DEF BInv, ClaimIs, AcceptedIsTrue, InclusionExact, ConsistencyExact
  <2>3. CASE UNCHANGED vars
    BY <2>3 DEF BInv, ClaimIs, AcceptedIsTrue, InclusionExact, ConsistencyExact, vars
  <2> QED BY <2>1, <2>2, <2>3 DEF Next
<1>3. BInv => AcceptedIsTrue
  BY DEF BInv
<1> QED BY <1>1, <1>2, <1>3, PTL DEF Spec


-----------------------------------------------------------------------------
(***************************************************************************)
(* ForkCheck: buyers who compare checkpoints.                             *)
(***************************************************************************)
LEMMA CheckpointHeads ==
  ASSUME NEW c
  PROVE  IsHead(Checkpoint(c), c.entries) /\ Checkpoint(c).origin = c.origin
BY DEF Checkpoint, IsHead, Hashes, LeafHashes

LEMMA PrefixBegins ==
  ASSUME NEW T, NEW c \in Seq(T), NEW d \in Seq(T)
  PROVE  IsPrefix(c, d) <=> Begins(c, d)
<1>1. Len(c) <= Len(d) => (SubSeq(c, 1, Len(c)) = SubSeq(d, 1, Len(c)) <=> \A i \in 1..Len(c) : c[i] = d[i])
  <2> SUFFICES ASSUME Len(c) <= Len(d)
               PROVE  SubSeq(c, 1, Len(c)) = SubSeq(d, 1, Len(c)) <=> \A i \in 1..Len(c) : c[i] = d[i]
    OBVIOUS
  <2>1. /\ SubSeq(c, 1, Len(c)) = [i \in 1..Len(c) |-> c[i]]
        /\ SubSeq(d, 1, Len(c)) = [i \in 1..Len(c) |-> d[i]]
    OBVIOUS
  <2> QED BY <2>1
<1> QED BY <1>1 DEF IsPrefix, Begins

LEMMA SmallerGreater ==
  ASSUME NEW m \in Nat, NEW n \in Nat
  PROVE  /\ Min({m, n}) = IF m <= n THEN m ELSE n
         /\ Max({m, n}) = IF m <= n THEN n ELSE m
BY DEF Min, Max


\* A checkpoint of a list of entries.
Covers(c) == c.entries \in Seq(Entries)

\* An answer detect_fork may give about a and b, with this proof.
Truly(result, a, b, proof) ==
  /\ result = "fork" => ~Extends(a, b)
  /\ result = "consistent" => Extends(a, b)
  /\ result = "unknown" => /\ Len(a.entries) # Len(b.entries)
                           /\ Extends(a, b) => proof # OwnProof(a, b)

LEMMA AnswersAreTrue ==
  ASSUME NoneIsNoProof, NEW a, NEW b, Covers(a), Covers(b), NEW S, NEW proof \in Seq(S) \cup {NoProof}
  PROVE  Truly(DetectFork(Checkpoint(a), Checkpoint(b), proof), a, b, proof)
<1> DEFINE c == a.entries
           d == b.entries
           A == Checkpoint(a)
           B == Checkpoint(b)
<1>1. c \in Seq(Entries) /\ d \in Seq(Entries) /\ Len(c) \in Nat /\ Len(d) \in Nat
  BY DEF Covers
<1>2. IsHead(A, c) /\ IsHead(B, d)
  BY CheckpointHeads
<1>3. A.size = Len(c) /\ B.size = Len(d)
  BY <1>2 DEF IsHead
<1>4. Extends(a, b) <=> Begins(c, d) \/ Begins(d, c)
  BY <1>1, PrefixBegins DEF Extends
<1>5. Len(c) <= Len(d) /\ Begins(d, c) => Begins(c, d)
  BY <1>1 DEF Begins
<1>6. Len(d) <= Len(c) /\ Begins(c, d) => Begins(d, c)
  BY <1>1 DEF Begins
<1>7. OwnProof(a, b) = IF Len(c) > Len(d) THEN ConsistencyPath(LeafHashes(c), Len(d), Len(c))
                                         ELSE ConsistencyPath(LeafHashes(d), Len(c), Len(d))
  <2>1. Hashes(c) = LeafHashes(c) /\ Hashes(d) = LeafHashes(d)
    BY DEF Hashes, LeafHashes
  <2>2. CASE Len(c) > Len(d)
    <3> HIDE DEF c, d
    <3>1. Min({Len(c), Len(d)}) = Len(d) /\ Max({Len(c), Len(d)}) = Len(c)
      <4>1. ~(Len(c) <= Len(d))
        BY <1>1, <2>2
      <4> QED BY <1>1, <4>1, SmallerGreater
    <3> QED BY <2>1, <2>2, <3>1 DEF OwnProof, c, d
  <2>3. CASE ~(Len(c) > Len(d))
    <3> HIDE DEF c, d
    <3>1. Min({Len(c), Len(d)}) = Len(c) /\ Max({Len(c), Len(d)}) = Len(d)
      <4>1. Len(c) <= Len(d)
        BY <1>1, <2>3
      <4> QED BY <1>1, <4>1, SmallerGreater
    <3> QED BY <2>1, <2>3, <3>1 DEF OwnProof, c, d
  <2> QED BY <2>2, <2>3
<1>8. DetectFork(A, B, proof) \in {"raises", IF Len(c) > Len(d) THEN Compared(B, A, proof) ELSE Compared(A, B, proof)}
  BY <1>3 DEF DetectFork
<1> HIDE DEF A, B, c, d
<1>9. CASE Len(c) > Len(d)
  <2>1. /\ Compared(B, A, proof) = "consistent" <=>
             Begins(d, c) /\ (Len(d) \in {0, Len(c)} \/ proof = ConsistencyPath(LeafHashes(c), Len(d), Len(c)))
        /\ Compared(B, A, proof) = "fork" <=> Len(d) = Len(c) /\ ~Begins(d, c)
    BY <1>1, <1>2, <1>9, ForksAreDetectedExactly
  <2>2. Len(d) # Len(c) /\ Len(d) <= Len(c)
    BY <1>1, <1>9
  <2> QED BY <1>4, <1>6, <1>7, <1>8, <1>9, <2>1, <2>2 DEF Truly, A, B, c, d
<1>10. CASE ~(Len(c) > Len(d))
  <2>1. Len(c) <= Len(d)
    BY <1>1, <1>10
  <2>2. /\ Compared(A, B, proof) = "consistent" <=>
             Begins(c, d) /\ (Len(c) \in {0, Len(d)} \/ proof = ConsistencyPath(LeafHashes(d), Len(c), Len(d)))
        /\ Compared(A, B, proof) = "fork" <=> Len(c) = Len(d) /\ ~Begins(c, d)
    BY <1>1, <1>2, <2>1, ForksAreDetectedExactly
  <2>3. Compared(A, B, proof) = "unknown" => Len(c) # Len(d)
    BY <2>2
  <2> QED BY <1>4, <1>5, <1>7, <1>8, <1>10, <2>1, <2>2, <2>3 DEF Truly, A, B, c, d
<1> QED BY <1>9, <1>10

FInv ==
  /\ log \in [Dirs -> Seq(Entries)]
  /\ \A c \in handed : Covers(c)
  /\ ForksAreTold

\* A proof of a log of any of the directories, or none.
LEMMA ProofsAreSeqs ==
  ASSUME FInv, NEW m \in Nat, NEW n \in Nat, m <= n, NEW proof \in Proofs(m, n)
  PROVE  \E S : proof \in Seq(S) \cup {NoProof}
<1>1. ASSUME NEW d \in Dirs, proof = ConsistencyPath(Hashes(log[d]), m, n)
      PROVE  \E S : proof \in Seq(S)
  <2> DEFINE g == Hashes(log[d])
  <2> HIDE DEF g
  <2>1. ConsistencyPath(g, m, n) \in Seq(HashesOf(Mth(g)))
    BY ConsistencyIsSeq
  <2> QED BY <1>1, <2>1 DEF g
<1> QED BY <1>1 DEF Proofs

(***************************************************************************)
(* A buyer who compares two checkpoints is told of a fork, or that they    *)
(* are consistent, only when it is so, and the log's own proof always      *)
(* convinces (detect_fork): whatever directories are copied, put back and  *)
(* appended to, and whatever proof is handed over, for every size of log.  *)
(***************************************************************************)
THEOREM ForksAreAlwaysTold ==
  ASSUME NoneIsNoProof
  PROVE  ForkSpec => []ForksAreTold
<1>1. ForkInit => FInv
  BY DEF ForkInit, FInv, ForksAreTold, AnswerIsTrue, OwnProofConvinces, NoAnswer
<1>2. FInv /\ [ForkNext]_forkVars => FInv'
  <2> SUFFICES ASSUME FInv, [ForkNext]_forkVars PROVE FInv'
    OBVIOUS
  <2>1. ASSUME answer' = NoAnswer PROVE ForksAreTold'
    BY <2>1 DEF ForksAreTold, AnswerIsTrue, OwnProofConvinces, NoAnswer
  <2>2. ASSUME NEW d \in Dirs, NEW e \in Entries, AppendEntry(d, e) PROVE FInv'
    <3>1. log[d] \in Seq(Entries)
      BY DEF FInv
    <3>2. Append(log[d], e) \in Seq(Entries)
      BY <3>1
    <3>3. log' = [log EXCEPT ![d] = Append(log[d], e)] /\ handed' = handed /\ answer' = NoAnswer
      BY <2>2 DEF AppendEntry
    <3> QED BY <2>1, <3>2, <3>3 DEF FInv, Covers
  <2>3. ASSUME NEW d \in Dirs, HandOut(d) PROVE FInv'
    <3>1. log[d] \in Seq(Entries)
      BY DEF FInv
    <3>2. /\ log' = log /\ answer' = NoAnswer
          /\ handed' = handed \cup {[origin |-> origin[d], entries |-> log[d]]}
      BY <2>3 DEF HandOut
    <3> QED BY <2>1, <3>1, <3>2 DEF FInv, Covers
  <2>4. ASSUME NEW c \in Dirs, NEW d \in Dirs, PutBack(c, d) PROVE FInv'
    <3>1. log' = [log EXCEPT ![c] = log[d]] /\ handed' = handed /\ answer' = NoAnswer
      BY <2>4 DEF PutBack
    <3> QED BY <2>1, <3>1 DEF FInv, Covers
  <2>5. ASSUME NEW a \in handed, NEW b \in handed, Compare(a, b) PROVE FInv'
    <3> DEFINE m == Len(a.entries)
               n == Len(b.entries)
    <3>1. Covers(a) /\ Covers(b) /\ m \in Nat /\ n \in Nat
      BY DEF FInv, Covers
    <3>2. PICK proof \in Proofs(Min({m, n}), Max({m, n})) :
            /\ answer' = [a |-> a, b |-> b, proof |-> proof,
                          result |-> DetectFork(Checkpoint(a), Checkpoint(b), proof)]
            /\ log' = log /\ handed' = handed
      BY <2>5 DEF Compare
    <3>3. /\ Min({m, n}) \in Nat /\ Max({m, n}) \in Nat
          /\ Min({m, n}) <= Max({m, n})
      BY <3>1, SmallerGreater
    <3>4. PICK S : proof \in Seq(S) \cup {NoProof}
      BY <3>3, ProofsAreSeqs
    <3>5. Truly(answer'.result, answer'.a, answer'.b, answer'.proof)
      BY <3>1, <3>2, <3>4, AnswersAreTrue
    <3>6. ForksAreTold'
      BY <3>5 DEF Truly, ForksAreTold, AnswerIsTrue, OwnProofConvinces
    <3> QED BY <3>2, <3>6 DEF FInv, Covers
  <2>6. CASE UNCHANGED forkVars
    BY <2>6 DEF FInv, Covers, ForksAreTold, AnswerIsTrue, OwnProofConvinces, forkVars
  <2> QED BY <2>2, <2>3, <2>4, <2>5, <2>6 DEF ForkNext
<1>3. FInv => ForksAreTold
  BY DEF FInv
<1> QED BY <1>1, <1>2, <1>3, PTL DEF ForkSpec

-----------------------------------------------------------------------------
(***************************************************************************)
(* What a report and its Statement are worth (ReportTrust).                *)
(***************************************************************************)
\* No word the checks use for something else is a key.
TrustConstants == /\ Issuer \in Keys
                  /\ {NoRoot, "junk", Empty, Absent} \cap Keys = {}

ReportFields == BodyFields \cup {"hash", "tag", "signature"}
StatementFields == {"predicate", "subject", "ptype", "block", "foreign"}
BlockFields == {"by", "algorithm", "root", "value"}

HasFields(r, fields) == r = [f \in fields |-> r[f]]

\* A signature that is an object was made by a key's owner, over a body of that owner's, whatever root it names now.
MadeSignature(sig, made) ==
  \E k \in Keys, root \in Keys : \E b :
    b \in made[k] /\ sig = [by |-> k, root |-> root, algorithm |-> "lamport", over |-> b]
SignatureOK(sig, made) == sig \in {NoSig, Junk} \/ MadeSignature(sig, made)

ReportOK(r, made) == HasFields(r, ReportFields) /\ SignatureOK(r.signature, made)

StatementOK(s, made) ==
  /\ HasFields(s, StatementFields) /\ HasFields(s.predicate, PredicateFields)
  /\ s.block \in {NoSig, Junk} \/ (HasFields(s.block, BlockFields) /\ s.block.by = "tool" /\ SignatureOK(s.block.value, made))

SignedOK(made) == HasFields(made, Keys) /\ \A b \in made[Issuer] : b.root = Issuer

TrustInv ==
  /\ SignedOK(signed)
  /\ doc # None => ReportOK(doc, signed)
  /\ stmt # None => doc # None /\ StatementOK(stmt, signed)

-----------------------------------------------------------------------------
(* What follows of a report and a Statement in that state. *)

LEMMA MadeObject ==
  ASSUME TrustConstants, NEW sig, NEW made, SignatureOK(sig, made), IsObject(sig)
  PROVE  sig.by \in Keys /\ sig.root \in Keys /\ sig.over \in made[sig.by]
BY DEF SignatureOK, MadeSignature, IsObject

LEMMA AttestedIs ==
  ASSUME TrustConstants, NEW r, NEW tool, NEW root \in Keys, VerifyReport(r, root, tool) = "ATTESTED"
  PROVE  /\ r.tag = Empty /\ IsObject(r.signature) /\ r.signature.root = root
         /\ r.signature.over = Body(r) /\ r.signature.by = root
BY DEF VerifyReport, Signature, VerifyAny, TrustConstants, NoRoot

LEMMA StatementAttestedIs ==
  ASSUME TrustConstants, NEW s, NEW root \in Keys, VerifyStatement(s, root) = "ATTESTED"
  PROVE  /\ ~s.foreign /\ IsObject(s.block) /\ IsObject(s.block.value) /\ s.block.value.root = root
         /\ s.block.value.over = Rebuilt(s, s.block.root, s.block.algorithm) /\ s.block.value.by = root
BY DEF VerifyStatement, Signature, VerifyAny, TrustConstants, NoRoot, IsObject

LEMMA AttestedSigned ==
  ASSUME TrustConstants, TrustInv
  PROVE  AttestedWasSigned
<1>1. ASSUME doc # None, VerifyCommand(doc, Issuer) PROVE Body(doc) \in signed[Issuer] /\ doc.tag = Empty
  <2>1. VerifyReport(doc, Issuer, doc.tool) = "ATTESTED"
    BY <1>1 DEF VerifyCommand
  <2>2. /\ doc.tag = Empty /\ IsObject(doc.signature)
        /\ doc.signature.over = Body(doc) /\ doc.signature.by = Issuer
    BY <2>1, AttestedIs DEF TrustConstants
  <2>3. SignatureOK(doc.signature, signed)
    BY <1>1 DEF TrustInv, ReportOK
  <2> QED BY <2>2, <2>3, MadeObject
<1>2. ASSUME stmt # None, VerifyStatement(stmt, Issuer) = "ATTESTED"
      PROVE  Rebuilt(stmt, stmt.block.root, stmt.block.algorithm) \in signed[Issuer] /\ ~stmt.foreign
  <2>1. /\ ~stmt.foreign /\ IsObject(stmt.block) /\ IsObject(stmt.block.value)
        /\ stmt.block.value.over = Rebuilt(stmt, stmt.block.root, stmt.block.algorithm) /\ stmt.block.value.by = Issuer
    BY <1>2, StatementAttestedIs DEF TrustConstants
  <2>2. SignatureOK(stmt.block.value, signed)
    BY <1>2, <2>1 DEF TrustInv, StatementOK, IsObject
  <2> QED BY <2>1, <2>2, MadeObject
<1> QED BY <1>1, <1>2 DEF AttestedWasSigned

LEMMA StrippedTampered ==
  ASSUME TrustConstants, TrustInv
  PROVE  StrippedIsTampered
<1>1. Issuer \notin {Empty, Absent}
  BY DEF TrustConstants
<1>2. ASSUME doc # None, Body(doc) \in signed[Issuer], NEW root \in Roots
      PROVE  VerifyReport(doc, root, doc.tool) # "UNSIGNED"
  <2>1. Body(doc).root = Issuer
    BY <1>2 DEF TrustInv, SignedOK
  <2>2. doc.root = Issuer
    BY <2>1 DEF Body, BodyFields
  <2>3. ClaimsSigned(doc)
    BY <1>1, <2>2 DEF ClaimsSigned
  <2> QED BY <2>3 DEF VerifyReport, Signature
<1>3. ASSUME stmt # None, Rebuilt(stmt, stmt.predicate.root, stmt.predicate.algorithm) \in signed[Issuer]
      PROVE  VerifyStatement(stmt, NoRoot) # "UNSIGNED"
  <2>1. Rebuilt(stmt, stmt.predicate.root, stmt.predicate.algorithm).root = Issuer
    BY <1>3 DEF TrustInv, SignedOK
  <2>2. stmt.predicate.root = Issuer
    BY <2>1 DEF Rebuilt, BodyFields
  <2>3. ClaimsSigned(stmt.predicate)
    BY <1>1, <2>2 DEF ClaimsSigned
  <2> QED BY <2>3 DEF VerifyStatement, Signature
<1> QED BY <1>2, <1>3 DEF StrippedIsTampered

LEMMA BodyIsThere == ASSUME NEW r PROVE Body(r) # Missing
<1>1. DOMAIN Body(r) = BodyFields /\ DOMAIN Missing = {"absent"}
  BY DEF Body, Missing
<1>2. "absent" \notin BodyFields
  BY DEF BodyFields
<1> QED BY <1>1, <1>2

LEMMA GateVerifies ==
  ASSUME NEW r, NEW kind
  PROVE  Loads(r, kind) <=> VerifyReport(r, NoRoot, kind) # "TAMPERED"
<1>1. Body(r) # Missing
  BY BodyIsThere
<1>2. CASE r.signature = NoSig
  BY <1>1, <1>2 DEF Loads, KindProblem, ReportProblem, HashMatches, VerifyReport
<1>3. CASE r.signature # NoSig
  BY <1>1, <1>3 DEF Loads, KindProblem, ReportProblem, HashMatches, VerifyReport, Signature
<1> QED BY <1>2, <1>3

LEMMA ObjectBlock ==
  ASSUME NEW r
  PROVE  LET b == [by |-> "tool", algorithm |-> r.algorithm, root |-> r.root, value |-> r.signature]
         IN  IsObject(b) /\ b.value = r.signature /\ b.root = r.root /\ b.algorithm = r.algorithm
<1> DEFINE b == [by |-> "tool", algorithm |-> r.algorithm, root |-> r.root, value |-> r.signature]
<1>1. b.by = "tool" /\ NoSig.by # "tool" /\ Junk.by # "tool"
  BY DEF NoSig, Junk, NoRoot
<1>2. b # NoSig /\ b # Junk
  <2> HIDE DEF b
  <2> QED BY <1>1
<1> QED BY <1>2 DEF IsObject

(* The Statement of a report, taken apart again, is the report's body. *)
LEMMA StatementOfLoaded ==
  ASSUME NEW r, NEW kind, Loads(r, kind), NEW s, s = ToStatement(r, kind)
  PROVE  /\ s.predicate = [f \in PredicateFields |-> r[f]] /\ s.ptype = kind /\ ~s.foreign
         /\ s.subject.naming = "intoto" /\ ReportSubject(s.subject) = SubjectOf(r.target, "report")
         /\ s.block = IF r.signature = NoSig THEN NoSig
                      ELSE [by |-> "tool", algorithm |-> r.algorithm, root |-> r.root, value |-> r.signature]
<1>1. StatementSubject(r) = SubjectOf(r.target, "report")
  BY DEF Loads, ReportProblem, SubjectMatches, StatementSubject
<1>2. s.subject = SubjectOf(r.target, "intoto")
  BY <1>1 DEF ToStatement, Renamed, SubjectOf
<1>3. ReportSubject(s.subject) = SubjectOf(r.target, "report") /\ s.subject.naming = "intoto"
  BY <1>2 DEF ReportSubject, Renamed, SubjectOf
<1> QED BY <1>3 DEF ToStatement

LEMMA RebuiltIs ==
  ASSUME NEW r, NEW s, s.predicate = [f \in PredicateFields |-> r[f]],
         ReportSubject(s.subject) = SubjectOf(r.target, "report"), NEW root, NEW algorithm
  PROVE  LET w == Rebuilt(s, root, algorithm)
         IN  /\ w.tool = r.tool /\ w.target = r.target /\ w.claim = r.claim /\ w.fdig = r.fdig
             /\ w.subject = SubjectOf(r.target, "report") /\ w.root = root /\ w.algorithm = algorithm
             /\ Reproducible(w) = Reproducible(r)
             /\ (r.subject = SubjectOf(r.target, "report") /\ root = r.root /\ algorithm = r.algorithm) => w = Body(r)
<1> DEFINE w == Rebuilt(s, root, algorithm)
<1>1. /\ s.predicate.tool = r.tool /\ s.predicate.target = r.target /\ s.predicate.claim = r.claim
      /\ s.predicate.fdig = r.fdig
  BY DEF PredicateFields
<1>2. w = [tool |-> r.tool, target |-> r.target, claim |-> r.claim, subject |-> SubjectOf(r.target, "report"),
           fdig |-> r.fdig, root |-> root, algorithm |-> algorithm]
  BY <1>1 DEF Rebuilt
<1>3. /\ w.tool = r.tool /\ w.target = r.target /\ w.claim = r.claim /\ w.fdig = r.fdig
      /\ w.subject = SubjectOf(r.target, "report") /\ w.root = root /\ w.algorithm = algorithm
  BY <1>2
<1>4. Reproducible(w) = Reproducible(r)
  <2> HIDE DEF w
  <2> QED BY <1>3 DEF Reproducible
<1>5. ASSUME r.subject = SubjectOf(r.target, "report"), root = r.root, algorithm = r.algorithm
      PROVE  w = Body(r)
  <2>1. DOMAIN w = BodyFields
    BY <1>2 DEF BodyFields
  <2>2. \A f \in BodyFields : w[f] = r[f]
    BY <1>3, <1>5 DEF BodyFields
  <2>3. w = [f \in BodyFields |-> w[f]]
    BY <1>2 DEF BodyFields
  <2> HIDE DEF w
  <2> QED BY <2>2, <2>3 DEF Body
<1> QED BY <1>3, <1>4, <1>5

LEMMA StatementWorth ==
  ASSUME NEW r, r.signature = NoSig \/ r.subject # Missing, NEW kind \in Tools, Loads(r, kind), NEW root,
         NEW s, s = ToStatement(r, kind)
  PROVE  VerifyStatement(s, root) = VerifyReport(r, root, kind)
<1> DEFINE p == s.predicate
<1>1. /\ s.predicate = [f \in PredicateFields |-> r[f]] /\ s.ptype = kind /\ ~s.foreign
      /\ s.subject.naming = "intoto" /\ ReportSubject(s.subject) = SubjectOf(r.target, "report")
      /\ s.block = IF r.signature = NoSig THEN NoSig
                   ELSE [by |-> "tool", algorithm |-> r.algorithm, root |-> r.root, value |-> r.signature]
  <2> HIDE DEF p
  <2> QED BY StatementOfLoaded
<1>2. /\ p.tool = kind /\ p.root = r.root /\ p.algorithm = r.algorithm /\ r.tool = kind /\ r.hash # Missing
  BY <1>1 DEF PredicateFields, Loads, KindProblem
<1>3. HashMatches(r) /\ FindingsDigestMatches(r) /\ SubjectMatches(r)
  BY <1>2 DEF Loads, ReportProblem
<1>4. /\ FindingsDigestMatches(Rebuilt(s, p.root, p.algorithm)) /\ SubjectMatches(Rebuilt(s, p.root, p.algorithm))
  <2> DEFINE w == Rebuilt(s, p.root, p.algorithm)
  <2>1. /\ w.fdig = r.fdig /\ w.target = r.target /\ w.subject = SubjectOf(r.target, "report")
        /\ Reproducible(w) = Reproducible(r)
    BY <1>1, RebuiltIs
  <2>2. FindingsDigestMatches(w) /\ SubjectMatches(w)
    <3> HIDE DEF w
    <3> QED BY <2>1, <1>3 DEF FindingsDigestMatches, SubjectMatches
  <2> QED BY <2>2
<1>5. ClaimsSigned(p) <=> ClaimsSigned(r)
  BY <1>2 DEF ClaimsSigned
<1>6. CASE r.signature = NoSig
  <2>1. s.block = NoSig /\ ~ClaimsSigned(r)
    BY <1>1, <1>6 DEF Loads, ReportProblem
  <2>2. VerifyReport(r, root, kind) = "UNSIGNED"
    BY <1>2, <1>3, <1>6, <2>1 DEF VerifyReport
  <2> QED BY <1>1, <1>2, <1>4, <1>5, <2>1, <2>2 DEF VerifyStatement
<1>7. CASE r.signature # NoSig
  <2> DEFINE b == s.block
             whole == Rebuilt(s, b.root, b.algorithm)
  <2>1. IsObject(b) /\ b.value = r.signature /\ b.root = r.root /\ b.algorithm = r.algorithm
    <3>1. b = [by |-> "tool", algorithm |-> r.algorithm, root |-> r.root, value |-> r.signature]
      BY <1>1, <1>7
    <3> QED BY <3>1, ObjectBlock
  <2>2. r.tag = Empty /\ IsObject(r.signature) /\ IdentityMatches(r, r.signature)
    BY <1>7 DEF Loads, ReportProblem
  <2>3. r.subject = SubjectOf(r.target, "report")
    BY <1>7, <1>3 DEF SubjectMatches
  <2>4. whole = Body(r) /\ whole.root = r.root /\ whole.algorithm = r.algorithm
    BY <1>1, <2>1, <2>3, RebuiltIs
  <2>5. IdentityMatches(whole, b.value)
    <3> HIDE DEF whole, b
    <3> QED BY <2>1, <2>2, <2>4 DEF IdentityMatches
  <2>6. VerifyReport(r, root, kind) = Signature(r.signature, Body(r), root)
    BY <1>2, <1>3, <1>7, <2>2 DEF VerifyReport
  <2>7. VerifyStatement(s, root) = Signature(b.value, whole, root)
    <3>1. b # NoSig /\ IsObject(b) /\ IsObject(b.value)
      BY <2>1, <2>2 DEF IsObject
    <3>2. p.root = b.root /\ p.algorithm = b.algorithm /\ p.tool \in Tools /\ s.subject.naming # "both" /\ s.ptype = p.tool
      BY <1>1, <1>2, <2>1
    <3> QED BY <1>1, <1>4, <2>5, <3>1, <3>2 DEF VerifyStatement
  <2> QED BY <2>1, <2>4, <2>6, <2>7
<1> QED BY <1>6, <1>7

LEMMA OneRoot ==
  ASSUME TrustConstants, TrustInv
  PROVE  OneRootAttests
<1> SUFFICES ASSUME doc # None
             PROVE  LET attesting == {key \in Keys : VerifyReport(doc, key, doc.tool) = "ATTESTED"}
                    IN  /\ Cardinality(attesting) <= 1
                        /\ (attesting # {}) <=> (VerifyReport(doc, NoRoot, doc.tool) = "UNVERIFIED")
  BY DEF OneRootAttests
<1> DEFINE attesting == {key \in Keys : VerifyReport(doc, key, doc.tool) = "ATTESTED"}
<1>1. attesting \subseteq {doc.signature.root}
  BY AttestedIs
<1>2. Cardinality(attesting) <= 1
  <2>1. IsFiniteSet({doc.signature.root}) /\ Cardinality({doc.signature.root}) = 1
    BY FS_Singleton
  <2> HIDE DEF attesting
  <2> QED BY <1>1, <2>1, FS_Subset
<1>3. ASSUME NEW key \in attesting PROVE VerifyReport(doc, NoRoot, doc.tool) = "UNVERIFIED"
  BY <1>3 DEF VerifyReport, Signature, VerifyAny
<1>4. ASSUME VerifyReport(doc, NoRoot, doc.tool) = "UNVERIFIED" PROVE doc.signature.root \in attesting
  <2>1. IsObject(doc.signature) /\ SignatureOK(doc.signature, signed)
    BY <1>4 DEF VerifyReport, Signature, TrustInv, ReportOK
  <2>2. doc.signature.root \in Keys
    BY <2>1, MadeObject
  <2>3. doc.signature.root # NoRoot
    BY <2>2 DEF TrustConstants
  <2> QED BY <1>4, <2>2, <2>3 DEF VerifyReport, Signature, VerifyAny
<1> HIDE DEF attesting
<1>5. (attesting # {}) <=> (VerifyReport(doc, NoRoot, doc.tool) = "UNVERIFIED")
  BY <1>3, <1>4
<1> QED BY <1>2, <1>5 DEF attesting

-----------------------------------------------------------------------------
(* The steps: a key's owner signs, anybody else changes fields. *)

LEMMA MoreSigned ==
  ASSUME NEW sig, NEW made, NEW more, SignatureOK(sig, made), \A k \in Keys : made[k] \subseteq more[k]
  PROVE  SignatureOK(sig, more)
BY DEF SignatureOK, MadeSignature

LEMMA MoreSignedReport ==
  ASSUME NEW r, NEW made, NEW more, ReportOK(r, made), \A k \in Keys : made[k] \subseteq more[k]
  PROVE  ReportOK(r, more)
BY MoreSigned DEF ReportOK

LEMMA MoreSignedStatement ==
  ASSUME NEW s, NEW made, NEW more, StatementOK(s, made), \A k \in Keys : made[k] \subseteq more[k]
  PROVE  StatementOK(s, more)
<1>1. CASE s.block \in {NoSig, Junk}
  BY <1>1 DEF StatementOK
<1>2. CASE s.block \notin {NoSig, Junk}
  <2>1. SignatureOK(s.block.value, more)
    BY <1>2, MoreSigned DEF StatementOK
  <2> QED BY <2>1, <1>2 DEF StatementOK
<1> QED BY <1>1, <1>2

LEMMA OneMoreField ==
  ASSUME NEW r, NEW fields, HasFields(r, fields), NEW f \in fields, NEW v
  PROVE  LET new == [r EXCEPT ![f] = v]
         IN  HasFields(new, fields) /\ new[f] = v /\ \A g \in fields \ {f} : new[g] = r[g]
<1>1. DOMAIN r = fields
  BY DEF HasFields
<1> DEFINE new == [r EXCEPT ![f] = v]
<1>2. new = [g \in fields |-> IF g = f THEN v ELSE r[g]]
  BY <1>1 DEF HasFields
<1> HIDE DEF new
<1> QED BY <1>2 DEF HasFields

\* What a key signs is its owner's: a body that names the key, if it is the issuer's.
LEMMA OwnersSign ==
  ASSUME TrustConstants, TrustInv, NEW key \in Keys, NEW r, SignedBy(key, r), key = Issuer => Body(r).root = Issuer
  PROVE  /\ SignedOK(signed') /\ \A k \in Keys : signed[k] \subseteq signed'[k]
         /\ Body(r) \in signed'[key]
<1>1. key # Empty
  BY DEF TrustConstants
<1>2. signed' = [signed EXCEPT ![key] = @ \cup {Body(r)}]
  BY <1>1 DEF SignedBy
<1>3. DOMAIN signed = Keys /\ HasFields(signed, Keys)
  BY DEF TrustInv, SignedOK, HasFields
<1>4. signed' = [signed EXCEPT ![key] = signed[key] \cup {Body(r)}]
  BY <1>2
<1> DEFINE more == signed[key] \cup {Body(r)}
<1>5. HasFields(signed', Keys) /\ signed'[key] = more /\ \A k \in Keys \ {key} : signed'[k] = signed[k]
  <2> HIDE DEF more
  <2> QED BY <1>3, <1>4, OneMoreField DEF more
<1>6. \A b \in signed'[Issuer] : b.root = Issuer
  <2>1. CASE key = Issuer
    BY <1>5, <2>1 DEF TrustInv, SignedOK
  <2>2. CASE key # Issuer
    BY <1>5, <2>2 DEF TrustInv, SignedOK, TrustConstants
  <2> QED BY <2>1, <2>2
<1> QED BY <1>5, <1>6 DEF SignedOK

LEMMA LamportIsMade ==
  ASSUME NEW key \in Keys, NEW r, NEW made, Body(r) \in made[key]
  PROVE  SignatureOK(Lamport(r, key), made)
BY DEF SignatureOK, MadeSignature, Lamport

LEMMA UnsignedHas ==
  ASSUME NEW tool, NEW target, NEW said, NEW key
  PROVE  LET r == Hashed(Unsigned(tool, target, said, key))
         IN  HasFields(r, ReportFields) /\ r.signature = NoSig /\ r.root = key
<1> DEFINE u == Unsigned(tool, target, said, key)
<1>1. HasFields(u, ReportFields) /\ u.signature = NoSig /\ u.root = key
  BY DEF Unsigned, HasFields, ReportFields, BodyFields
<1>2. {"hash", "signature", "root"} \subseteq ReportFields
  BY DEF ReportFields, BodyFields
<1> HIDE DEF u
<1> DEFINE r == [u EXCEPT !["hash"] = Body(u)]
<1>3. HasFields(r, ReportFields) /\ \A g \in ReportFields \ {"hash"} : r[g] = u[g]
  BY <1>1, <1>2, OneMoreField
<1>4. Hashed(u) = r
  BY DEF Hashed
<1> HIDE DEF r
<1> QED BY <1>1, <1>2, <1>3, <1>4 DEF u

LEMMA IssueStep ==
  ASSUME TrustConstants, TrustInv, NEW tool, NEW target, NEW said, NEW key \in Keys \cup {Empty},
         doc = None, doc' = IssuedReport(tool, target, said, key), SignedBy(key, IssuedReport(tool, target, said, key)),
         stmt' = stmt
  PROVE  TrustInv'
<1> DEFINE u == Hashed(Unsigned(tool, target, said, key))
           r == IssuedReport(tool, target, said, key)
<1>1. HasFields(u, ReportFields) /\ u.signature = NoSig /\ u.root = key
  BY UnsignedHas
<1>2. stmt' = None
  BY DEF TrustInv
<1>3. CASE key = Empty
  <2>1. doc' = u /\ signed' = signed
    BY <1>3 DEF IssuedReport, SignedBy
  <2> HIDE DEF u
  <2> QED BY <1>1, <1>2, <2>1 DEF TrustInv, ReportOK, SignatureOK
<1>4. CASE key \in Keys
  <2> DEFINE sig == Lamport(Unsigned(tool, target, said, key), key)
  <2>1. key # Empty
    BY <1>4 DEF TrustConstants
  <2>2. doc' = [u EXCEPT !["signature"] = sig] /\ doc' = r
    BY <2>1 DEF IssuedReport
  <2>3. HasFields(doc', ReportFields) /\ doc'.signature = sig /\ \A g \in ReportFields \ {"signature"} : doc'[g] = u[g]
    <3>1. "signature" \in ReportFields
      BY DEF ReportFields
    <3> DEFINE new == [u EXCEPT !["signature"] = sig]
    <3>2. doc' = new
      BY <2>2
    <3> HIDE DEF u, sig, r
    <3>3. HasFields(new, ReportFields) /\ new.signature = sig /\ \A g \in ReportFields \ {"signature"} : new[g] = u[g]
      BY <1>1, <3>1, OneMoreField
    <3> HIDE DEF new
    <3> QED BY <3>2, <3>3
  <2>4. Body(doc') = Body(Unsigned(tool, target, said, key)) /\ Body(doc').root = key
    <3>1. \A g \in BodyFields : g \in ReportFields \ {"signature"} /\ g # "hash"
      BY DEF BodyFields, ReportFields
    <3>2. \A g \in BodyFields : u[g] = Unsigned(tool, target, said, key)[g]
      <4> DEFINE v == Unsigned(tool, target, said, key)
      <4>1. HasFields(v, ReportFields)
        BY DEF Unsigned, HasFields, ReportFields, BodyFields
      <4>2. u = [v EXCEPT !["hash"] = Body(v)] /\ "hash" \in ReportFields
        BY DEF Hashed, ReportFields
      <4> HIDE DEF v, u
      <4>3. \A g \in ReportFields \ {"hash"} : u[g] = v[g]
        BY <4>1, <4>2, OneMoreField
      <4> QED BY <4>3, <3>1 DEF v
    <3>3. "root" \in BodyFields
      BY DEF BodyFields
    <3> HIDE DEF u
    <3> QED BY <1>1, <2>3, <3>1, <3>2, <3>3 DEF Body
  <2> HIDE DEF u, sig, r
  <2>5. SignedBy(key, doc') /\ (key = Issuer => Body(doc').root = Issuer)
    BY <2>2, <2>4 DEF r
  <2>6. SignedOK(signed') /\ Body(doc') \in signed'[key]
    BY <1>4, <2>5, OwnersSign
  <2>7. SignatureOK(sig, signed')
    <3>1. Body(Unsigned(tool, target, said, key)) \in signed'[key]
      BY <2>4, <2>6
    <3> QED BY <1>4, <3>1, LamportIsMade DEF sig
  <2> QED BY <1>2, <2>3, <2>6, <2>7 DEF TrustInv, ReportOK
<1> QED BY <1>3, <1>4

LEMMA SignatureValues == FieldValues("signature") = {NoSig, Junk}
BY DEF FieldValues

\* A report that is still whole, with a signature that is nothing or was made.
LEMMA NewReport ==
  ASSUME TrustInv, doc # None, SignedOK(signed'), \A k \in Keys : signed[k] \subseteq signed'[k], stmt' = stmt,
         ReportOK(doc', signed')
  PROVE  TrustInv'
<1>1. doc' # None => ReportOK(doc', signed')
  OBVIOUS
<1>2. ASSUME stmt' # None PROVE doc' # None /\ StatementOK(stmt', signed')
  <2>1. StatementOK(stmt', signed')
    BY <1>2, MoreSignedStatement DEF TrustInv
  <2>2. DOMAIN doc' = ReportFields /\ DOMAIN None = {"none"} /\ "none" \notin ReportFields
    BY DEF ReportOK, HasFields, None, ReportFields, BodyFields
  <2> QED BY <2>1, <2>2
<1> QED BY <1>1, <1>2 DEF TrustInv

LEMMA NewSignature ==
  ASSUME NEW r, HasFields(r, ReportFields), NEW sig, NEW made, SignatureOK(sig, made)
  PROVE  ReportOK([r EXCEPT !["signature"] = sig], made)
<1>1. "signature" \in ReportFields
  BY DEF ReportFields
<1> DEFINE new == [r EXCEPT !["signature"] = sig]
<1>2. HasFields(new, ReportFields) /\ new["signature"] = sig /\ \A g \in ReportFields \ {"signature"} : new[g] = r[g]
  BY <1>1, OneMoreField
<1> HIDE DEF new
<1>3. ReportOK(new, made)
  BY <1>2 DEF ReportOK
<1> QED BY <1>3 DEF new

LEMMA NewRoot ==
  ASSUME TrustConstants, NEW sig, NEW made, SignatureOK(sig, made), IsObject(sig), NEW key \in Keys
  PROVE  SignatureOK([sig EXCEPT !["root"] = key], made)
<1>1. PICK k \in Keys, root \in Keys : \E b :
        b \in made[k] /\ sig = [by |-> k, root |-> root, algorithm |-> "lamport", over |-> b]
  BY DEF SignatureOK, MadeSignature, IsObject
<1>2. PICK b : b \in made[k] /\ sig = [by |-> k, root |-> root, algorithm |-> "lamport", over |-> b]
  BY <1>1
<1>3. [sig EXCEPT !["root"] = key] = [by |-> k, root |-> key, algorithm |-> "lamport", over |-> b]
  BY <1>2
<1> QED BY <1>2, <1>3 DEF SignatureOK, MadeSignature

LEMMA RewriteStep ==
  ASSUME TrustConstants, TrustInv, Rewrite
  PROVE  TrustInv'
<1>1. doc # None /\ stmt' = stmt /\ ReportOK(doc, signed) /\ SignedOK(signed)
  BY DEF Rewrite, TrustInv
<1>2. ASSUME NEW f \in DOMAIN doc, NEW v \in FieldValues(f), doc' = [doc EXCEPT ![f] = v], signed' = signed
      PROVE  TrustInv'
  <2>1. HasFields(doc, ReportFields) /\ f \in ReportFields
    BY <1>1, <1>2 DEF ReportOK, HasFields
  <2> DEFINE new == [doc EXCEPT ![f] = v]
  <2>2. HasFields(new, ReportFields) /\ new[f] = v /\ \A g \in ReportFields \ {f} : new[g] = doc[g]
    BY <2>1, OneMoreField
  <2> HIDE DEF new
  <2>3. SignatureOK(new["signature"], signed)
    <3>1. CASE f = "signature"
      BY <2>2, <3>1, SignatureValues, <1>2 DEF SignatureOK
    <3>2. CASE f # "signature"
      BY <1>1, <2>2, <3>2 DEF ReportOK, ReportFields
    <3> QED BY <3>1, <3>2
  <2>4. doc' = new
    BY <1>2 DEF new
  <2>5. ReportOK(doc', signed')
    BY <1>2, <2>2, <2>3, <2>4 DEF ReportOK
  <2> QED BY <1>1, <1>2, <2>5, NewReport
<1>3. ASSUME NEW key \in Keys, NEW r, doc' = [doc EXCEPT !["signature"] = Lamport(r, key)], SignedBy(key, r),
             key = Issuer => Body(r).root = Issuer
      PROVE  TrustInv'
  <2>1. SignedOK(signed') /\ (\A k \in Keys : signed[k] \subseteq signed'[k]) /\ Body(r) \in signed'[key]
    BY <1>3, OwnersSign
  <2>2. SignatureOK(Lamport(r, key), signed')
    BY <2>1, LamportIsMade
  <2>3. ReportOK(doc', signed')
    BY <1>1, <1>3, <2>2, NewSignature DEF ReportOK
  <2> QED BY <1>1, <2>1, <2>3, NewReport
<1>4. ASSUME IsObject(doc.signature), NEW key \in Keys, doc' = [doc EXCEPT !.signature.root = key], signed' = signed
      PROVE  TrustInv'
  <2> DEFINE sig == [doc.signature EXCEPT !["root"] = key]
  <2>1. SignatureOK(sig, signed')
    BY <1>1, <1>4, NewRoot DEF ReportOK
  <2>2. doc' = [doc EXCEPT !["signature"] = sig]
    BY <1>4
  <2> HIDE DEF sig
  <2>3. ReportOK(doc', signed')
    BY <1>1, <2>1, <2>2, NewSignature DEF ReportOK
  <2> QED BY <1>1, <1>4, <2>3, NewReport
<1>5. \A key \in Keys : Body(Elsewhere(key)).root = key
  BY DEF Elsewhere, Unsigned, Body, BodyFields
<1> QED BY <1>2, <1>3, <1>4, <1>5 DEF Rewrite

LEMMA ConvertStep ==
  ASSUME TrustConstants, TrustInv, Convert
  PROVE  TrustInv'
<1>1. doc # None /\ doc' = doc /\ signed' = signed
  BY DEF Convert
<1>2. PICK kind \in Tools : stmt' = ToStatement(doc, kind)
  BY DEF Convert
<1> DEFINE s == ToStatement(doc, kind)
<1>3. HasFields(s, StatementFields)
  BY DEF ToStatement, HasFields, StatementFields
<1>4. HasFields(s.predicate, PredicateFields)
  BY DEF ToStatement, HasFields
<1>5. \/ s.block = NoSig
      \/ HasFields(s.block, BlockFields) /\ s.block.by = "tool" /\ s.block.value = doc.signature
  BY DEF ToStatement, HasFields, BlockFields
<1> HIDE DEF s
<1>6. StatementOK(s, signed)
  BY <1>1, <1>3, <1>4, <1>5 DEF StatementOK, TrustInv, ReportOK
<1>7. stmt' = s
  BY <1>2 DEF s
<1> QED BY <1>1, <1>6, <1>7 DEF TrustInv

LEMMA RewriteStatementStep ==
  ASSUME TrustConstants, TrustInv, RewriteStatement
  PROVE  TrustInv'
<1>1. /\ stmt # None /\ doc # None /\ doc' = doc /\ signed' = signed
      /\ StatementOK(stmt, signed) /\ ReportOK(doc, signed)
      /\ HasFields(stmt, StatementFields)
  BY DEF RewriteStatement, TrustInv, StatementOK
<1>2. ASSUME StatementOK(stmt', signed) PROVE TrustInv'
  BY <1>1, <1>2 DEF TrustInv
<1>3. ASSUME NEW f \in {"subject", "ptype", "foreign"}, NEW v, stmt' = [stmt EXCEPT ![f] = v]
      PROVE  StatementOK(stmt', signed)
  <2> DEFINE new == [stmt EXCEPT ![f] = v]
  <2>1. HasFields(new, StatementFields) /\ \A g \in StatementFields \ {f} : new[g] = stmt[g]
    BY <1>1, OneMoreField DEF StatementFields
  <2>2. stmt' = new
    BY <1>3
  <2> HIDE DEF new
  <2>3. new.predicate = stmt.predicate /\ new.block = stmt.block
    BY <2>1 DEF StatementFields
  <2> QED BY <1>1, <2>1, <2>2, <2>3 DEF StatementOK
<1>4. ASSUME NEW f \in PredicateFields, NEW v, stmt' = [stmt EXCEPT !.predicate[f] = v]
      PROVE  StatementOK(stmt', signed)
  <2> DEFINE p == [stmt.predicate EXCEPT ![f] = v]
  <2>1. HasFields(p, PredicateFields)
    BY <1>1, OneMoreField DEF StatementOK
  <2>2. stmt' = [stmt EXCEPT !["predicate"] = p]
    BY <1>4
  <2> HIDE DEF p
  <2> DEFINE new == [stmt EXCEPT !["predicate"] = p]
  <2>3. HasFields(new, StatementFields) /\ new.predicate = p /\ \A g \in StatementFields \ {"predicate"} : new[g] = stmt[g]
    BY <1>1, OneMoreField DEF StatementFields
  <2>4. stmt' = new
    BY <2>2
  <2> HIDE DEF new
  <2>5. new.block = stmt.block
    BY <2>3 DEF StatementFields
  <2> QED BY <1>1, <2>1, <2>3, <2>4, <2>5 DEF StatementOK
<1>5. ASSUME NEW b, stmt' = [stmt EXCEPT !["block"] = b],
             b \in {NoSig, Junk} \/ (HasFields(b, BlockFields) /\ b.by = "tool" /\ SignatureOK(b.value, signed))
      PROVE  StatementOK(stmt', signed)
  <2> DEFINE new == [stmt EXCEPT !["block"] = b]
  <2>1. HasFields(new, StatementFields) /\ new.block = b /\ \A g \in StatementFields \ {"block"} : new[g] = stmt[g]
    BY <1>1, OneMoreField DEF StatementFields
  <2>2. stmt' = new
    BY <1>5
  <2> HIDE DEF new
  <2>3. new.predicate = stmt.predicate
    BY <2>1 DEF StatementFields
  <2> QED BY <1>1, <1>5, <2>1, <2>2, <2>3 DEF StatementOK
<1>6. ASSUME NEW f \in {"root", "value"}, NEW v, IsObject(stmt.block), stmt' = [stmt EXCEPT !.block[f] = v],
             f = "value" => SignatureOK(v, signed)
      PROVE  StatementOK(stmt', signed)
  <2> DEFINE b == [stmt.block EXCEPT ![f] = v]
  <2>1. HasFields(stmt.block, BlockFields) /\ stmt.block.by = "tool" /\ SignatureOK(stmt.block.value, signed)
    BY <1>1, <1>6 DEF StatementOK, IsObject
  <2>2. HasFields(b, BlockFields) /\ b[f] = v /\ \A g \in BlockFields \ {f} : b[g] = stmt.block[g]
    BY <2>1, OneMoreField DEF BlockFields
  <2>3. stmt' = [stmt EXCEPT !["block"] = b]
    BY <1>6
  <2> HIDE DEF b
  <2>4. b.by = "tool" /\ SignatureOK(b.value, signed)
    <3>1. CASE f = "value"
      BY <1>6, <2>1, <2>2, <3>1 DEF BlockFields
    <3>2. CASE f = "root"
      BY <2>1, <2>2, <3>2 DEF BlockFields
    <3> QED BY <3>1, <3>2
  <2> QED BY <1>5, <2>2, <2>3, <2>4
<1>7. SignatureOK(doc.signature, signed)
  BY <1>1 DEF ReportOK
<1>8. CASE \E f \in PredicateFields : \E v \in FieldValues(f) : stmt' = [stmt EXCEPT !.predicate[f] = v]
  BY <1>2, <1>4, <1>8
<1>9. CASE \/ \E v \in FieldValues("subject") \ {Missing} : stmt' = [stmt EXCEPT !.subject = v]
           \/ \E v \in Tools : stmt' = [stmt EXCEPT !.ptype = v]
           \/ stmt' = [stmt EXCEPT !.foreign = TRUE]
  BY <1>2, <1>3, <1>9
<1>10. CASE \E v \in {NoSig, Junk} : stmt' = [stmt EXCEPT !.block = v]
  BY <1>2, <1>5, <1>10
<1>11. CASE /\ IsObject(stmt.block)
            /\ \/ \E key \in Keys : stmt' = [stmt EXCEPT !.block.root = key]
               \/ stmt' = [stmt EXCEPT !.block.value = doc.signature]
  BY <1>2, <1>6, <1>7, <1>11
<1> QED BY <1>8, <1>9, <1>10, <1>11 DEF RewriteStatement

(***************************************************************************)
(* Whatever is done to a report and its Statement, and however often: exit *)
(* code 0 under the issuer's root means its owner signed this very body;   *)
(* a signature taken off never reads as a report that was not signed; the  *)
(* converters take what the verifier takes; a Statement is worth what its  *)
(* report is; and one root at most attests (verify.py, _verify_report,     *)
(* verify_statement, report_problem).                                      *)
(***************************************************************************)
THEOREM ReportTrustIsEarned ==
  ASSUME TrustConstants
  PROVE  TrustSpec => []TrustIsEarned
<1>1. TrustInit => TrustInv
  BY DEF TrustInit, TrustInv, SignedOK, HasFields, TrustConstants
<1>2. TrustInv /\ [TrustNext]_trustVars => TrustInv'
  <2> SUFFICES ASSUME TrustInv, [TrustNext]_trustVars PROVE TrustInv'
    OBVIOUS
  <2>1. CASE Issue
    <3>1. PICK tool \in Tools, target \in Targets, said \in Claims, key \in Keys \cup {Empty} :
             /\ doc = None /\ doc' = IssuedReport(tool, target, said, key)
             /\ SignedBy(key, IssuedReport(tool, target, said, key)) /\ stmt' = stmt
      BY <2>1 DEF Issue
    <3> QED BY <3>1, IssueStep
  <2>2. CASE UNCHANGED trustVars
    BY <2>2 DEF trustVars, TrustInv
  <2> QED BY <2>1, <2>2, RewriteStep, ConvertStep, RewriteStatementStep DEF TrustNext
<1>3. TrustInv => TrustIsEarned
  <2> SUFFICES ASSUME TrustInv PROVE TrustIsEarned
    OBVIOUS
  <2>1. GateIsVerifier
    BY GateVerifies DEF GateIsVerifier
  <2>2. StatementIsReport
    BY StatementWorth DEF StatementIsReport
  <2> QED BY <2>1, <2>2, AttestedSigned, StrippedTampered, OneRoot DEF TrustIsEarned
<1> QED BY <1>1, <1>2, <1>3, PTL DEF TrustSpec

-----------------------------------------------------------------------------
(***************************************************************************)
(* Proof bundles that are changed on their way (LogEvidence).              *)
(***************************************************************************)
BundleConstants == MaxAppended \in Nat

BundleFields == {"note", "index", "entry", "inclusion", "whole"}
NoteFields == {"text", "sigs"}

IsListOfAny(s) == \E S : s \in Seq(S)

\* The text the log signed when it had n entries.
TextAt(n) == Signed(SubSeq(appended, 1, n), Signer, LogName).text

\* A line of the log's own key is under a text that the log signed.
LineOK(line) == line.key = Signer => \E n \in 0..Len(appended) : line.text = TextAt(n)
LinesOK(sigs) == \E S : sigs \in Seq(S) /\ \A line \in S : LineOK(line)

NoteOK(note) == HasFields(note, NoteFields) /\ LinesOK(note.sigs)

BundleOK(b) ==
  /\ HasFields(b, BundleFields) /\ NoteOK(b.note)
  /\ b.index \in Nat /\ IsListOfAny(b.inclusion)

GenuineOK ==
  /\ HasFields(genuine, BundleFields)
  /\ genuine.note = Signed(appended, Signer, LogName)
  /\ genuine.index \in Nat /\ genuine.index < Len(appended)
  /\ genuine.entry = appended[genuine.index + 1]
  /\ genuine.inclusion = InclusionPath(LogHashes(appended), genuine.index, Len(appended))
  /\ genuine.whole = TRUE

Concluded(b) ==
  concluded.accepts <=>
    VerifyBundle(b, [name |-> concluded.name, kid |-> concluded.kid, key |-> concluded.key], concluded.report)

BundleInv ==
  /\ IsListOfAny(appended)
  /\ bundle # Nothing => BundleOK(bundle) /\ GenuineOK /\ bundle.note.sigs # <<>>
  /\ concluded # Nothing => bundle # Nothing /\ Concluded(bundle)

LEMMA SignedIs ==
  ASSUME NEW entries, NEW key, NEW name
  PROVE  LET s == Signed(entries, key, name)
         IN  /\ s.text = CheckpointText("origin", Len(entries), MerkleRoot(LogHashes(entries)))
             /\ s.sigs = <<SignatureLine(name, key, s.text)>> /\ HasFields(s, NoteFields)
             /\ s.text.size = Len(entries) /\ s.text.root = MerkleRoot(LogHashes(entries))
BY DEF Signed, CheckpointText, HasFields, NoteFields

\* The verifier of proofs, for a log as long as n of these entries.
LEMMA InclusionOfEntries ==
  ASSUME NEW S, NEW entries \in Seq(S), NEW i \in Nat, NEW entry, NEW T, NEW proof \in Seq(T)
  PROVE  VerifyInclusion(leaf_hash(entry), i, Len(entries), proof, MerkleRoot(LogHashes(entries)))
           <=> i < Len(entries) /\ entry = entries[i + 1] /\ proof = InclusionPath(LogHashes(entries), i, Len(entries))
<1> DEFINE hashes == LogHashes(entries)
           n == Len(entries)
<1>1. n \in Nat /\ DOMAIN entries = 1..n
  OBVIOUS
<1>2. Len(hashes) = n /\ \A j \in 1..n : hashes[j] = leaf_hash(entries[j])
  <2>1. hashes = [j \in 1..n |-> leaf_hash(entries[j])]
    BY <1>1 DEF LogHashes
  <2> HIDE DEF hashes, n
  <2> QED BY <1>1, <2>1
<1>3. i < n => (leaf_hash(entry) = hashes[i + 1] <=> entry = entries[i + 1])
  <2>1. i < n => i + 1 \in 1..n
    BY <1>1
  <2> HIDE DEF hashes, n
  <2> QED BY <1>2, <2>1 DEF leaf_hash
<1> HIDE DEF hashes, n
<1>4. VerifyInclusion(leaf_hash(entry), i, n, proof, Mth(hashes)[<<0, n>>])
        <=> i < n /\ leaf_hash(entry) = hashes[i + 1] /\ proof = PathOf(Mth(hashes), i, 0, n)
  BY <1>1, InclusionIsExact
<1>5. MerkleRoot(hashes) = Mth(hashes)[<<0, n>>] /\ InclusionPath(hashes, i, n) = PathOf(Mth(hashes), i, 0, n)
  BY <1>2 DEF MerkleRoot, InclusionPath
<1> QED BY <1>3, <1>4, <1>5 DEF hashes, n

LEMMA OwnInclusion ==
  ASSUME NEW S, NEW entries \in Seq(S), NEW i \in Nat, i < Len(entries)
  PROVE  IsListOfAny(InclusionPath(LogHashes(entries), i, Len(entries)))
BY OwnPathIsSeq DEF InclusionPath, IsListOfAny

LEMMA FirstOnes ==
  ASSUME NEW S, NEW s \in Seq(S), NEW n \in 0..Len(s)
  PROVE  SubSeq(s, 1, n) \in Seq(S) /\ Len(SubSeq(s, 1, n)) = n /\ \A i \in 1..n : SubSeq(s, 1, n)[i] = s[i]
OBVIOUS

LEMMA OneLine ==
  ASSUME NEW n \in 0..Len(appended)
  PROVE  LinesOK(<<SignatureLine(LogName, Signer, TextAt(n))>>)
<1> DEFINE l == SignatureLine(LogName, Signer, TextAt(n))
<1>1. LineOK(l)
  BY DEF LineOK, SignatureLine
<1> HIDE DEF l
<1>2. <<l>> \in Seq({l})
  OBVIOUS
<1>3. LinesOK(<<l>>)
  <2> DEFINE S == {l}
  <2>1. <<l>> \in Seq(S) /\ \A line \in S : LineOK(line)
    BY <1>1, <1>2
  <2> HIDE DEF S
  <2> QED BY <2>1 DEF LinesOK
<1> QED BY <1>3 DEF l

-----------------------------------------------------------------------------
\* What the invariant says of a bundle that was judged.
LEMMA BundlesProve ==
  ASSUME BundleInv
  PROVE  BundleProves
<1> SUFFICES ASSUME concluded # Nothing, concluded.accepts, ForLog
             PROVE  /\ \E n \in 1 .. Len(appended) :
                         /\ bundle.note.text = Signed(SubSeq(appended, 1, n), Signer, LogName).text
                         /\ bundle.index < n /\ bundle.entry = appended[bundle.index + 1]
                    /\ concluded.report # NoReport => bundle.entry = EntryLine(concluded.report)
  BY DEF BundleProves
<1> DEFINE vkey == [name |-> concluded.name, kid |-> concluded.kid, key |-> concluded.key]
           note == bundle.note
<1>1. VerifyBundle(bundle, vkey, concluded.report) /\ BundleOK(bundle) /\ IsListOfAny(appended)
  BY DEF BundleInv, Concluded
<1>2. /\ VerifyNote(note, vkey)
      /\ VerifyInclusion(leaf_hash(bundle.entry), bundle.index, note.text.size, bundle.inclusion, note.text.root)
      /\ concluded.report # NoReport => bundle.entry = EntryLine(concluded.report)
  BY <1>1 DEF VerifyBundle, VerifyCheckpoint
<1>3. vkey.key = Signer
  BY DEF ForLog
<1> HIDE DEF vkey
<1>4. PICK i \in DOMAIN note.sigs : note.sigs[i].key = Signer /\ note.sigs[i].text = note.text
  BY <1>2, <1>3 DEF VerifyNote
<1>5. PICK n \in 0..Len(appended) : note.text = TextAt(n)
  <2>1. PICK S : note.sigs \in Seq(S) /\ \A line \in S : LineOK(line)
    BY <1>1 DEF BundleOK, NoteOK, LinesOK
  <2>2. note.sigs[i] \in S
    BY <2>1
  <2> QED BY <1>4, <2>1, <2>2 DEF LineOK
<1> DEFINE entries == SubSeq(appended, 1, n)
<1>6. PICK S : appended \in Seq(S)
  BY <1>1 DEF IsListOfAny
<1>7. entries \in Seq(S) /\ Len(entries) = n /\ \A j \in 1..n : entries[j] = appended[j]
  BY <1>6, FirstOnes
<1>8. note.text.size = Len(entries) /\ note.text.root = MerkleRoot(LogHashes(entries))
  BY <1>5, SignedIs DEF TextAt
<1>9. PICK T : bundle.inclusion \in Seq(T)
  BY <1>1 DEF BundleOK, IsListOfAny
<1>10. bundle.index \in Nat /\ n \in Nat
  BY <1>1 DEF BundleOK
<1> HIDE DEF entries
<1>11. bundle.index < n /\ bundle.entry = entries[bundle.index + 1]
  BY <1>2, <1>7, <1>8, <1>9, <1>10, InclusionOfEntries
<1>12. bundle.index + 1 \in 1..n /\ n \in 1..Len(appended)
  BY <1>6, <1>10, <1>11
<1> QED BY <1>2, <1>5, <1>7, <1>11, <1>12 DEF TextAt

LEMMA OthersSpoilNothing ==
  ASSUME BundleInv
  PROVE  OthersDoNotSpoil
<1> DEFINE note == bundle.note
           own == {i \in DOMAIN note.sigs : note.sigs[i].name = LogName /\ note.sigs[i].kid = concluded.kid}
<1> SUFFICES ASSUME concluded # Nothing, ForLog, concluded.kid = KeyId(LogName, Signer), concluded.report = NoReport,
                    [bundle EXCEPT !.note.sigs = <<>>] = [genuine EXCEPT !.note.sigs = <<>>], own # {},
                    \A i \in own : note.sigs[i] = genuine.note.sigs[1]
             PROVE  concluded.accepts
  BY DEF OthersDoNotSpoil
<1> DEFINE vkey == [name |-> concluded.name, kid |-> concluded.kid, key |-> concluded.key]
<1>1. BundleOK(bundle) /\ GenuineOK /\ IsListOfAny(appended) /\ Concluded(bundle)
  BY DEF BundleInv
<1>2. vkey.name = LogName /\ vkey.key = Signer /\ vkey.kid = KeyId(LogName, Signer) /\ vkey.kid = concluded.kid
  BY DEF ForLog
<1>3. /\ bundle.index = genuine.index /\ bundle.entry = genuine.entry /\ bundle.inclusion = genuine.inclusion
      /\ bundle.whole = genuine.whole /\ note.text = genuine.note.text
  <2>1. HasFields(bundle, BundleFields) /\ HasFields(note, NoteFields)
    BY <1>1 DEF BundleOK, NoteOK
  <2> DEFINE a == [bundle EXCEPT !.note.sigs = <<>>]
             b == [genuine EXCEPT !.note.sigs = <<>>]
  <2>2. /\ a.index = bundle.index /\ a.entry = bundle.entry /\ a.inclusion = bundle.inclusion /\ a.whole = bundle.whole
        /\ a.note.text = note.text
    BY <2>1 DEF HasFields, BundleFields, NoteFields
  <2>3. HasFields(genuine, BundleFields) /\ HasFields(genuine.note, NoteFields)
    BY <1>1, SignedIs DEF GenuineOK
  <2>4. /\ b.index = genuine.index /\ b.entry = genuine.entry /\ b.inclusion = genuine.inclusion /\ b.whole = genuine.whole
        /\ b.note.text = genuine.note.text
    BY <2>3 DEF HasFields, BundleFields, NoteFields
  <2>5. a = b
    OBVIOUS
  <2> HIDE DEF a, b
  <2> QED BY <2>2, <2>4, <2>5
<1>4. genuine.note.sigs[1] = SignatureLine(LogName, Signer, genuine.note.text)
  BY <1>1, SignedIs DEF GenuineOK
<1> HIDE DEF vkey
<1>5. VerifyNote(note, vkey)
  <2>1. ParsesVkey(vkey)
    BY <1>2 DEF ParsesVkey
  <2>2. own = {i \in DOMAIN note.sigs : note.sigs[i].name = vkey.name /\ note.sigs[i].kid = vkey.kid}
    BY <1>2
  <2>3. \A i \in own : note.sigs[i].whole /\ note.sigs[i].key = vkey.key /\ note.sigs[i].text = note.text
    BY <1>2, <1>3, <1>4 DEF SignatureLine
  <2> HIDE DEF note
  <2> QED BY <2>1, <2>2, <2>3 DEF VerifyNote
<1>6. PICK S : appended \in Seq(S)
  BY <1>1 DEF IsListOfAny
<1>7. note.text.size = Len(appended) /\ note.text.root = MerkleRoot(LogHashes(appended))
  BY <1>1, <1>3, SignedIs DEF GenuineOK
<1>8. genuine.index \in Nat /\ genuine.index < Len(appended) /\ Len(appended) \in Nat
  BY <1>1, <1>6 DEF GenuineOK
<1>9. VerifyInclusion(leaf_hash(bundle.entry), bundle.index, note.text.size, bundle.inclusion, note.text.root)
  <2>1. PICK T : bundle.inclusion \in Seq(T)
    BY <1>1 DEF BundleOK, IsListOfAny
  <2>2. /\ bundle.index \in Nat /\ bundle.index < Len(appended) /\ bundle.entry = appended[bundle.index + 1]
        /\ bundle.inclusion = InclusionPath(LogHashes(appended), bundle.index, Len(appended))
    BY <1>1, <1>3 DEF GenuineOK
  <2> QED BY <1>6, <1>7, <2>1, <2>2, InclusionOfEntries
<1>10. bundle.whole
  BY <1>1, <1>3 DEF GenuineOK
<1>11. VerifyBundle(bundle, vkey, concluded.report)
  <2>1. note.text.size # 0
    BY <1>7, <1>8
  <2> QED BY <1>5, <1>9, <1>10, <2>1 DEF VerifyBundle, VerifyCheckpoint
<1> QED BY <1>1, <1>11 DEF Concluded, vkey

-----------------------------------------------------------------------------
(* The steps. *)

LEMMA NewField ==
  ASSUME NEW b, BundleOK(b), NEW f \in BundleFields, NEW v,
         f = "note" => NoteOK(v), f = "index" => v \in Nat, f = "inclusion" => IsListOfAny(v)
  PROVE  BundleOK([b EXCEPT ![f] = v])
<1> DEFINE new == [b EXCEPT ![f] = v]
<1>1. HasFields(new, BundleFields) /\ new[f] = v /\ \A g \in BundleFields \ {f} : new[g] = b[g]
  BY OneMoreField DEF BundleOK
<1> HIDE DEF new
<1>2. NoteOK(new["note"]) /\ new["index"] \in Nat /\ IsListOfAny(new["inclusion"])
  BY <1>1 DEF BundleOK, BundleFields
<1>3. BundleOK(new)
  BY <1>1, <1>2 DEF BundleOK
<1> QED BY <1>3 DEF new

LEMMA NewNoteField ==
  ASSUME NEW note, NoteOK(note), NEW f \in NoteFields, NEW v, f = "sigs" => LinesOK(v)
  PROVE  NoteOK([note EXCEPT ![f] = v])
<1> DEFINE new == [note EXCEPT ![f] = v]
<1>1. HasFields(new, NoteFields) /\ new[f] = v /\ \A g \in NoteFields \ {f} : new[g] = note[g]
  BY OneMoreField DEF NoteOK
<1> HIDE DEF new
<1>2. LinesOK(new["sigs"])
  BY <1>1 DEF NoteOK, NoteFields
<1>3. NoteOK(new)
  BY <1>1, <1>2 DEF NoteOK
<1> QED BY <1>3 DEF new

LEMMA NewSigs ==
  ASSUME NEW b, BundleOK(b), NEW sigs, LinesOK(sigs)
  PROVE  BundleOK([b EXCEPT !.note.sigs = sigs])
<1> DEFINE note == [b.note EXCEPT !["sigs"] = sigs]
<1>1. NoteOK(note)
  BY NewNoteField DEF BundleOK, NoteFields
<1>2. [b EXCEPT !.note.sigs = sigs] = [b EXCEPT !["note"] = note]
  OBVIOUS
<1> HIDE DEF note
<1>3. BundleOK([b EXCEPT !["note"] = note])
  BY <1>1, NewField DEF BundleFields
<1> QED BY <1>2, <1>3

LEMMA NewText ==
  ASSUME NEW b, BundleOK(b), NEW text
  PROVE  BundleOK([b EXCEPT !.note.text = text])
<1> DEFINE note == [b.note EXCEPT !["text"] = text]
<1>1. NoteOK(note)
  BY NewNoteField DEF BundleOK, NoteFields
<1>2. [b EXCEPT !.note.text = text] = [b EXCEPT !["note"] = note]
  OBVIOUS
<1> HIDE DEF note
<1>3. BundleOK([b EXCEPT !["note"] = note])
  BY <1>1, NewField DEF BundleFields
<1> QED BY <1>2, <1>3

LEMMA MoreLines ==
  ASSUME NEW sigs, LinesOK(sigs), NEW l, LineOK(l)
  PROVE  LinesOK(Append(sigs, l)) /\ LinesOK(<<l>> \o sigs)
<1>1. PICK S : sigs \in Seq(S) /\ \A line \in S : LineOK(line)
  BY DEF LinesOK
<1>2. \A line \in S \cup {l} : LineOK(line)
  BY <1>1
<1>3. sigs \in Seq(S \cup {l}) /\ <<l>> \in Seq(S \cup {l})
  BY <1>1
<1>4. Append(sigs, l) \in Seq(S \cup {l}) /\ <<l>> \o sigs \in Seq(S \cup {l})
  BY <1>3
<1> QED BY <1>2, <1>4 DEF LinesOK

LEMMA TailLines ==
  ASSUME NEW sigs, LinesOK(sigs), sigs # <<>>
  PROVE  LinesOK(Tail(sigs))
<1>1. PICK S : sigs \in Seq(S) /\ \A line \in S : LineOK(line)
  BY DEF LinesOK
<1>2. Tail(sigs) \in Seq(S)
  BY <1>1
<1> QED BY <1>1, <1>2 DEF LinesOK

LEMMA LinesAreOK ==
  ASSUME GenuineOK, IsListOfAny(appended), NEW l \in Lines
  PROVE  LineOK(l)
<1>1. PICK S : appended \in Seq(S)
  BY DEF IsListOfAny
<1>2. Len(appended) \in 0..Len(appended) /\ SubSeq(appended, 1, Len(appended)) = appended
  BY <1>1
<1>3. genuine.note.text = TextAt(Len(appended))
  BY <1>2 DEF GenuineOK, TextAt
<1>4. l.key = Signer => l.text = genuine.note.text
  <2>1. ASSUME NEW n, NEW k, NEW t, k # Signer PROVE SignatureLine(n, k, t).key # Signer
    BY <2>1 DEF SignatureLine
  <2>2. ASSUME NEW k, NEW w PROVE [SignatureLine(LogName, k, genuine.note.text) EXCEPT !.whole = w].text = genuine.note.text
    BY DEF SignatureLine
  <2>3. CASE \E n \in NoteNames : \E k \in NoteKeys \ {Signer} : \E t : l = SignatureLine(n, k, t)
    BY <2>1, <2>3
  <2>4. CASE \E k \in NoteKeys : \E w \in BOOLEAN : l = [SignatureLine(LogName, k, genuine.note.text) EXCEPT !.whole = w]
    BY <2>2, <2>4
  <2> QED BY <2>3, <2>4 DEF Lines
<1> QED BY <1>2, <1>3, <1>4 DEF LineOK

LEMMA ChangedIsOK ==
  ASSUME BundleOK(bundle), GenuineOK, IsListOfAny(appended), bundle.note.sigs # <<>>, NEW b \in Changed
  PROVE  BundleOK(b)
<1>1. LinesOK(bundle.note.sigs)
  BY DEF BundleOK, NoteOK
<1>2. PICK S : appended \in Seq(S)
  BY DEF IsListOfAny
<1>3. Len(appended) \in Nat \ {0}
  BY <1>2 DEF GenuineOK
<1> DEFINE m == Len(appended) - 1
<1>4. m \in Nat /\ m \in 0..Len(appended) /\ Before \in Seq(S) /\ Len(Before) = m
  <2>1. m \in Nat /\ m \in 0..Len(appended)
    BY <1>3
  <2>2. Before = SubSeq(appended, 1, m)
    BY DEF Before
  <2> HIDE DEF m
  <2> QED BY <1>2, <2>1, <2>2, FirstOnes
<1>5. ASSUME NEW l \in Lines, b = [bundle EXCEPT !.note.sigs = Append(@, l)] PROVE BundleOK(b)
  <2>1. b = [bundle EXCEPT !.note.sigs = Append(bundle.note.sigs, l)]
    BY <1>5
  <2>2. LineOK(l)
    BY <1>5, LinesAreOK
  <2>3. LinesOK(Append(bundle.note.sigs, l))
    BY <1>1, <2>2, MoreLines
  <2> QED BY <2>1, <2>3, NewSigs
<1>6. ASSUME NEW l \in Lines, b = [bundle EXCEPT !.note.sigs = <<l>> \o @] PROVE BundleOK(b)
  <2>1. b = [bundle EXCEPT !.note.sigs = <<l>> \o bundle.note.sigs]
    BY <1>6
  <2>2. LineOK(l)
    BY <1>6, LinesAreOK
  <2>3. LinesOK(<<l>> \o bundle.note.sigs)
    BY <1>1, <2>2, MoreLines
  <2> QED BY <2>1, <2>3, NewSigs
<1>7. ASSUME b = [bundle EXCEPT !.note.sigs = Tail(@)] PROVE BundleOK(b)
  <2>1. b = [bundle EXCEPT !.note.sigs = Tail(bundle.note.sigs)]
    BY <1>7
  <2>2. LinesOK(Tail(bundle.note.sigs))
    BY <1>1, TailLines
  <2> QED BY <2>1, <2>2, NewSigs
<1>8. ASSUME NEW text, b = [bundle EXCEPT !.note.text = text] PROVE BundleOK(b)
  BY <1>8, NewText
<1>9. ASSUME NEW f, NEW v, b = [bundle EXCEPT !.note.text[f] = v] PROVE BundleOK(b)
  <2>1. b = [bundle EXCEPT !.note.text = [bundle.note.text EXCEPT ![f] = v]]
    BY <1>9
  <2> QED BY <2>1, <1>8
<1>10. ASSUME b = [bundle EXCEPT !.note = Signed(Before, Signer, LogName)] PROVE BundleOK(b)
  <2> DEFINE note == Signed(Before, Signer, LogName)
  <2>1. HasFields(note, NoteFields) /\ note.sigs = <<SignatureLine(LogName, Signer, TextAt(m))>>
    BY <1>4, SignedIs DEF TextAt, Before
  <2>2. NoteOK(note)
    BY <1>4, <2>1, OneLine DEF NoteOK
  <2> HIDE DEF note
  <2>3. b = [bundle EXCEPT !["note"] = note]
    BY <1>10 DEF note
  <2> QED BY <2>2, <2>3, NewField DEF BundleFields
<1>11. ASSUME NEW f \in {"index", "entry", "whole"}, NEW v, b = [bundle EXCEPT ![f] = v], f = "index" => v \in Nat
       PROVE  BundleOK(b)
  <2>1. f \in BundleFields /\ f # "note" /\ f # "inclusion"
    BY <1>11 DEF BundleFields
  <2> QED BY <1>11, <2>1, NewField
<1>12. ASSUME NEW v, b = [bundle EXCEPT !["inclusion"] = v], IsListOfAny(v) PROVE BundleOK(b)
  BY <1>12, NewField DEF BundleFields
<1>13. ASSUME NEW i \in 0..Len(appended) - 1,
              b = [bundle EXCEPT !.inclusion = InclusionPath(LogHashes(appended), i, Len(appended))]
       PROVE  BundleOK(b)
  <2>1. i \in Nat /\ i < Len(appended)
    BY <1>3
  <2> QED BY <1>2, <1>12, <1>13, <2>1, OwnInclusion
<1>14. ASSUME NEW i \in 0..Len(appended) - 2,
              b = [bundle EXCEPT !.inclusion = InclusionPath(LogHashes(Before), i, Len(Before))]
       PROVE  BundleOK(b)
  <2>1. i \in Nat /\ i < Len(Before)
    BY <1>3, <1>4
  <2> QED BY <1>4, <1>12, <1>14, <2>1, OwnInclusion
<1>15. 0..Len(appended) \subseteq Nat
  OBVIOUS
<1> HIDE DEF m
<1> QED BY <1>5, <1>6, <1>7, <1>8, <1>9, <1>10, <1>11, <1>13, <1>14, <1>15 DEF Changed

LEMMA SameAppended ==
  ASSUME appended' = appended, BundleOK(bundle'), GenuineOK, genuine' = genuine
  PROVE  BundleOK(bundle)' /\ GenuineOK'
<1>1. \A n : TextAt(n)' = TextAt(n)
  BY DEF TextAt
<1>2. \A line : LineOK(line) => LineOK(line)'
  BY <1>1 DEF LineOK
<1>3. \A sigs : LinesOK(sigs) => LinesOK(sigs)'
  BY <1>2 DEF LinesOK
<1>4. NoteOK(bundle'.note) => NoteOK(bundle.note)'
  BY <1>3 DEF NoteOK
<1> QED BY <1>4 DEF BundleOK, GenuineOK

LEMMA LogStep ==
  ASSUME BundleInv, NEW r, Log(r)
  PROVE  BundleInv'
<1>1. PICK S : appended \in Seq(S)
  BY DEF BundleInv, IsListOfAny
<1>2. appended' \in Seq(S \cup {EntryLine(r)})
  <2>1. appended \in Seq(S \cup {EntryLine(r)})
    BY <1>1
  <2> QED BY <2>1 DEF Log
<1>3. bundle' = Nothing /\ concluded' = concluded /\ concluded = Nothing
  BY DEF Log, BundleInv
<1> QED BY <1>2, <1>3 DEF BundleInv, IsListOfAny

LEMMA ProveStep ==
  ASSUME BundleInv, NEW i \in Nat, Prove(i)
  PROVE  BundleInv'
<1>1. PICK S : appended \in Seq(S)
  BY DEF BundleInv, IsListOfAny
<1> DEFINE n == Len(appended)
           b == [note |-> Signed(appended, Signer, LogName), index |-> i, entry |-> appended[i + 1],
                 inclusion |-> InclusionPath(LogHashes(appended), i, n), whole |-> TRUE]
<1>2. /\ bundle' = b /\ genuine' = b /\ appended' = appended /\ concluded' = concluded
      /\ concluded = Nothing /\ i < n
  BY DEF Prove, BundleInv
<1>3. n \in 0..n /\ SubSeq(appended, 1, n) = appended
  BY <1>1
<1>4. /\ HasFields(Signed(appended, Signer, LogName), NoteFields)
      /\ Signed(appended, Signer, LogName).sigs = <<SignatureLine(LogName, Signer, TextAt(n))>>
  <2>1. TextAt(n) = Signed(appended, Signer, LogName).text
    BY <1>3 DEF TextAt
  <2> QED BY <2>1, SignedIs
<1>5. NoteOK(Signed(appended, Signer, LogName))
  BY <1>3, <1>4, OneLine DEF NoteOK
<1>6. IsListOfAny(InclusionPath(LogHashes(appended), i, n))
  BY <1>1, <1>2, OwnInclusion
<1>7. /\ b.note = Signed(appended, Signer, LogName) /\ b.index = i /\ b.entry = appended[i + 1]
      /\ b.inclusion = InclusionPath(LogHashes(appended), i, n) /\ b.whole = TRUE
  OBVIOUS
<1>8. HasFields(b, BundleFields)
  BY DEF HasFields, BundleFields
<1> HIDE DEF b, n
<1>9. BundleOK(b) /\ b.note.sigs # <<>>
  <2>1. BundleOK(b)
    <3>1. NoteOK(b.note) /\ b.index \in Nat /\ IsListOfAny(b.inclusion)
      BY <1>5, <1>6, <1>7
    <3> QED BY <1>8, <3>1 DEF BundleOK
  <2>2. ASSUME NEW line PROVE <<line>> # <<>>
    OBVIOUS
  <2> QED BY <1>4, <1>7, <2>1, <2>2
<1>10. BundleOK(bundle)'
  <2>1. \A m : TextAt(m)' = TextAt(m)
    BY <1>2 DEF TextAt
  <2>2. \A line : LineOK(line) => LineOK(line)'
    BY <1>2, <2>1 DEF LineOK
  <2>3. \A sigs : LinesOK(sigs) => LinesOK(sigs)'
    BY <2>2 DEF LinesOK
  <2>4. NoteOK(b.note) => NoteOK(bundle.note)'
    BY <1>2, <2>3 DEF NoteOK
  <2> QED BY <1>2, <1>9, <2>4 DEF BundleOK
<1>11. GenuineOK'
  BY <1>2, <1>7, <1>8 DEF GenuineOK, n
<1> QED BY <1>2, <1>9, <1>10, <1>11 DEF BundleInv

LEMMA ChangeStep ==
  ASSUME BundleInv, Change
  PROVE  BundleInv'
<1>1. /\ bundle # Nothing /\ concluded = Nothing /\ concluded' = Nothing /\ appended' = appended /\ genuine' = genuine
      /\ bundle' \in Changed /\ bundle'.note.sigs # <<>>
  BY DEF Change
<1>2. BundleOK(bundle) /\ GenuineOK /\ bundle.note.sigs # <<>> /\ IsListOfAny(appended)
  BY <1>1 DEF BundleInv
<1>3. BundleOK(bundle')
  BY <1>1, <1>2, ChangedIsOK
<1>4. BundleOK(bundle)' /\ GenuineOK'
  BY <1>1, <1>2, <1>3, SameAppended
<1> QED BY <1>1, <1>2, <1>4 DEF BundleInv

LEMMA VerifyStep ==
  ASSUME BundleInv, NEW name, NEW key, NEW kid, NEW report, Verify(name, key, kid, report)
  PROVE  BundleInv'
<1>1. /\ bundle # Nothing /\ bundle' = bundle /\ appended' = appended /\ genuine' = genuine
      /\ concluded' = [name |-> name, key |-> key, kid |-> kid, report |-> report,
                       accepts |-> VerifyBundle(bundle, [name |-> name, kid |-> kid, key |-> key], report)]
  BY DEF Verify
<1>2. BundleOK(bundle) /\ GenuineOK /\ bundle.note.sigs # <<>> /\ IsListOfAny(appended)
  BY <1>1 DEF BundleInv
<1>3. BundleOK(bundle)' /\ GenuineOK'
  BY <1>1, <1>2, SameAppended
<1>4. /\ concluded'.name = name /\ concluded'.key = key /\ concluded'.kid = kid /\ concluded'.report = report
      /\ concluded'.accepts = VerifyBundle(bundle, [name |-> name, kid |-> kid, key |-> key], report)
  BY <1>1
<1>5. Concluded(bundle)'
  BY <1>1, <1>4 DEF Concluded
<1> QED BY <1>1, <1>2, <1>3, <1>5 DEF BundleInv

(***************************************************************************)
(* However a bundle and its note are changed on their way, and however     *)
(* long the log: what verifies under the log's key is an entry at its      *)
(* place in a tree the log signed, the report's own when one is given; and *)
(* a bundle as the log gave it verifies, whoever else has signed its note  *)
(* (verify_bundle, _verify_note, verify_checkpoint).                       *)
(***************************************************************************)
THEOREM BundlesAlwaysHold ==
  ASSUME BundleConstants
  PROVE  BundleSpec => []BundlesHold
<1>1. BundleInit => BundleInv
  <2>1. <<>> \in Seq({})
    OBVIOUS
  <2> QED BY <2>1 DEF BundleInit, BundleInv, IsListOfAny
<1>2. BundleInv /\ [BundleNext]_bundleVars => BundleInv'
  <2> SUFFICES ASSUME BundleInv, [BundleNext]_bundleVars PROVE BundleInv'
    OBVIOUS
  <2>1. CASE \E i \in 0..MaxAppended : Prove(i)
    <3>1. PICK i \in Nat : Prove(i)
      BY <2>1 DEF BundleConstants
    <3> QED BY <3>1, ProveStep
  <2>2. CASE UNCHANGED bundleVars
    <3>1. /\ appended' = appended /\ bundle' = bundle /\ genuine' = genuine /\ concluded' = concluded
      BY <2>2 DEF bundleVars
    <3>2. bundle # Nothing => BundleOK(bundle)' /\ GenuineOK'
      BY <3>1, SameAppended DEF BundleInv
    <3>3. Concluded(bundle) => Concluded(bundle)'
      BY <3>1 DEF Concluded
    <3> QED BY <3>1, <3>2, <3>3 DEF BundleInv
  <2> QED BY <2>1, <2>2, LogStep, ChangeStep, VerifyStep DEF BundleNext
<1>3. BundleInv => BundlesHold
  BY BundlesProve, OthersSpoilNothing DEF BundlesHold
<1> QED BY <1>1, <1>2, <1>3, PTL DEF BundleSpec

-----------------------------------------------------------------------------
(***************************************************************************)
(* Counting: a map that keeps apart does not shrink, and between sets of   *)
(* one size it leaves nothing out.                                         *)
(***************************************************************************)
LEMMA KeptApart ==
  ASSUME NEW S, NEW T, IsFiniteSet(S), IsFiniteSet(T), NEW f \in [S -> T],
         \A x, y \in S : f[x] = f[y] => x = y
  PROVE  /\ Cardinality(S) <= Cardinality(T)
         /\ Cardinality(S) = Cardinality(T) => \A t \in T : \E s \in S : f[s] = t
<1>1. Cardinality(S) \in Nat /\ Cardinality(T) \in Nat
  BY FS_CardinalityType
<1>2. ~(Cardinality(T) < Cardinality(S))
  BY FS_PigeonHole
<1>3. ASSUME Cardinality(S) = Cardinality(T), NEW t \in T, \A s \in S : f[s] # t PROVE FALSE
  <2> DEFINE R == T \ {t}
  <2>1. IsFiniteSet(R) /\ Cardinality(R) = Cardinality(T) - 1
    BY FS_RemoveElement
  <2>2. f \in [S -> R]
    BY <1>3
  <2> HIDE DEF R
  <2>3. Cardinality(R) < Cardinality(S)
    BY <1>1, <1>3, <2>1
  <2> QED BY <2>1, <2>2, <2>3, FS_PigeonHole
<1> QED BY <1>1, <1>2, <1>3

-----------------------------------------------------------------------------
Finding == [kind : Rules, file : Sources, detail : Details, line : Nat]
SarifInv == findings \in Seq(Finding)

\* What stands before what, among results of one key.
Less(fs, j, i) == fs[j].line < fs[i].line \/ (fs[j].line = fs[i].line /\ j < i)
Ahead(fs, i) == {j \in 1..Len(fs) : Key(fs[j]) = Key(fs[i]) /\ Less(fs, j, i)}
Alike(fs, i) == {j \in 1..Len(fs) : Key(fs[j]) = Key(fs[i])}

LEMMA FindingIs ==
  ASSUME NEW fs \in Seq(Finding), NEW i \in 1..Len(fs)
  PROVE  fs[i] \in Finding /\ fs[i].line \in Nat
<1>1. fs[i] \in Finding
  OBVIOUS
<1> QED BY <1>1 DEF Finding

LEMMA OccurrenceIs == \A fs, i : Occurrence(fs, i) = Cardinality(Ahead(fs, i))
BY DEF Occurrence, Ahead, Less

LEMMA AheadFinite ==
  ASSUME NEW fs \in Seq(Finding), NEW i \in 1..Len(fs)
  PROVE  /\ IsFiniteSet(Ahead(fs, i)) /\ IsFiniteSet(Alike(fs, i))
         /\ Occurrence(fs, i) \in Nat /\ Cardinality(Alike(fs, i)) \in Nat
         /\ Occurrence(fs, i) < Cardinality(Alike(fs, i))
<1> DEFINE A == Ahead(fs, i)
           C == Alike(fs, i)
           D == 1..Len(fs)
<1>1. IsFiniteSet(D)
  BY FS_Interval
<1>2. A \subseteq C /\ C \subseteq D /\ i \in C /\ i \notin A
  <2>1. fs[i].line \in Nat
    BY FindingIs
  <2> QED BY <2>1 DEF Ahead, Alike, Less
<1>3. Occurrence(fs, i) = Cardinality(A)
  BY OccurrenceIs
<1> HIDE DEF A, C, D
<1>4. IsFiniteSet(C)
  BY <1>1, <1>2, FS_Subset
<1>5. IsFiniteSet(A) /\ Cardinality(A) <= Cardinality(C) /\ (Cardinality(C) = Cardinality(A) => C = A)
  BY <1>2, <1>4, FS_Subset
<1>6. Cardinality(A) \in Nat /\ Cardinality(C) \in Nat
  BY <1>4, <1>5, FS_CardinalityType
<1>7. Cardinality(A) < Cardinality(C)
  BY <1>2, <1>5, <1>6
<1> QED BY <1>3, <1>4, <1>5, <1>6, <1>7 DEF A, C

(***************************************************************************)
(* Of two results of one key, the later has more before it; so no two      *)
(* results of a log have one fingerprint.                                  *)
(***************************************************************************)
LEMMA LaterHasMore ==
  ASSUME NEW fs \in Seq(Finding), NEW i \in 1..Len(fs), NEW j \in 1..Len(fs),
         Key(fs[i]) = Key(fs[j]), Less(fs, j, i)
  PROVE  Occurrence(fs, j) < Occurrence(fs, i)
<1> DEFINE A == Ahead(fs, i)
           B == Ahead(fs, j)
<1>1. fs[i].line \in Nat /\ fs[j].line \in Nat /\ \A k \in 1..Len(fs) : fs[k].line \in Nat
  BY FindingIs
<1>2. B \subseteq A
  BY <1>1 DEF Ahead, Less
<1>3. j \in A /\ j \notin B
  BY <1>1 DEF Ahead, Less
<1>4. IsFiniteSet(A) /\ IsFiniteSet(B)
  BY AheadFinite
<1> HIDE DEF A, B
<1>5. Cardinality(B) <= Cardinality(A) /\ Cardinality(A) # Cardinality(B)
  BY <1>2, <1>3, <1>4, FS_Subset
<1>6. Cardinality(A) \in Nat /\ Cardinality(B) \in Nat
  BY <1>4, FS_CardinalityType
<1>7. Cardinality(B) < Cardinality(A)
  BY <1>5, <1>6
<1> QED BY <1>7, OccurrenceIs DEF A, B

LEMMA OwnFingerprint ==
  ASSUME NEW fs \in Seq(Finding), NEW i \in 1..Len(fs), NEW j \in 1..Len(fs),
         Fingerprint(fs, i) = Fingerprint(fs, j)
  PROVE  i = j
<1>1. Key(fs[i]) = Key(fs[j]) /\ Occurrence(fs, i) = Occurrence(fs, j)
  BY DEF Fingerprint
<1>2. fs[i].line \in Nat /\ fs[j].line \in Nat
  BY FindingIs
<1>3. Occurrence(fs, i) \in Nat /\ Occurrence(fs, j) \in Nat
  BY AheadFinite
<1>4. ~Less(fs, i, j) /\ ~Less(fs, j, i)
  BY <1>1, <1>3, LaterHasMore
<1> QED BY <1>2, <1>4 DEF Less

LEMMA NoneMergedInv == SarifInv => NoneMerged
<1> SUFFICES ASSUME SarifInv, NEW i \in 1..Len(findings), NEW j \in 1..Len(findings), Sarif[i].fp = Sarif[j].fp
             PROVE  i = j
  BY DEF NoneMerged
<1>1. Fingerprint(findings, i) = Fingerprint(findings, j)
  BY DEF Sarif, ToSarif, Result
<1> QED BY <1>1, OwnFingerprint DEF SarifInv

(***************************************************************************)
(* The results of one key have the occurrences 0, 1, 2, ... in some order. *)
(***************************************************************************)
LEMMA OccurrencesFill ==
  ASSUME NEW fs \in Seq(Finding), NEW i \in 1..Len(fs), NEW r \in Nat, r < Cardinality(Alike(fs, i))
  PROVE  \E j \in 1..Len(fs) : Fingerprint(fs, j) = <<Key(fs[i]), r>>
<1> DEFINE C == Alike(fs, i)
           m == Cardinality(C)
           f == [j \in C |-> Occurrence(fs, j)]
           T == 0..(m - 1)
<1>1. IsFiniteSet(C) /\ m \in Nat
  BY AheadFinite
<1>2. ASSUME NEW j \in C
      PROVE  j \in 1..Len(fs) /\ Key(fs[j]) = Key(fs[i]) /\ Occurrence(fs, j) \in Nat /\ Occurrence(fs, j) < m
  <2>1. j \in 1..Len(fs) /\ Key(fs[j]) = Key(fs[i]) /\ Alike(fs, j) = C
    BY DEF Alike
  <2>2. Occurrence(fs, j) \in Nat /\ Occurrence(fs, j) < Cardinality(Alike(fs, j))
    BY <2>1, AheadFinite
  <2> QED BY <2>1, <2>2
<1>3. ASSUME NEW j \in C, NEW k \in C, f[j] = f[k] PROVE j = k
  <2>1. Fingerprint(fs, j) = Fingerprint(fs, k)
    BY <1>2, <1>3 DEF Fingerprint
  <2> HIDE DEF C, m, f
  <2> QED BY <2>1, <1>2, <1>3, OwnFingerprint
<1> HIDE DEF C
<1>4. IsFiniteSet(T) /\ Cardinality(T) = m
  <2> HIDE DEF m
  <2>1. m - 1 \in Int /\ 0 \in Int
    BY <1>1
  <2>2. IsFiniteSet(0..(m - 1)) /\ Cardinality(0..(m - 1)) = IF 0 > m - 1 THEN 0 ELSE (m - 1) - 0 + 1
    BY <2>1, FS_Interval
  <2> QED BY <1>1, <2>2
<1>5. f \in [C -> T]
  <2> HIDE DEF m
  <2> SUFFICES ASSUME NEW j \in C PROVE Occurrence(fs, j) \in T
    OBVIOUS
  <2> QED BY <1>1, <1>2
<1>6. r \in T
  <2>1. r < m
    BY DEF C
  <2> HIDE DEF m
  <2> QED BY <1>1, <2>1
<1>7. \A j, k \in C : f[j] = f[k] => j = k
  BY <1>3
<1>8. PICK j \in C : f[j] = r
  <2> HIDE DEF f, T
  <2>1. Cardinality(C) = Cardinality(T)
    BY <1>4
  <2> HIDE DEF m
  <2> QED BY <1>1, <1>4, <1>5, <1>6, <1>7, <2>1, KeptApart
<1> QED BY <1>2, <1>8 DEF Fingerprint

-----------------------------------------------------------------------------
(***************************************************************************)
(* An edit that keeps every key, and the order of the lines of one file,   *)
(* keeps every fingerprint.                                                *)
(***************************************************************************)
LEMMA SameOrderSameFingerprints ==
  ASSUME NEW fs, NEW gs, Len(gs) = Len(fs),
         \A i \in 1..Len(fs) : Key(gs[i]) = Key(fs[i]),
         \A i, j \in 1..Len(fs) : Key(fs[j]) = Key(fs[i]) => (Less(gs, j, i) <=> Less(fs, j, i))
  PROVE  Fps(ToSarif(gs)) = Fps(ToSarif(fs))
<1>1. ASSUME NEW i \in 1..Len(fs) PROVE Fingerprint(gs, i) = Fingerprint(fs, i)
  <2>1. Ahead(gs, i) = Ahead(fs, i)
    BY DEF Ahead
  <2> QED BY <2>1, OccurrenceIs DEF Fingerprint
<1>2. \A hs : Fps(ToSarif(hs)) = [i \in 1..Len(hs) |-> Fingerprint(hs, i)]
  BY DEF Fps, ToSarif, Result
<1> QED BY <1>1, <1>2

LEMMA LinesMove ==
  ASSUME SarifInv, InsertLine \/ DeleteLine
  PROVE  /\ findings' \in Seq(Finding)
         /\ Fps(ToSarif(findings)) = Fps(ToSarif(findings'))
<1> DEFINE n == Len(findings)
           D == 1..n
<1>1. n \in Nat /\ findings \in Seq(Finding)
  BY DEF SarifInv
<1>2. \A i \in D : findings[i] \in Finding /\ findings[i].line \in Nat
  BY <1>1, FindingIs
<1>3. \E g \in [D -> Finding] :
        /\ findings' = g
        /\ \A i \in D : Key(g[i]) = Key(findings[i])
        /\ \A i, j \in D : Key(findings[j]) = Key(findings[i]) =>
             /\ g[j].line < g[i].line <=> findings[j].line < findings[i].line
             /\ g[j].line = g[i].line <=> findings[j].line = findings[i].line
  <2>1. CASE InsertLine
    <3>1. PICK file \in Sources, line \in 1..LastLine :
            findings' = [i \in D |-> Moved(findings[i], file, line, 1)]
      BY <2>1 DEF InsertLine
    <3> DEFINE g == [i \in D |-> Moved(findings[i], file, line, 1)]
    <3>2. line \in Nat
      BY LinesAssumption
    <3>3. ASSUME NEW i \in D
          PROVE  /\ g[i] \in Finding /\ Key(g[i]) = Key(findings[i])
                 /\ g[i].line = IF findings[i].file = file /\ findings[i].line >= line
                                THEN findings[i].line + 1 ELSE findings[i].line
      <4> HIDE DEF D
      <4>1. findings[i] \in Finding /\ findings[i].line \in Nat /\ g[i] = Moved(findings[i], file, line, 1)
        BY <1>2
      <4> HIDE DEF g
      <4> QED BY <4>1 DEF Moved, Key, Finding
    <3>4. ASSUME NEW i \in D, NEW j \in D, Key(findings[j]) = Key(findings[i])
          PROVE  /\ g[j].line < g[i].line <=> findings[j].line < findings[i].line
                 /\ g[j].line = g[i].line <=> findings[j].line = findings[i].line
      <4>1. findings[j].file = findings[i].file
        BY <3>4 DEF Key
      <4> HIDE DEF g, D
      <4> QED BY <4>1, <3>2, <3>3, <1>2
    <3>5. g \in [D -> Finding]
      <4>1. \A i \in D : g[i] \in Finding
        BY <3>3
      <4> QED BY <4>1
    <3>6. findings' = g
      BY <3>1
    <3> HIDE DEF g, D
    <3> QED BY <3>3, <3>4, <3>5, <3>6
  <2>2. CASE DeleteLine
    <3>1. PICK file \in Sources, line \in 1..LastLine :
            /\ \A i \in D : findings[i].file # file \/ findings[i].line # line
            /\ findings' = [i \in D |-> IF findings[i].file = file /\ findings[i].line > line
                                         THEN [findings[i] EXCEPT !.line = @ - 1] ELSE findings[i]]
      BY <2>2 DEF DeleteLine
    <3> DEFINE g == [i \in D |-> IF findings[i].file = file /\ findings[i].line > line
                                 THEN [findings[i] EXCEPT !.line = @ - 1] ELSE findings[i]]
    <3>2. line \in Nat \ {0}
      BY LinesAssumption
    <3>3. ASSUME NEW i \in D
          PROVE  /\ g[i] \in Finding /\ Key(g[i]) = Key(findings[i])
                 /\ g[i].line = IF findings[i].file = file /\ findings[i].line > line
                                THEN findings[i].line - 1 ELSE findings[i].line
      <4> HIDE DEF D
      <4>1. /\ findings[i] \in Finding /\ findings[i].line \in Nat
            /\ g[i] = IF findings[i].file = file /\ findings[i].line > line
                      THEN [findings[i] EXCEPT !.line = @ - 1] ELSE findings[i]
        BY <1>2
      <4> HIDE DEF g
      <4> QED BY <4>1, <3>2 DEF Key, Finding
    <3>4. ASSUME NEW i \in D, NEW j \in D, Key(findings[j]) = Key(findings[i])
          PROVE  /\ g[j].line < g[i].line <=> findings[j].line < findings[i].line
                 /\ g[j].line = g[i].line <=> findings[j].line = findings[i].line
      <4>1. findings[j].file = findings[i].file
        BY <3>4 DEF Key
      <4>2. /\ findings[i].file # file \/ findings[i].line # line
            /\ findings[j].file # file \/ findings[j].line # line
        BY <3>1
      <4> HIDE DEF g, D
      <4> QED BY <4>1, <4>2, <3>2, <3>3, <1>2
    <3>5. g \in [D -> Finding]
      <4>1. \A i \in D : g[i] \in Finding
        BY <3>3
      <4> QED BY <4>1
    <3>6. findings' = g
      BY <3>1
    <3> HIDE DEF g, D
    <3> QED BY <3>3, <3>4, <3>5, <3>6
  <2> QED BY <2>1, <2>2
<1>4. PICK g \in [D -> Finding] :
        /\ findings' = g
        /\ \A i \in D : Key(g[i]) = Key(findings[i])
        /\ \A i, j \in D : Key(findings[j]) = Key(findings[i]) =>
             /\ g[j].line < g[i].line <=> findings[j].line < findings[i].line
             /\ g[j].line = g[i].line <=> findings[j].line = findings[i].line
  BY <1>3
<1>5. g \in Seq(Finding) /\ Len(g) = n
  BY <1>1
<1>6. \A i, j \in D : Key(findings[j]) = Key(findings[i]) => (Less(g, j, i) <=> Less(findings, j, i))
  BY <1>4 DEF Less
<1>7. Fps(ToSarif(g)) = Fps(ToSarif(findings))
  BY <1>4, <1>5, <1>6, SameOrderSameFingerprints
<1> QED BY <1>4, <1>5, <1>7

-----------------------------------------------------------------------------
\* As many fingerprints as results.
LEMMA FpCount ==
  ASSUME NEW fs \in Seq(Finding)
  PROVE  IsFiniteSet(FpSet(fs)) /\ Cardinality(FpSet(fs)) = Len(fs)
<1> DEFINE D == 1..Len(fs)
           f == [i \in D |-> Fingerprint(fs, i)]
<1>1. IsFiniteSet(D) /\ Cardinality(D) = Len(fs)
  <2>1. Len(fs) \in Nat
    OBVIOUS
  <2> QED BY <2>1, FS_Interval
<1>2. f \in Surjection(D, FpSet(fs))
  BY DEF Surjection, FpSet
<1>3. \A i, j \in D : f[i] = f[j] => i = j
  BY OwnFingerprint
<1>4. f \in Injection(D, FpSet(fs))
  BY <1>2, <1>3 DEF Surjection, Injection, IsInjective
<1> HIDE DEF D, f
<1> QED BY <1>1, <1>2, <1>4, FS_Surjection

(***************************************************************************)
(* Without its p-th element a sequence is what it was, but for a step.     *)
(***************************************************************************)
LEMMA Without ==
  ASSUME NEW fs \in Seq(Finding), NEW p \in 1..Len(fs)
  PROVE  LET g == SubSeq(fs, 1, p - 1) \o SubSeq(fs, p + 1, Len(fs))
         IN  /\ g \in Seq(Finding) /\ Len(g) = Len(fs) - 1
             /\ \A i \in 1..Len(g) : g[i] = fs[IF i < p THEN i ELSE i + 1]
<1> DEFINE n == Len(fs)
           a == SubSeq(fs, 1, p - 1)
           b == SubSeq(fs, p + 1, n)
           g == a \o b
<1>1. n \in Nat /\ p \in 1..n /\ \A i \in 1..n : fs[i] \in Finding
  OBVIOUS
<1>2. a \in Seq(Finding) /\ Len(a) = p - 1 /\ \A i \in 1..(p - 1) : a[i] = fs[i]
  <2>1. /\ a \in Seq(Finding) /\ Len(a) = IF 1 <= p - 1 THEN (p - 1) - 1 + 1 ELSE 0
        /\ \A i \in 1..(p - 1) - 1 + 1 : a[i] = fs[1 + i - 1]
    <3> HIDE DEF n
    <3>1. 1 \in Int /\ p - 1 \in Int /\ \A i \in 1..(p - 1) : fs[i] \in Finding
      BY <1>1
    <3> QED BY <3>1, SubSeqProperties
  <2> HIDE DEF a, n
  <2> QED BY <1>1, <2>1
<1>3. b \in Seq(Finding) /\ Len(b) = n - p /\ \A i \in 1..(n - p) : b[i] = fs[p + i]
  <2>1. /\ b \in Seq(Finding) /\ Len(b) = IF p + 1 <= n THEN n - (p + 1) + 1 ELSE 0
        /\ \A i \in 1..n - (p + 1) + 1 : b[i] = fs[(p + 1) + i - 1]
    <3> HIDE DEF n
    <3>1. p + 1 \in Int /\ n \in Int /\ \A i \in (p + 1)..n : fs[i] \in Finding
      BY <1>1
    <3> QED BY <3>1, SubSeqProperties
  <2> HIDE DEF b, n
  <2> QED BY <1>1, <2>1
<1> HIDE DEF a, b
<1>4. /\ g \in Seq(Finding) /\ Len(g) = Len(a) + Len(b)
      /\ \A i \in 1..Len(a) + Len(b) : g[i] = IF i <= Len(a) THEN a[i] ELSE b[i - Len(a)]
  BY <1>2, <1>3, ConcatProperties
<1> HIDE DEF g, n
<1>5. Len(g) = n - 1
  BY <1>1, <1>2, <1>3, <1>4
<1>6. ASSUME NEW i \in 1..Len(g) PROVE g[i] = fs[IF i < p THEN i ELSE i + 1]
  <2>1. CASE i < p
    BY <2>1, <1>1, <1>2, <1>3, <1>4, <1>5
  <2>2. CASE ~(i < p)
    <3>1. i - (p - 1) \in 1..(n - p) /\ p + (i - (p - 1)) = i + 1
      BY <2>2, <1>1, <1>5
    <3>2. g[i] = b[i - (p - 1)]
      BY <2>2, <1>1, <1>2, <1>3, <1>4, <1>5
    <3> QED BY <2>2, <3>1, <3>2, <1>3
  <2> QED BY <2>1, <2>2
<1> QED BY <1>4, <1>5, <1>6 DEF g, n, a, b

(***************************************************************************)
(* What is left after a fix has only fingerprints that there were: as many *)
(* alike were there, at least, and they have the occurrences 0, 1, 2 ...   *)
(***************************************************************************)
LEMMA LeftWereThere ==
  ASSUME NEW fs \in Seq(Finding), NEW g \in Seq(Finding), NEW p \in 1..Len(fs),
         Len(g) = Len(fs) - 1, \A i \in 1..Len(g) : g[i] = fs[IF i < p THEN i ELSE i + 1]
  PROVE  FpSet(g) \subseteq FpSet(fs)
<1> SUFFICES ASSUME NEW i \in 1..Len(g)
             PROVE  \E j \in 1..Len(fs) : Fingerprint(fs, j) = Fingerprint(g, i)
  BY DEF FpSet
<1> DEFINE h == [j \in 1..Len(g) |-> IF j < p THEN j ELSE j + 1]
           r == Occurrence(g, i)
           S == Alike(g, i)
           T == Alike(fs, h[i])
<1>1. \A j \in 1..Len(g) : h[j] \in 1..Len(fs) /\ g[j] = fs[h[j]]
  OBVIOUS
<1>2. \A j, k \in 1..Len(g) : h[j] = h[k] => j = k
  OBVIOUS
<1> HIDE DEF h
<1>3. r \in Nat /\ r < Cardinality(S) /\ IsFiniteSet(S) /\ Cardinality(S) \in Nat
  BY AheadFinite
<1>4. IsFiniteSet(T) /\ Cardinality(T) \in Nat
  BY <1>1, AheadFinite
<1>5. Cardinality(S) <= Cardinality(T)
  <2> DEFINE f == [j \in S |-> h[j]]
  <2>1. f \in [S -> T] /\ \A j, k \in S : f[j] = f[k] => j = k
    BY <1>1, <1>2 DEF Alike
  <2> HIDE DEF f, S, T
  <2> QED BY <1>3, <1>4, <2>1, KeptApart
<1>6. r < Cardinality(T)
  <2> HIDE DEF r, S, T
  <2> QED BY <1>3, <1>4, <1>5
<1>7. \E j \in 1..Len(fs) : Fingerprint(fs, j) = <<Key(fs[h[i]]), r>>
  <2> HIDE DEF r
  <2> QED BY <1>1, <1>3, <1>6, OccurrencesFill
<1>8. Fingerprint(g, i) = <<Key(fs[h[i]]), r>>
  BY <1>1 DEF Fingerprint
<1> QED BY <1>7, <1>8

LEMMA FixCloses ==
  ASSUME SarifInv, Fix
  PROVE  /\ findings' \in Seq(Finding)
         /\ FpSet(findings') \subseteq FpSet(findings)
         /\ Cardinality(FpSet(findings) \ FpSet(findings')) = 1
<1> DEFINE fs == findings
           g == findings'
           A == FpSet(fs)
           B == FpSet(g)
<1>1. fs \in Seq(Finding)
  BY DEF SarifInv
<1>2. PICK p \in 1..Len(fs) : g = SubSeq(fs, 1, p - 1) \o SubSeq(fs, p + 1, Len(fs))
  BY DEF Fix
<1>3. /\ g \in Seq(Finding) /\ Len(g) = Len(fs) - 1
      /\ \A i \in 1..Len(g) : g[i] = fs[IF i < p THEN i ELSE i + 1]
  BY <1>1, <1>2, Without
<1>4. B \subseteq A
  BY <1>1, <1>3, LeftWereThere
<1>5. IsFiniteSet(A) /\ Cardinality(A) = Len(fs) /\ IsFiniteSet(B) /\ Cardinality(B) = Len(fs) - 1
  BY <1>1, <1>3, FpCount
<1>6. Len(fs) \in Nat
  BY <1>1
<1> HIDE DEF A, B
<1>7. Cardinality(A \ B) = Cardinality(A) - Cardinality(A \cap B)
  BY <1>5, FS_Difference
<1>8. A \cap B = B
  BY <1>4
<1>9. Cardinality(A \ B) = 1
  <2>1. Cardinality(A \ B) = Len(fs) - (Len(fs) - 1)
    BY <1>5, <1>7, <1>8
  <2> HIDE DEF fs
  <2> QED BY <1>6, <2>1
<1> QED BY <1>3, <1>4, <1>9 DEF A, B

-----------------------------------------------------------------------------
LEMMA PutKeeps ==
  ASSUME NEW fs \in Seq(Finding), NEW i \in 0..Len(fs), NEW f \in Finding
  PROVE  Put(fs, i, f) \in Seq(Finding)
<1> DEFINE n == Len(fs)
           a == SubSeq(fs, 1, i)
           b == SubSeq(fs, i + 1, n)
<1>1. n \in Nat /\ i \in Nat /\ i <= n /\ \A j \in 1..n : fs[j] \in Finding
  OBVIOUS
<1>2. Put(fs, i, f) = a \o <<f>> \o b
  BY DEF Put
<1>3. a \in Seq(Finding)
  <2> HIDE DEF n
  <2>1. 1 \in Int /\ i \in Int /\ \A j \in 1..i : fs[j] \in Finding
    BY <1>1
  <2> QED BY <2>1, SubSeqProperties
<1>4. b \in Seq(Finding)
  <2> HIDE DEF n
  <2>1. i + 1 \in Int /\ n \in Int /\ \A j \in (i + 1)..n : fs[j] \in Finding
    BY <1>1
  <2> QED BY <2>1, SubSeqProperties
<1>5. <<f>> \in Seq(Finding)
  OBVIOUS
<1> HIDE DEF a, b
<1> QED BY <1>2, <1>3, <1>4, <1>5

LEMMA SarifStep == SarifInv /\ [SarifNext]_findings => SarifInv'
<1> SUFFICES ASSUME SarifInv, [SarifNext]_findings PROVE SarifInv'
  OBVIOUS
<1>1. CASE UNCHANGED findings
  BY <1>1 DEF SarifInv
<1>2. CASE Write
  <2>1. PICK kind \in Rules, file \in Sources, detail \in Details, line \in 0..LastLine, i \in 0..Len(findings) :
          findings' = Put(findings, i, [kind |-> kind, file |-> file, detail |-> detail, line |-> line])
    BY <1>2 DEF Write
  <2>2. [kind |-> kind, file |-> file, detail |-> detail, line |-> line] \in Finding
    BY LinesAssumption DEF Finding
  <2> QED BY <2>1, <2>2, PutKeeps DEF SarifInv
<1>3. CASE Fix
  BY <1>3, FixCloses DEF SarifInv
<1>4. CASE InsertLine \/ DeleteLine
  BY <1>4, LinesMove DEF SarifInv
<1> QED BY <1>1, <1>2, <1>3, <1>4 DEF SarifNext

LEMMA SarifStart == SarifInit => SarifInv
BY DEF SarifInit, SarifInv

LEMMA AlertsStep == SarifInv /\ SarifInv' => NoneMerged' /\ KeepsIdentity /\ ClosesOne
<1> SUFFICES ASSUME SarifInv, SarifInv' PROVE NoneMerged' /\ KeepsIdentity /\ ClosesOne
  OBVIOUS
<1>1. NoneMerged'
  BY NoneMergedInv, PTL
<1>2. KeepsIdentity
  BY LinesMove DEF KeepsIdentity
<1>3. ClosesOne
  BY FixCloses DEF ClosesOne
<1> QED BY <1>1, <1>2, <1>3

(***************************************************************************)
(* However many findings a report has, and wherever: no two of its results *)
(* share a fingerprint, an edit without findings keeps every alert, and a  *)
(* fix closes exactly one.                                                 *)
(***************************************************************************)
THEOREM AlertsAreKept == SarifSpec => AlertsKept
<1>1. SarifInv /\ SarifInv' => [NoneMerged' /\ KeepsIdentity /\ ClosesOne]_findings
  BY AlertsStep
<1> QED BY <1>1, SarifStart, SarifStep, PTL DEF SarifSpec, AlertsKept

-----------------------------------------------------------------------------
(***************************************************************************)
(* There is always a file to make: fewer are in use than there are.        *)
(***************************************************************************)
LEMMA UnusedIs ==
  ASSUME NEW table \in [PathNames -> Inodes], MaxWrites > 0
  PROVE  Unused(table) \in Inodes \ {NoFile} /\ \A n \in PathNames : table[n] # Unused(table)
<1> DEFINE N == Cardinality(PathNames) + MaxWrites
<1>1. Cardinality(PathNames) \in Nat /\ MaxWrites \in Nat
  BY PathsAssumption, FS_CardinalityType
<1>2. N \in Nat /\ Cardinality(PathNames) < N
  BY <1>1
<1>3. \E i \in 1..N : \A n \in PathNames : table[n] # i
  <2> SUFFICES ASSUME \A i \in 1..N : \E n \in PathNames : table[n] = i PROVE FALSE
    OBVIOUS
  <2> DEFINE g == [i \in 1..N |-> CHOOSE n \in PathNames : table[n] = i]
  <2>1. \A i \in 1..N : g[i] \in PathNames /\ table[g[i]] = i
    OBVIOUS
  <2>2. g \in [1..N -> PathNames]
    BY <2>1
  <2>3. IsFiniteSet(1..N) /\ Cardinality(1..N) = N
    <3> HIDE DEF N
    <3>1. 1 \in Int /\ N \in Int /\ N >= 1
      BY <1>1, <1>2
    <3> QED BY <3>1, FS_Interval
  <2> HIDE DEF g, N
  <2>4. \E x, y \in 1..N : x # y /\ g[x] = g[y]
    BY <2>2, <2>3, <1>2, PathsAssumption, FS_PigeonHole
  <2> QED BY <2>1, <2>4
<1>4. \E i \in Inodes \ {NoFile} : \A n \in PathNames : table[n] # i
  <2>1. \A i \in 1..N : i \in Inodes \ {NoFile}
    BY <1>1 DEF Inodes, NoFile
  <2> HIDE DEF N
  <2> QED BY <1>3, <2>1
<1> QED BY <1>4 DEF Unused

FilesOK(fs) ==
  /\ fs.ino \in [PathNames -> Inodes]
  /\ fs.body \in [Inodes -> BodyKinds]

(***************************************************************************)
(* What write_text leaves alone: any other path keeps its file, and what   *)
(* is in it, unless the path written is another name of it.                *)
(***************************************************************************)
LEMMA WriteTextKeeps ==
  ASSUME MaxWrites > 0, NEW fs, FilesOK(fs), NEW n \in PathNames, NEW kind \in BodyKinds
  PROVE  LET w == WriteText(fs, n, kind)
         IN  /\ FilesOK(w)
             /\ w.ino[n] # NoFile
             /\ fs.ino[n] # NoFile => w.ino[n] = fs.ino[n]
             /\ \A m \in PathNames : m # n => w.ino[m] = fs.ino[m]
             /\ \A m \in PathNames :
                  m # n /\ fs.ino[m] # NoFile /\ fs.ino[m] # fs.ino[n] => w.body[w.ino[m]] = fs.body[fs.ino[m]]
<1> DEFINE w == WriteText(fs, n, kind)
           i == IF fs.ino[n] # NoFile THEN fs.ino[n] ELSE Unused(fs.ino)
<1>1. fs.ino \in [PathNames -> Inodes] /\ fs.body \in [Inodes -> BodyKinds]
  BY DEF FilesOK
<1>2. Unused(fs.ino) \in Inodes \ {NoFile} /\ \A m \in PathNames : fs.ino[m] # Unused(fs.ino)
  BY <1>1, UnusedIs
<1>3. i \in Inodes /\ i # NoFile
  BY <1>1, <1>2
<1>4. w.ino = [fs.ino EXCEPT ![n] = i] /\ w.body = [fs.body EXCEPT ![i] = kind]
  BY DEF WriteText
<1>5. \A m \in PathNames : fs.ino[m] # NoFile /\ fs.ino[m] # fs.ino[n] => fs.ino[m] # i
  BY <1>2
<1>6. fs.ino[n] # NoFile => i = fs.ino[n]
  OBVIOUS
<1> HIDE DEF w, i
<1>7. FilesOK(w)
  BY <1>1, <1>3, <1>4 DEF FilesOK
<1>8. w.ino[n] = i /\ \A m \in PathNames : m # n => w.ino[m] = fs.ino[m]
  BY <1>1, <1>4
<1>9. ASSUME NEW m \in PathNames, m # n, fs.ino[m] # NoFile, fs.ino[m] # fs.ino[n]
      PROVE  w.body[w.ino[m]] = fs.body[fs.ino[m]]
  <2>1. w.ino[m] = fs.ino[m] /\ fs.ino[m] \in Inodes /\ fs.ino[m] # i
    BY <1>1, <1>5, <1>8, <1>9
  <2> QED BY <2>1, <1>1, <1>4
<1> QED BY <1>3, <1>6, <1>7, <1>8, <1>9 DEF w

\* The same of one other path.
LEMMA WriteTextSpares ==
  ASSUME MaxWrites > 0, NEW fs, FilesOK(fs), NEW n \in PathNames, NEW kind \in BodyKinds,
         NEW m \in PathNames, m # n
  PROVE  /\ WriteText(fs, n, kind).ino[m] = fs.ino[m]
         /\ fs.ino[m] # NoFile /\ fs.ino[m] # fs.ino[n] =>
              WriteText(fs, n, kind).body[WriteText(fs, n, kind).ino[m]] = fs.body[fs.ino[m]]
<1> DEFINE w == WriteText(fs, n, kind)
<1>1. /\ \A q \in PathNames : q # n => w.ino[q] = fs.ino[q]
      /\ \A q \in PathNames :
           q # n /\ fs.ino[q] # NoFile /\ fs.ino[q] # fs.ino[n] => w.body[w.ino[q]] = fs.body[fs.ino[q]]
  BY WriteTextKeeps
<1> HIDE DEF w
<1>2. /\ w.ino[m] = fs.ino[m]
      /\ fs.ino[m] # NoFile /\ fs.ino[m] # fs.ino[n] => w.body[w.ino[m]] = fs.body[fs.ino[m]]
  BY <1>1
<1> QED BY <1>2 DEF w

(***************************************************************************)
(* The files as they are.                                                  *)
(***************************************************************************)
OutputsInv ==
  /\ alias \in [PathNames -> PathNames]
  /\ \A n \in PathNames : alias[alias[n]] = alias[n]
  /\ \A n \in InTree : alias[n] = n
  /\ FilesOK(Now)
  /\ steps \in Nat

LEMMA OutputsStart == OutputsInit => OutputsInv
<1> SUFFICES ASSUME OutputsInit PROVE OutputsInv
  OBVIOUS
<1>1. Cardinality(PathNames) \in Nat /\ MaxWrites \in Nat /\ PathNames # {}
  BY PathsAssumption, FS_CardinalityType
<1>2. Cardinality(PathNames) # 0
  BY <1>1, PathsAssumption, FS_EmptySet
<1>3. 0 \in Inodes /\ 1 \in Inodes
  BY <1>1, <1>2 DEF Inodes
<1>4. ino \in [PathNames -> Inodes] /\ body \in [Inodes -> BodyKinds]
  BY <1>3 DEF OutputsInit, NoFile, BodyKinds
<1>5. FilesOK(Now)
  BY <1>4 DEF FilesOK, Now
<1> QED BY <1>5, PathsAssumption DEF OutputsInit, OutputsInv

(* What a command leaves when it writes one output, or two.                 *)
LEMMA ScanLeaves ==
  ASSUME NEW a, NEW b, NEW key \in BOOLEAN, Scan(<<a>>, key) \/ Scan(<<a, b>>, key)
  PROVE  LET fs == IF key THEN Resaved(Now) ELSE Now
             one == WriteText(fs, alias[a], "report")
         IN  \/ UNCHANGED <<ino, body>>
             \/ ~Clash(<<a>>, {}, TRUE, key) /\ Apply(one)
             \/ ~Clash(<<a, b>>, {}, TRUE, key) /\ Apply(WriteText(one, alias[b], "page"))
<1> DEFINE fs == IF key THEN Resaved(Now) ELSE Now
           one == WriteText(fs, alias[a], "report")
           k == <<"report", "page">>
<1>1. Len(<<a>>) = 1 /\ <<a>>[1] = a /\ Len(<<a, b>>) = 2 /\ <<a, b>>[1] = a /\ <<a, b>>[2] = b
  OBVIOUS
<1>2. k[1] = "report" /\ k[2] = "page"
  OBVIOUS
<1>3. Scan(<<a>>, key) => UNCHANGED <<ino, body>> \/ (~Clash(<<a>>, {}, TRUE, key) /\ Apply(Written(fs, <<a>>, k)))
  BY DEF Scan
<1>4. Scan(<<a, b>>, key) =>
        UNCHANGED <<ino, body>> \/ (~Clash(<<a, b>>, {}, TRUE, key) /\ Apply(Written(fs, <<a, b>>, k)))
  BY DEF Scan
<1> HIDE DEF fs, k
<1>5. Written(fs, <<a>>, k) = one
  BY <1>1, <1>2 DEF Written
<1>6. Written(fs, <<a, b>>, k) = WriteText(one, alias[b], "page")
  BY <1>1, <1>2 DEF Written
<1> HIDE DEF one
<1>7. \/ UNCHANGED <<ino, body>>
      \/ ~Clash(<<a>>, {}, TRUE, key) /\ Apply(one)
      \/ ~Clash(<<a, b>>, {}, TRUE, key) /\ Apply(WriteText(one, alias[b], "page"))
  BY <1>3, <1>4, <1>5, <1>6
<1> QED BY <1>7 DEF one, fs

LEMMA ConversionLeaves ==
  ASSUME NEW a, NEW b, Conversion(a, b)
  PROVE  \/ UNCHANGED <<ino, body>>
         \/ ~Clash(<<b>>, {a}, FALSE, FALSE) /\ Apply(WriteText(Now, alias[b], "sarif"))
<1> DEFINE k == <<"sarif">>
<1>1. Len(<<b>>) = 1 /\ <<b>>[1] = b /\ k[1] = "sarif"
  OBVIOUS
<1>2. UNCHANGED <<ino, body>> \/ (~Clash(<<b>>, {a}, FALSE, FALSE) /\ Apply(Written(Now, <<b>>, k)))
  BY DEF Conversion
<1> HIDE DEF k
<1>3. Written(Now, <<b>>, k) = WriteText(Now, alias[b], "sarif")
  BY <1>1 DEF Written
<1> QED BY <1>2, <1>3

LEMMA ClashIs ==
  ASSUME NEW inputs, NEW inTree \in BOOLEAN, NEW key \in BOOLEAN, NEW a \in PathNames, NEW b \in PathNames
  PROVE  /\ ~Clash(<<a>>, inputs, inTree, key) =>
              /\ key => ~GuardsKey(alias[a])
              /\ ~Reads(alias[a], inputs)
              /\ inTree => ~OverwritesSource(alias[a])
         /\ ~Clash(<<a, b>>, inputs, inTree, key) =>
              /\ key => ~GuardsKey(alias[a]) /\ ~GuardsKey(alias[b])
              /\ inTree => ~OverwritesSource(alias[a]) /\ ~OverwritesSource(alias[b])
              /\ alias[a] # alias[b]
<1>1. Len(<<a>>) = 1 /\ <<a>>[1] = a /\ 1 \in 1..1
  OBVIOUS
<1>2. Len(<<a, b>>) = 2 /\ <<a, b>>[1] = a /\ <<a, b>>[2] = b /\ 1 \in 1..2 /\ 2 \in 1..2 /\ 1 \in 1..(2 - 1)
  OBVIOUS
<1>3. ~Clash(<<a>>, inputs, inTree, key) =>
        /\ key => ~GuardsKey(alias[a])
        /\ ~Reads(alias[a], inputs)
        /\ inTree => ~OverwritesSource(alias[a])
  BY <1>1 DEF Clash
<1>4. ~Clash(<<a, b>>, inputs, inTree, key) =>
        /\ key => ~GuardsKey(alias[a]) /\ ~GuardsKey(alias[b])
        /\ inTree => ~OverwritesSource(alias[a]) /\ ~OverwritesSource(alias[b])
        /\ alias[a] # alias[b]
  BY <1>2 DEF Clash
<1> QED BY <1>3, <1>4

\* Signing puts another file in the key's place, and nothing else changes.
LEMMA ResavedKeeps ==
  ASSUME OutputsInv, MaxWrites > 0
  PROVE  LET s == Resaved(Now)
         IN  /\ FilesOK(s)
             /\ s.ino[alias[KeyName]] # NoFile /\ s.body[s.ino[alias[KeyName]]] = "key"
             /\ \A m \in PathNames : m # alias[KeyName] =>
                  /\ s.ino[m] = ino[m] /\ s.ino[m] # s.ino[alias[KeyName]]
                  /\ ino[m] # NoFile => s.body[s.ino[m]] = body[ino[m]]
<1> DEFINE s == Resaved(Now)
           k == alias[KeyName]
           i == Unused(ino)
<1>1. ino \in [PathNames -> Inodes] /\ body \in [Inodes -> BodyKinds] /\ k \in PathNames
  BY PathsAssumption DEF OutputsInv, FilesOK, Now
<1>2. i \in Inodes \ {NoFile} /\ \A m \in PathNames : ino[m] # i
  BY <1>1, UnusedIs
<1>3. s.ino = [ino EXCEPT ![k] = i] /\ s.body = [body EXCEPT ![i] = "key"]
  BY DEF Resaved, Now
<1> HIDE DEF s, k, i
<1>4. FilesOK(s)
  BY <1>1, <1>2, <1>3 DEF FilesOK, BodyKinds
<1>5. s.ino[k] # NoFile /\ s.body[s.ino[k]] = "key"
  BY <1>1, <1>2, <1>3
<1>6. \A m \in PathNames : m # k =>
        /\ s.ino[m] = ino[m] /\ s.ino[m] # s.ino[k]
        /\ ino[m] # NoFile => s.body[s.ino[m]] = body[ino[m]]
  BY <1>1, <1>2, <1>3
<1> QED BY <1>4, <1>5, <1>6 DEF s, k

LEMMA OutputsStep == OutputsInv /\ [OutputsNext]_outVars => OutputsInv'
<1> SUFFICES ASSUME OutputsInv, [OutputsNext]_outVars PROVE OutputsInv'
  OBVIOUS
<1>1. CASE UNCHANGED outVars
  BY <1>1 DEF OutputsInv, outVars, FilesOK, Now
<1>2. CASE OutputsNext
  <2>1. MaxWrites > 0 /\ steps' \in Nat /\ alias' = alias
    <3>1. Command
      BY <1>2 DEF OutputsNext, Scan, Conversion, Create
    <3> QED BY <3>1, PathsAssumption DEF Command, OutputsInv
  <2>2. FilesOK(Now)
    BY DEF OutputsInv
  <2>3. FilesOK(Now)'
    <3>1. ASSUME NEW fs, Apply(fs), FilesOK(fs) PROVE FilesOK(Now)'
      <4>1. Now' = [ino |-> fs.ino, body |-> fs.body]
        BY <3>1 DEF Apply, Now
      <4> QED BY <4>1, <3>1 DEF FilesOK
    <3>2. ASSUME UNCHANGED <<ino, body>> PROVE FilesOK(Now)'
      <4>1. Now' = Now
        BY <3>2 DEF Now
      <4> QED BY <4>1, <2>2
    <3>3. ASSUME NEW a \in PathNames, NEW b \in PathNames, NEW key \in BOOLEAN, Scan(<<a>>, key) \/ Scan(<<a, b>>, key)
          PROVE  FilesOK(Now)'
      <4> DEFINE start == IF key THEN Resaved(Now) ELSE Now
                 one == WriteText(start, alias[a], "report")
                 two == WriteText(one, alias[b], "page")
      <4>1. FilesOK(start)
        BY <2>1, <2>2, ResavedKeeps
      <4>2. alias[a] \in PathNames /\ alias[b] \in PathNames /\ "report" \in BodyKinds /\ "page" \in BodyKinds
        BY DEF OutputsInv, BodyKinds
      <4> HIDE DEF start
      <4>3. FilesOK(one)
        BY <4>1, <4>2, <2>1, WriteTextKeeps
      <4>4. FilesOK(two)
        <5> HIDE DEF one
        <5> QED BY <4>2, <4>3, <2>1, WriteTextKeeps
      <4>5. UNCHANGED <<ino, body>> \/ Apply(one) \/ Apply(two)
        BY <3>3, ScanLeaves DEF start
      <4> HIDE DEF one, two
      <4> QED BY <4>3, <4>4, <4>5, <3>1, <3>2
    <3>4. ASSUME NEW a \in PathNames, NEW b \in PathNames, Conversion(a, b) PROVE FilesOK(Now)'
      <4> DEFINE one == WriteText(Now, alias[b], "sarif")
      <4>1. alias[b] \in PathNames /\ "sarif" \in BodyKinds
        BY DEF OutputsInv, BodyKinds
      <4>2. FilesOK(one)
        BY <4>1, <2>1, <2>2, WriteTextKeeps
      <4>3. UNCHANGED <<ino, body>> \/ Apply(one)
        BY <3>4, ConversionLeaves
      <4> HIDE DEF one
      <4> QED BY <4>2, <4>3, <3>1, <3>2
    <3>5. ASSUME NEW n \in PathNames, Create(n) PROVE FilesOK(Now)'
      <4>1. ino \in [PathNames -> Inodes] /\ body \in [Inodes -> BodyKinds]
        BY <2>2 DEF FilesOK, Now
      <4>2. Unused(ino) \in Inodes
        BY <4>1, <2>1, UnusedIs
      <4>3. ino' \in [PathNames -> Inodes] /\ body' \in [Inodes -> BodyKinds]
        BY <3>5, <4>1, <4>2 DEF Create
      <4> QED BY <4>3 DEF FilesOK, Now
    <3> QED BY <1>2, <3>3, <3>4, <3>5 DEF OutputsNext
  <2> QED BY <2>1, <2>3 DEF OutputsInv
<1> QED BY <1>1, <1>2

-----------------------------------------------------------------------------
LEMMA InputIsKept == OutputsInv /\ Command => KeepsInput
<1> SUFFICES ASSUME OutputsInv, NEW a \in PathNames, NEW b \in PathNames, Conversion(a, b)
             PROVE  Holds(a)' = Holds(a)
  BY DEF KeepsInput
<1> DEFINE m == alias[a]
           n == alias[b]
           k == "sarif"
           w == WriteText(Now, n, k)
<1>1. m \in PathNames /\ n \in PathNames /\ k \in BodyKinds /\ FilesOK(Now) /\ Now.ino = ino /\ Now.body = body
  BY DEF OutputsInv, BodyKinds, Now
<1>2. alias' = alias /\ MaxWrites > 0 /\ ino[m] # NoFile
  BY PathsAssumption DEF Conversion, Command, OutputsInv, Exists
<1>3. CASE UNCHANGED <<ino, body>>
  BY <1>2, <1>3 DEF Holds, Exists
<1>4. CASE ~Clash(<<b>>, {a}, FALSE, FALSE) /\ Apply(w)
  <2>1. ~Reads(n, {a})
    BY <1>4, ClashIs
  <2>2. m # n /\ ino[m] # ino[n]
    BY <2>1, <1>2 DEF Reads, SameFile, Exists
  <2>3. ino' = w.ino /\ body' = w.body
    BY <1>4 DEF Apply
  <2> HIDE DEF m, n, k
  <2>4. w.ino[m] = ino[m] /\ w.body[w.ino[m]] = body[ino[m]]
    BY <1>1, <1>2, <2>2, WriteTextSpares
  <2> QED BY <1>2, <2>3, <2>4 DEF Holds, Exists, m
<1>5. UNCHANGED <<ino, body>> \/ (~Clash(<<b>>, {a}, FALSE, FALSE) /\ Apply(w))
  BY ConversionLeaves
<1> QED BY <1>3, <1>4, <1>5

(* A scan that writes: each output spares any file that is neither its own  *)
(* target nor, by another name, the one under it.                           *)
LEMMA ScanSpares ==
  ASSUME MaxWrites > 0, NEW fs, FilesOK(fs), NEW x \in PathNames, NEW y \in PathNames, x # y,
         NEW m \in PathNames, m # x, m # y, fs.ino[m] # NoFile, fs.ino[m] # fs.ino[x], fs.ino[m] # fs.ino[y],
         NEW j \in BodyKinds, NEW k \in BodyKinds
  PROVE  LET one == WriteText(fs, x, j)
             two == WriteText(one, y, k)
         IN  /\ one.ino[m] = fs.ino[m] /\ one.body[one.ino[m]] = fs.body[fs.ino[m]]
             /\ two.ino[m] = fs.ino[m] /\ two.body[two.ino[m]] = fs.body[fs.ino[m]]
<1> DEFINE one == WriteText(fs, x, j)
           two == WriteText(one, y, k)
<1>1. /\ FilesOK(one) /\ one.ino[m] = fs.ino[m] /\ one.ino[y] = fs.ino[y]
      /\ one.body[one.ino[m]] = fs.body[fs.ino[m]]
  <2>1. FilesOK(one)
    BY WriteTextKeeps
  <2>2. one.ino[m] = fs.ino[m] /\ one.body[one.ino[m]] = fs.body[fs.ino[m]]
    BY WriteTextSpares
  <2>3. one.ino[y] = fs.ino[y]
    BY WriteTextSpares
  <2> QED BY <2>1, <2>2, <2>3
<1> HIDE DEF one
<1>2. one.ino[m] # NoFile /\ one.ino[m] # one.ino[y]
  BY <1>1
<1>3. two.ino[m] = one.ino[m] /\ two.body[two.ino[m]] = one.body[one.ino[m]]
  BY <1>1, <1>2, WriteTextSpares
<1> QED BY <1>1, <1>3 DEF one

LEMMA ScanIs ==
  ASSUME OutputsInv, NEW a \in PathNames, NEW b \in PathNames, NEW key \in BOOLEAN,
         Scan(<<a>>, key) \/ Scan(<<a, b>>, key),
         NEW m \in PathNames, ino[m] # NoFile,
         ~(m = alias[KeyName] /\ key) => body[ino[m]] \notin {"report", "page"},
         m # alias[KeyName] \/ ~key => m \in InTree
  PROVE  /\ alias' = alias
         /\ ino'[m] # NoFile
         /\ body'[ino'[m]] = body[ino[m]]
<1> DEFINE x == alias[a]
           y == alias[b]
           kk == alias[KeyName]
           fs == IF key THEN Resaved(Now) ELSE Now
           one == WriteText(fs, x, "report")
           two == WriteText(one, y, "page")
<1>1. /\ x \in PathNames /\ y \in PathNames /\ kk \in PathNames /\ "report" \in BodyKinds /\ "page" \in BodyKinds
      /\ FilesOK(Now) /\ Now.ino = ino /\ Now.body = body
  BY PathsAssumption DEF OutputsInv, BodyKinds, Now
<1>2. /\ alias' = alias /\ MaxWrites > 0
      /\ key => body[ino[kk]] = "key"
  <2>1. Command /\ (key => body[ino[kk]] = "key")
    BY DEF Scan
  <2> QED BY <2>1, PathsAssumption DEF Command, OutputsInv
<1>3. /\ FilesOK(fs) /\ fs.ino[m] # NoFile /\ fs.body[fs.ino[m]] = body[ino[m]]
      /\ \A n \in PathNames : n # kk \/ ~key => fs.ino[n] = ino[n]
      /\ key => \A n \in PathNames : n # kk => fs.ino[n] # fs.ino[kk]
  <2>1. CASE key
    <3> DEFINE s == Resaved(Now)
    <3>1. /\ FilesOK(s)
          /\ s.ino[kk] # NoFile /\ s.body[s.ino[kk]] = "key"
          /\ \A n \in PathNames : n # kk =>
               /\ s.ino[n] = ino[n] /\ s.ino[n] # s.ino[kk]
               /\ ino[n] # NoFile => s.body[s.ino[n]] = body[ino[n]]
      BY <1>2, ResavedKeeps
    <3>2. fs = s
      BY <2>1
    <3> HIDE DEF s, fs, kk
    <3>3. CASE m = kk
      BY <2>1, <3>1, <3>2, <3>3, <1>2
    <3>4. CASE m # kk
      BY <2>1, <3>1, <3>2, <3>4, <1>2
    <3> QED BY <3>3, <3>4
  <2>2. CASE ~key
    <3>1. fs = Now
      BY <2>2
    <3> HIDE DEF fs
    <3> QED BY <3>1, <2>2, <1>1
  <2> QED BY <2>1, <2>2
<1>4. \/ UNCHANGED <<ino, body>>
      \/ ~Clash(<<a>>, {}, TRUE, key) /\ Apply(one)
      \/ ~Clash(<<a, b>>, {}, TRUE, key) /\ Apply(two)
  BY ScanLeaves
\* A path a scan may write is not m's, nor a link to it.
<1>5. ASSUME NEW n \in PathNames, key => n # kk, ~OverwritesSource(n)
      PROVE  m # n /\ fs.ino[m] # fs.ino[n]
  <2> HIDE DEF fs, kk
  <2>1. fs.ino[n] = ino[n]
    BY <1>3, <1>5
  <2>2. CASE m = kk /\ key
    BY <2>2, <1>3, <1>5
  <2>3. CASE ~(m = kk /\ key)
    <3>1. m \in InTree /\ fs.ino[m] = ino[m] /\ body[ino[m]] \notin {"report", "page"}
      BY <2>3, <1>3 DEF kk
    <3>2. ASSUME ino[m] = ino[n] PROVE FALSE
      <4>1. Exists(n) /\ ~OwnOutput(n) /\ LinkedIntoTree(n)
        BY <3>1, <3>2 DEF Exists, OwnOutput, LinkedIntoTree, SameFile
      <4> QED BY <4>1, <1>5 DEF OverwritesSource
    <3> QED BY <2>1, <3>1, <3>2
  <2> QED BY <2>2, <2>3
<1>6. CASE UNCHANGED <<ino, body>>
  BY <1>2, <1>6
<1>7. CASE ~Clash(<<a>>, {}, TRUE, key) /\ Apply(one)
  <2>1. (key => x # kk) /\ ~OverwritesSource(x)
    BY <1>7, ClashIs DEF GuardsKey
  <2>2. m # x /\ fs.ino[m] # fs.ino[x]
    BY <2>1, <1>1, <1>5
  <2>3. ino' = one.ino /\ body' = one.body
    BY <1>7 DEF Apply
  <2> HIDE DEF fs, x
  <2>4. one.ino[m] = fs.ino[m] /\ one.body[one.ino[m]] = fs.body[fs.ino[m]]
    BY <1>1, <1>2, <1>3, <2>2, WriteTextSpares
  <2> QED BY <1>2, <1>3, <2>3, <2>4
<1>8. CASE ~Clash(<<a, b>>, {}, TRUE, key) /\ Apply(two)
  <2>1. (key => x # kk /\ y # kk) /\ ~OverwritesSource(x) /\ ~OverwritesSource(y) /\ x # y
    BY <1>8, ClashIs DEF GuardsKey
  <2>2. m # x /\ fs.ino[m] # fs.ino[x] /\ m # y /\ fs.ino[m] # fs.ino[y]
    BY <2>1, <1>1, <1>5
  <2>3. ino' = two.ino /\ body' = two.body
    BY <1>8 DEF Apply
  <2> HIDE DEF fs, x, y
  <2>4. two.ino[m] = fs.ino[m] /\ two.body[two.ino[m]] = fs.body[fs.ino[m]]
    BY <1>1, <1>2, <1>3, <2>1, <2>2, ScanSpares
  <2> QED BY <1>2, <1>3, <2>3, <2>4
<1> QED BY <1>4, <1>6, <1>7, <1>8

LEMMA SourceIsKept == OutputsInv /\ Command => KeepsSource
<1> SUFFICES ASSUME OutputsInv, NEW a \in PathNames, NEW b \in PathNames, NEW key \in BOOLEAN,
                    Scan(<<a>>, key) \/ Scan(<<a, b>>, key),
                    NEW n \in InTree, Holds(n) \notin {"report", "page", "nothing"}
             PROVE  Holds(n)' = Holds(n)
  BY DEF KeepsSource, Scans
<1>1. n \in PathNames /\ alias[n] = n
  BY PathsAssumption DEF OutputsInv
<1>2. ino[n] # NoFile /\ Holds(n) = body[ino[n]]
  BY <1>1 DEF Holds, Exists
<1>3. alias' = alias /\ ino'[n] # NoFile /\ body'[ino'[n]] = body[ino[n]]
  BY <1>1, <1>2, ScanIs
<1>4. Holds(n)' = body'[ino'[n]]
  BY <1>1, <1>3 DEF Holds, Exists
<1> QED BY <1>2, <1>3, <1>4

LEMMA KeyIsKept == OutputsInv /\ Command => KeepsKey
<1> SUFFICES ASSUME OutputsInv, NEW a \in PathNames, NEW b \in PathNames,
                    Scan(<<a>>, TRUE) \/ Scan(<<a, b>>, TRUE)
             PROVE  Holds(KeyName)' = "key"
  BY DEF KeepsKey
<1>1. alias[KeyName] \in PathNames
  BY PathsAssumption DEF OutputsInv
<1>2. ino[alias[KeyName]] # NoFile /\ body[ino[alias[KeyName]]] = "key"
  BY DEF Scan, Exists
<1>3. /\ alias' = alias /\ ino'[alias[KeyName]] # NoFile
      /\ body'[ino'[alias[KeyName]]] = body[ino[alias[KeyName]]]
  BY <1>1, <1>2, ScanIs
<1> QED BY <1>2, <1>3 DEF Holds, Exists

(***************************************************************************)
(* However the files of a tree are linked to one another, and whatever is  *)
(* named as an output, a command leaves the report it reads, the sources   *)
(* of the tree and the key it signs with as they were.                     *)
(***************************************************************************)
THEOREM NothingReadIsEverLost == OutputsSpec => NothingReadIsLost
<1>1. OutputsInv => [Command => KeepsInput /\ KeepsSource /\ KeepsKey]_outVars
  BY InputIsKept, SourceIsKept, KeyIsKept
<1> QED BY <1>1, OutputsStart, OutputsStep, PTL DEF OutputsSpec, NothingReadIsLost

-----------------------------------------------------------------------------
(***************************************************************************)
(* Module Signatures: the recursive definitions, by their equations.       *)
(***************************************************************************)
QuotientDom(p) == Nat
QuotientRank(i) == i
QuotientBody(p, f, i) == IF i = 0 THEN p[1] ELSE f[i - 1] \div p[2]
QuotientR == INSTANCE Recursion WITH Dom <- QuotientDom, Rank <- QuotientRank, Body <- QuotientBody

SumDom(p) == 0..p[1].digits
SumBody(p, f, i) == IF i = 0 THEN 0 ELSE f[i - 1] + (LastStep(p[1]) - p[2][i])
SumR == INSTANCE Recursion WITH Dom <- SumDom, Rank <- QuotientRank, Body <- SumBody

UpBody(p, f, i) == IF i = 0 THEN p[4] ELSE ClimbTo(p[1], p[2], NumbersUp(p[1], p[3])[i - 1], f[i - 1], p[5][i])
UpR == INSTANCE Recursion WITH Dom <- QuotientDom, Rank <- QuotientRank, Body <- UpBody

LEMMA QuotientSteps ==
  ASSUME NEW n, NEW base
  PROVE  /\ Quotients(n, base)[0] = n
         /\ \A i \in Nat : Quotients(n, base)[i + 1] = Quotients(n, base)[i] \div base
<1> DEFINE p == <<n, base>>
<1>1. QuotientR!Local(p)
  <2>1. ASSUME NEW x \in Nat, NEW g, NEW h, \A y \in Nat : y < x => g[y] = h[y]
        PROVE  QuotientBody(p, g, x) = QuotientBody(p, h, x)
    <3>1. CASE x = 0
      BY <3>1 DEF QuotientBody
    <3>2. CASE x # 0
      <4>1. x - 1 \in Nat /\ x - 1 < x
        BY <3>2
      <4>2. g[x - 1] = h[x - 1]
        BY <4>1, <2>1
      <4> QED BY <3>2, <4>2 DEF QuotientBody
    <3> QED BY <3>1, <3>2
  <2>2. \A x \in Nat : QuotientRank(x) \in Nat
    BY DEF QuotientRank
  <2> QED BY <2>1, <2>2 DEF QuotientR!Local, QuotientDom, QuotientRank
<1>2. \E f : f = [i \in Nat |-> QuotientBody(p, f, i)]
  BY <1>1, QuotientR!Recursive DEF QuotientDom
<1>3. \A f, i : QuotientBody(p, f, i) = IF i = 0 THEN n ELSE f[i - 1] \div base
  BY DEF QuotientBody
<1>4. \E f : f = [i \in Nat |-> IF i = 0 THEN n ELSE f[i - 1] \div base]
  BY <1>2, <1>3
<1> DEFINE q == Quotients(n, base)
<1>5. q = [i \in Nat |-> IF i = 0 THEN n ELSE q[i - 1] \div base]
  BY <1>4 DEF Quotients
<1> HIDE DEF q
<1>6. q[0] = n
  BY <1>5
<1>7. ASSUME NEW i \in Nat PROVE q[i + 1] = q[i] \div base
  <2>1. i + 1 \in Nat /\ i + 1 # 0 /\ (i + 1) - 1 = i
    OBVIOUS
  <2>2. q[i + 1] = q[(i + 1) - 1] \div base
    BY <1>5, <2>1
  <2> QED BY <2>1, <2>2
<1> QED BY <1>6, <1>7 DEF q

LEMMA SumSteps ==
  ASSUME NEW s, s.digits \in Nat, NEW d
  PROVE  /\ SumTo(s, d)[0] = 0
         /\ \A i \in Nat : i < s.digits => SumTo(s, d)[i + 1] = SumTo(s, d)[i] + (LastStep(s) - d[i + 1])
<1> DEFINE p == <<s, d>>
           D == 0..s.digits
<1>1. SumR!Local(p)
  <2>1. ASSUME NEW x \in D, NEW g, NEW h, \A y \in D : y < x => g[y] = h[y]
        PROVE  SumBody(p, g, x) = SumBody(p, h, x)
    <3>1. CASE x = 0
      BY <3>1 DEF SumBody
    <3>2. CASE x # 0
      <4>1. x - 1 \in D /\ x - 1 < x
        BY <3>2
      <4>2. g[x - 1] = h[x - 1]
        BY <4>1, <2>1
      <4> QED BY <3>2, <4>2 DEF SumBody
    <3> QED BY <3>1, <3>2
  <2>2. \A x \in D : QuotientRank(x) \in Nat
    BY DEF QuotientRank
  <2> QED BY <2>1, <2>2 DEF SumR!Local, SumDom, QuotientRank
<1>2. \E f : f = [i \in D |-> SumBody(p, f, i)]
  BY <1>1, SumR!Recursive DEF SumDom
<1>3. \A f, i : SumBody(p, f, i) = IF i = 0 THEN 0 ELSE f[i - 1] + (LastStep(s) - d[i])
  BY DEF SumBody
<1>4. \E f : f = [i \in D |-> IF i = 0 THEN 0 ELSE f[i - 1] + (LastStep(s) - d[i])]
  BY <1>2, <1>3
<1> DEFINE q == SumTo(s, d)
<1>5. q = [i \in D |-> IF i = 0 THEN 0 ELSE q[i - 1] + (LastStep(s) - d[i])]
  BY <1>4 DEF SumTo
<1> HIDE DEF q
<1>6. q[0] = 0
  BY <1>5
<1>7. ASSUME NEW i \in Nat, i < s.digits PROVE q[i + 1] = q[i] + (LastStep(s) - d[i + 1])
  <2>1. i + 1 \in D /\ i + 1 # 0 /\ (i + 1) - 1 = i
    BY <1>7
  <2>2. q[i + 1] = q[(i + 1) - 1] + (LastStep(s) - d[i + 1])
    BY <1>5, <2>1
  <2> QED BY <2>1, <2>2
<1> QED BY <1>6, <1>7 DEF q

LEMMA UpSteps ==
  ASSUME NEW s, NEW k, NEW q, NEW first, NEW path
  PROVE  /\ HashesUp(s, k, q, first, path)[0] = first
         /\ \A i \in Nat : HashesUp(s, k, q, first, path)[i + 1] =
              ClimbTo(s, k, NumbersUp(s, q)[i], HashesUp(s, k, q, first, path)[i], path[i + 1])
<1> DEFINE p == <<s, k, q, first, path>>
<1>1. UpR!Local(p)
  <2>1. ASSUME NEW x \in Nat, NEW g, NEW h, \A y \in Nat : y < x => g[y] = h[y]
        PROVE  UpBody(p, g, x) = UpBody(p, h, x)
    <3>1. CASE x = 0
      BY <3>1 DEF UpBody
    <3>2. CASE x # 0
      <4>1. x - 1 \in Nat /\ x - 1 < x
        BY <3>2
      <4>2. g[x - 1] = h[x - 1]
        BY <4>1, <2>1
      <4> QED BY <3>2, <4>2 DEF UpBody
    <3> QED BY <3>1, <3>2
  <2>2. \A x \in Nat : QuotientRank(x) \in Nat
    BY DEF QuotientRank
  <2> QED BY <2>1, <2>2 DEF UpR!Local, QuotientDom, QuotientRank
<1>2. \E f : f = [i \in Nat |-> UpBody(p, f, i)]
  BY <1>1, UpR!Recursive DEF QuotientDom
<1>3. \A f, i : UpBody(p, f, i) = IF i = 0 THEN first ELSE ClimbTo(s, k, NumbersUp(s, q)[i - 1], f[i - 1], path[i])
  BY DEF UpBody
<1>4. \E f : f = [i \in Nat |-> IF i = 0 THEN first ELSE ClimbTo(s, k, NumbersUp(s, q)[i - 1], f[i - 1], path[i])]
  BY <1>2, <1>3
<1> DEFINE u == HashesUp(s, k, q, first, path)
<1>5. u = [i \in Nat |-> IF i = 0 THEN first ELSE ClimbTo(s, k, NumbersUp(s, q)[i - 1], u[i - 1], path[i])]
  BY <1>4 DEF HashesUp
<1> HIDE DEF u
<1>6. u[0] = first
  BY <1>5
<1>7. ASSUME NEW i \in Nat PROVE u[i + 1] = ClimbTo(s, k, NumbersUp(s, q)[i], u[i], path[i + 1])
  <2>1. i + 1 \in Nat /\ i + 1 # 0 /\ (i + 1) - 1 = i
    OBVIOUS
  <2>2. u[i + 1] = ClimbTo(s, k, NumbersUp(s, q)[(i + 1) - 1], u[(i + 1) - 1], path[i + 1])
    BY <1>5, <2>1
  <2> QED BY <2>1, <2>2
<1> QED BY <1>6, <1>7 DEF u

(***************************************************************************)
(* Numbers by their digits: no digit greater, no number greater.           *)
(***************************************************************************)
LEMMA DivisionIs ==
  ASSUME NEW n \in Nat, NEW w \in Nat, 0 < w
  PROVE  /\ n \div w \in Nat /\ n % w \in Nat /\ n % w < w
         /\ n = (n \div w) * w + (n % w)
<1>1. \A q, r \in Int : q = n \div w /\ r = n % w => n = w * q + r
  OBVIOUS
<1>2. n \div w \in Nat /\ n % w \in Nat /\ n % w < w
  OBVIOUS
<1>3. PICK q \in Nat, r \in Nat : q = n \div w /\ r = n % w
  BY <1>2
<1>4. q * w = w * q
  OBVIOUS
<1>5. n = q * w + r
  BY <1>1, <1>3, <1>4
<1> QED BY <1>2, <1>3, <1>5, Zenon

LEMMA QuotientNat ==
  ASSUME NEW n \in Nat, NEW base \in Nat, base > 0
  PROVE  \A i \in Nat : Quotients(n, base)[i] \in Nat
<1> DEFINE q == Quotients(n, base)
           S == {i \in Nat : q[i] \in Nat}
<1>1. q[0] = n /\ \A i \in Nat : q[i + 1] = q[i] \div base
  BY QuotientSteps
<1> HIDE DEF q
<1>2. 0 \in S
  BY <1>1
<1>3. ASSUME NEW i \in Nat, i \in S PROVE i + 1 \in S
  <2>1. q[i] \in Nat
    BY <1>3
  <2>2. q[i] \div base \in Nat
    BY <2>1, DivisionIs
  <2> QED BY <1>1, <2>2
<1>4. Nat \subseteq S
  <2> HIDE DEF S
  <2> QED BY <1>2, <1>3, PowR!SetInduction
<1> QED BY <1>4 DEF q

\* One digit more: what both halves of a number say of it.
LEMMA DigitMore ==
  ASSUME NEW x \in Nat, NEW y \in Nat, NEW w \in Nat, 0 < w, x \div w <= y \div w, x % w <= y % w
  PROVE  x <= y
<1> DEFINE a == x \div w
           b == y \div w
           c == x % w
           e == y % w
<1>1. a \in Nat /\ b \in Nat /\ c \in Nat /\ e \in Nat /\ x = a * w + c /\ y = b * w + e /\ a <= b /\ c <= e
  BY DivisionIs
<1> HIDE DEF a, b, c, e
<1>2. a * w \in Nat /\ b * w \in Nat
  BY <1>1
<1>3. a * w <= b * w
  <2>1. PICK m \in Nat : b = a + m
    <3>1. b - a \in Nat /\ b = a + (b - a)
      BY <1>1
    <3> QED BY <3>1
  <2>2. b * w = a * w + m * w /\ m * w \in Nat
    BY <1>1, <2>1
  <2> QED BY <1>2, <2>2
<1> QED BY <1>1, <1>2, <1>3

LEMMA DigitsOrder ==
  ASSUME NEW x \in Nat, NEW y \in Nat, NEW base \in Nat, base > 0, NEW n \in Nat,
         Quotients(x, base)[n] = 0, Quotients(y, base)[n] = 0,
         \A i \in 0..(n - 1) : Quotients(x, base)[i] % base <= Quotients(y, base)[i] % base
  PROVE  x <= y
<1> DEFINE a == Quotients(x, base)
           b == Quotients(y, base)
           S == {j \in Nat : j <= n => a[n - j] <= b[n - j]}
<1>1. /\ a[0] = x /\ b[0] = y /\ \A i \in Nat : a[i] \in Nat /\ b[i] \in Nat
      /\ \A i \in Nat : a[i + 1] = a[i] \div base /\ b[i + 1] = b[i] \div base
  BY QuotientSteps, QuotientNat
<1>2. a[n] = 0 /\ b[n] = 0 /\ \A i \in 0..(n - 1) : a[i] % base <= b[i] % base
  OBVIOUS
<1> HIDE DEF a, b
<1>3. 0 \in S
  BY <1>2
<1>4. ASSUME NEW j \in Nat, j \in S PROVE j + 1 \in S
  <2> SUFFICES ASSUME j + 1 <= n PROVE a[n - (j + 1)] <= b[n - (j + 1)]
    OBVIOUS
  <2> DEFINE i == n - (j + 1)
  <2>1. i \in Nat /\ i + 1 = n - j /\ i \in 0..(n - 1) /\ a[n - j] <= b[n - j]
    BY <1>4
  <2> HIDE DEF i
  <2>2. a[i] \in Nat /\ b[i] \in Nat /\ a[i] \div base <= b[i] \div base /\ a[i] % base <= b[i] % base
    BY <1>1, <1>2, <2>1
  <2>3. a[i] <= b[i]
    BY <2>2, DigitMore
  <2> QED BY <2>3 DEF i
<1>5. Nat \subseteq S
  <2> HIDE DEF S
  <2> QED BY <1>3, <1>4, PowR!SetInduction
<1>6. n \in S
  BY <1>5
<1>7. n - n = 0
  OBVIOUS
<1> QED BY <1>1, <1>6, <1>7

-----------------------------------------------------------------------------
(***************************************************************************)
(* A digest whose chains are all shown no later than another's is that     *)
(* digest: what one digit gains the checksum loses.                        *)
(***************************************************************************)
LEMMA SchemeIs ==
  ASSUME NEW s \in Schemes
  PROVE  /\ s.lamport \in BOOLEAN /\ s.base \in Nat /\ s.digits \in Nat /\ s.sums \in Nat /\ s.height \in Nat
         /\ s.base > 1 /\ s.digits > 0 /\ s.height > 0
         /\ s.lamport => s.base = 2
         /\ Top \in s.keys /\ s.keys \cap Tags = {}
         /\ s.signable \subseteq DigestsOf(s) /\ s.digest \in [s.keys -> DigestsOf(s)]
         /\ \A d \in DigestsOf(s) : Quotients(SumTo(s, d)[s.digits], s.base)[s.sums] = 0
BY SchemeAssumption

LEMMA SameDigits ==
  ASSUME NEW s, NEW d \in DigestsOf(s), NEW e \in DigestsOf(s), \A i \in 1..s.digits : d[i] = e[i]
  PROVE  d = e
<1> DEFINE n == 1..s.digits
           v == 0..(s.base - 1)
<1>1. d \in [n -> v] /\ e \in [n -> v] /\ \A i \in n : d[i] = e[i]
  BY DEF DigestsOf
<1> HIDE DEF n, v
<1> QED BY <1>1

LEMMA DigitIs ==
  ASSUME NEW s \in Schemes, NEW d \in DigestsOf(s), NEW i \in 1..s.digits
  PROVE  d[i] \in Nat /\ d[i] <= LastStep(s) /\ LastStep(s) \in Nat
<1>1. s.base \in Nat /\ s.base > 1
  BY SchemeIs
<1>2. d[i] \in 0..(s.base - 1)
  BY DEF DigestsOf
<1> QED BY <1>1, <1>2 DEF LastStep

LEMMA SumIs ==
  ASSUME NEW s \in Schemes, NEW d \in DigestsOf(s)
  PROVE  \A i \in 0..s.digits : SumTo(s, d)[i] \in Nat
<1> DEFINE t == SumTo(s, d)
           n == s.digits
           S == {i \in Nat : i <= n => t[i] \in Nat}
<1>1. n \in Nat
  BY SchemeIs
<1>2. t[0] = 0 /\ \A i \in Nat : i < n => t[i + 1] = t[i] + (LastStep(s) - d[i + 1])
  BY <1>1, SumSteps
<1>3. \A i \in 1..n : d[i] \in Nat /\ d[i] <= LastStep(s) /\ LastStep(s) \in Nat
  BY DigitIs
<1> HIDE DEF t, n
<1>4. 0 \in S
  BY <1>2
<1>5. ASSUME NEW i \in Nat, i \in S PROVE i + 1 \in S
  <2> SUFFICES ASSUME i + 1 <= n PROVE t[i + 1] \in Nat
    OBVIOUS
  <2>1. t[i] \in Nat /\ i < n /\ i + 1 \in 1..n
    BY <1>1, <1>5
  <2>2. d[i + 1] \in Nat /\ d[i + 1] <= LastStep(s) /\ LastStep(s) \in Nat
    BY <1>3, <2>1
  <2>3. LastStep(s) - d[i + 1] \in Nat
    BY <2>2
  <2> QED BY <1>2, <2>1, <2>3
<1>6. Nat \subseteq S
  <2> HIDE DEF S
  <2> QED BY <1>4, <1>5, PowR!SetInduction
<1> QED BY <1>1, <1>6 DEF t, n

LEMMA SumsMeet ==
  ASSUME NEW s \in Schemes, NEW d \in DigestsOf(s), NEW e \in DigestsOf(s),
         \A i \in 1..s.digits : d[i] <= e[i],
         SumTo(s, d)[s.digits] <= SumTo(s, e)[s.digits]
  PROVE  d = e
<1> DEFINE t == SumTo(s, d)
           u == SumTo(s, e)
           n == s.digits
           S == {i \in Nat : i <= n => u[i] <= t[i] /\ (t[i] <= u[i] => \A j \in 1..i : d[j] = e[j])}
<1>1. n \in Nat
  BY SchemeIs
<1>2. /\ t[0] = 0 /\ \A i \in Nat : i < n => t[i + 1] = t[i] + (LastStep(s) - d[i + 1])
      /\ u[0] = 0 /\ \A i \in Nat : i < n => u[i + 1] = u[i] + (LastStep(s) - e[i + 1])
  BY <1>1, SumSteps
<1>3. /\ \A i \in 1..n : d[i] \in Nat /\ e[i] \in Nat /\ LastStep(s) \in Nat /\ d[i] <= e[i]
      /\ \A i \in 0..n : t[i] \in Nat /\ u[i] \in Nat
  BY DigitIs, SumIs
<1>4. t[n] <= u[n]
  OBVIOUS
<1> HIDE DEF t, u, n
<1>5. 0 \in S
  BY <1>2
<1>6. ASSUME NEW i \in Nat, i \in S PROVE i + 1 \in S
  <2> SUFFICES ASSUME i + 1 <= n
               PROVE  u[i + 1] <= t[i + 1] /\ (t[i + 1] <= u[i + 1] => \A j \in 1..(i + 1) : d[j] = e[j])
    OBVIOUS
  <2>1. u[i] <= t[i] /\ (t[i] <= u[i] => \A j \in 1..i : d[j] = e[j]) /\ i < n /\ i + 1 \in 1..n /\ i \in 0..n
    BY <1>1, <1>6
  <2> DEFINE a == d[i + 1]
             b == e[i + 1]
  <2>2. a \in Nat /\ b \in Nat /\ LastStep(s) \in Nat /\ a <= b /\ t[i] \in Nat /\ u[i] \in Nat
    BY <1>3, <2>1
  <2>3. t[i + 1] = t[i] + (LastStep(s) - a) /\ u[i + 1] = u[i] + (LastStep(s) - b)
    BY <1>2, <2>1
  <2> HIDE DEF a, b
  <2>4. u[i + 1] <= t[i + 1] /\ (t[i + 1] <= u[i + 1] => t[i] <= u[i] /\ a = b)
    BY <2>1, <2>2, <2>3
  <2>5. \A j \in 1..(i + 1) : j \in 1..i \/ j = i + 1
    OBVIOUS
  <2> QED BY <2>1, <2>4, <2>5 DEF a, b
<1>7. Nat \subseteq S
  <2> HIDE DEF S
  <2> QED BY <1>5, <1>6, PowR!SetInduction
<1>8. \A j \in 1..n : d[j] = e[j]
  BY <1>1, <1>4, <1>7
<1> QED BY <1>8, SameDigits DEF n

LEMMA CksmOrder ==
  ASSUME NEW s \in Schemes, NEW d \in DigestsOf(s), NEW e \in DigestsOf(s),
         \A j \in 1..s.sums : Cksm(s, d, j) <= Cksm(s, e, j)
  PROVE  SumTo(s, d)[s.digits] <= SumTo(s, e)[s.digits]
<1> DEFINE x == SumTo(s, d)[s.digits]
           y == SumTo(s, e)[s.digits]
           b == s.base
           n == s.sums
<1>1. b \in Nat /\ b > 0 /\ n \in Nat /\ s.digits \in Nat
  BY SchemeIs
<1>2. x \in Nat /\ y \in Nat
  BY <1>1, SumIs
<1>3. Quotients(x, b)[n] = 0 /\ Quotients(y, b)[n] = 0
  BY SchemeIs
<1>4. \A j \in 1..n : Quotients(x, b)[n - j] % b <= Quotients(y, b)[n - j] % b
  BY DEF Cksm
<1> HIDE DEF x, y, b, n
<1>5. ASSUME NEW i \in 0..(n - 1) PROVE Quotients(x, b)[i] % b <= Quotients(y, b)[i] % b
  <2>1. n - i \in 1..n /\ n - (n - i) = i
    BY <1>1
  <2>2. Quotients(x, b)[n - (n - i)] % b <= Quotients(y, b)[n - (n - i)] % b
    BY <1>4, <2>1
  <2> QED BY <2>1, <2>2
<1>6. x <= y
  BY <1>1, <1>2, <1>3, <1>5, DigitsOrder
<1> QED BY <1>6 DEF x, y

LEMMA StepsAreNat ==
  ASSUME NEW s \in Schemes, NEW d \in DigestsOf(s), NEW i \in Row(s)
  PROVE  StepsOf(s, d)[i] \in Nat
<1>1. CASE s.lamport
  BY <1>1 DEF StepsOf
<1>2. CASE ~s.lamport /\ i <= s.digits
  <2>1. i \in 1..s.digits
    BY <1>2, SchemeIs DEF Row
  <2>2. StepsOf(s, d)[i] = d[i]
    BY <1>2 DEF StepsOf
  <2> QED BY <2>1, <2>2, DigitIs
<1>3. CASE ~s.lamport /\ ~(i <= s.digits)
  <2> DEFINE j == i - s.digits
             x == SumTo(s, d)[s.digits]
  <2>1. s.digits \in Nat /\ s.sums \in Nat /\ s.base \in Nat /\ s.base > 0
    BY SchemeIs
  <2>2. j \in 1..s.sums /\ x \in Nat /\ s.sums - j \in Nat
    BY <1>3, <2>1, SumIs DEF Row
  <2>3. StepsOf(s, d)[i] = Quotients(x, s.base)[s.sums - j] % s.base
    BY <1>3 DEF StepsOf, Cksm
  <2> HIDE DEF j, x
  <2>4. Quotients(x, s.base)[s.sums - j] \in Nat
    BY <2>1, <2>2, QuotientNat
  <2>5. Quotients(x, s.base)[s.sums - j] % s.base \in Nat
    BY <2>1, <2>4, DivisionIs
  <2> QED BY <2>3, <2>5
<1> QED BY <1>1, <1>2, <1>3

LEMMA ShownNoLater ==
  ASSUME NEW s \in Schemes, NEW d \in DigestsOf(s), NEW e \in DigestsOf(s),
         \A i \in Row(s) : StepsOf(s, d)[i] <= StepsOf(s, e)[i]
  PROVE  d = e
<1>1. s.digits \in Nat /\ s.sums \in Nat
  BY SchemeIs
<1>2. CASE s.lamport
  <2>1. s.base = 2
    BY <1>2, SchemeIs
  <2>2. d \in [1..s.digits -> 0..1] /\ e \in [1..s.digits -> 0..1]
    BY <2>1 DEF DigestsOf
  <2>3. ASSUME NEW j \in 1..s.digits PROVE d[j] = e[j]
    <3>1. 2 * j - 1 \in Row(s) /\ 2 * j \in Row(s)
      BY <1>1, <1>2 DEF Row
    <3>2. /\ ((2 * j - 1) - 1) % 2 = 0 /\ ((2 * j - 1) + 1) \div 2 = j
          /\ (2 * j - 1) % 2 = 1 /\ (2 * j + 1) \div 2 = j
      BY <1>1
    <3>3. \A f : /\ StepsOf(s, f)[2 * j - 1] = IF 0 = f[j] THEN 0 ELSE 1
                 /\ StepsOf(s, f)[2 * j] = IF 1 = f[j] THEN 0 ELSE 1
      BY <1>2, <3>1, <3>2 DEF StepsOf
    <3>4. StepsOf(s, d)[2 * j - 1] <= StepsOf(s, e)[2 * j - 1] /\ StepsOf(s, d)[2 * j] <= StepsOf(s, e)[2 * j]
      BY <3>1
    <3>5. d[j] \in 0..1 /\ e[j] \in 0..1
      BY <2>2
    <3> QED BY <3>3, <3>4, <3>5
  <2> QED BY <2>3, SameDigits
<1>3. CASE ~s.lamport
  <2>1. ASSUME NEW i \in 1..s.digits PROVE d[i] <= e[i]
    <3>1. i \in Row(s) /\ i <= s.digits
      BY <1>1, <1>3 DEF Row
    <3>2. StepsOf(s, d)[i] = d[i] /\ StepsOf(s, e)[i] = e[i]
      BY <1>3, <3>1 DEF StepsOf
    <3> QED BY <3>1, <3>2
  <2>2. ASSUME NEW j \in 1..s.sums PROVE Cksm(s, d, j) <= Cksm(s, e, j)
    <3> DEFINE i == s.digits + j
    <3>1. i \in Row(s) /\ ~(i <= s.digits) /\ i - s.digits = j
      BY <1>1, <1>3 DEF Row
    <3>2. StepsOf(s, d)[i] = Cksm(s, d, i - s.digits) /\ StepsOf(s, e)[i] = Cksm(s, e, i - s.digits)
      BY <1>3, <3>1 DEF StepsOf
    <3>3. StepsOf(s, d)[i] <= StepsOf(s, e)[i]
      BY <3>1
    <3> QED BY <3>1, <3>2, <3>3
  <2>3. SumTo(s, d)[s.digits] <= SumTo(s, e)[s.digits]
    BY <2>2, CksmOrder
  <2> QED BY <2>1, <2>3, SumsMeet
<1>4. s.lamport \in BOOLEAN
  BY SchemeIs
<1> QED BY <1>2, <1>3

-----------------------------------------------------------------------------
(***************************************************************************)
(* Hashes name a true node exactly where they hash what it is the hash of. *)
(***************************************************************************)
LEMMA KeysAreNoTags ==
  ASSUME NEW s \in Schemes, NEW k \in s.keys
  PROVE  k # "leaf" /\ k # "node" /\ k # "hashed" /\ k # "unknown"
<1>1. s.keys \cap Tags = {}
  BY SchemeIs
<1> QED BY <1>1 DEF Tags

LEMMA ChainEnds ==
  ASSUME NEW s \in Schemes, NEW k \in s.keys, NEW j, NEW p, NEW q, NEW i, NEW step,
         s.lamport => step = 0 \/ step = LastStep(s)
  PROVE  ChainFrom(s, k, q, i, step, Value(j, p, i, step)) = Value(k, q, i, LastStep(s)) <=> j = k /\ p = q
<1> DEFINE v == Value(j, p, i, step)
           l == LastStep(s)
<1>1. v[1] = j /\ v[2] = p /\ v[3] = i /\ v[4] = step
  BY DEF Value
<1>2. \A a, b, c, e : Value(a, b, i, c) = Value(k, q, i, e) <=> a = k /\ b = q /\ c = e
  BY DEF Value
<1>3. CASE step = l
  BY <1>2, <1>3 DEF ChainFrom
<1>4. CASE step # l /\ s.lamport
  <2>1. ChainFrom(s, k, q, i, step, v) = Value(j, p, i, l)
    BY <1>1, <1>4 DEF ChainFrom
  <2> QED BY <1>2, <2>1
<1>5. CASE step # l /\ ~s.lamport
  <2>1. CASE j = k /\ p = q
    BY <1>5, <2>1 DEF ChainFrom
  <2>2. CASE ~(j = k /\ p = q)
    <3>1. v # Value(k, q, i, step)
      BY <1>2, <2>2
    <3>2. ChainFrom(s, k, q, i, step, v) = <<"hashed", k, q, i, step, v>>
      BY <1>5, <3>1 DEF ChainFrom
    <3>3. <<"hashed", k, q, i, step, v>>[1] = "hashed" /\ Value(k, q, i, l)[1] = k
      BY DEF Value
    <3>4. ChainFrom(s, k, q, i, step, v) # Value(k, q, i, l)
      BY <3>2, <3>3, KeysAreNoTags
    <3> QED BY <2>2, <3>4
  <2> QED BY <2>1, <2>2
<1>6. s.lamport \in BOOLEAN
  BY SchemeIs
<1> QED BY <1>3, <1>4, <1>5

LEMMA PlaceIs ==
  ASSUME NEW s \in Schemes, NEW k \in s.keys, NEW n \in Nat, 0 < n, n < 2 * Pow2[s.height]
  PROVE  TreeNode(k, n) \in Places(s) /\ TreeNode(k, n)[1] = k /\ TreeNode(k, n)[2] = n /\ Pow2[s.height] \in Nat
<1>1. s.height \in Nat
  BY SchemeIs
<1>2. Pow2[s.height] \in Nat
  BY <1>1, PowNat
<1> DEFINE w == Pow2[s.height]
<1> HIDE DEF w
<1>3. n \in 1..(2 * w - 1)
  BY <1>2 DEF w
<1> QED BY <1>2, <1>3 DEF Places, TreeNode, w

LEMMA PlacesAre ==
  ASSUME NEW s \in Schemes, NEW m \in Places(s)
  PROVE  m = TreeNode(m[1], m[2]) /\ m[1] \in s.keys /\ m[2] \in Nat
BY DEF Places, TreeNode

LEMMA LeafHashIs ==
  ASSUME NEW s \in Schemes, NEW k \in s.keys, NEW n \in Nat, 0 < n, n < 2 * Pow2[s.height], NEW row
  PROVE  LeafHash(s, k, n, row) = TreeNode(k, n) <=> LeafOf(s, k, n, row)
<1>1. TreeNode(k, n) \in Places(s) /\ TreeNode(k, n)[1] = k /\ TreeNode(k, n)[2] = n /\ Pow2[s.height] \in Nat
  BY PlaceIs
<1>2. CASE s.lamport
  <2>1. ASSUME LeafOf(s, k, n, row), NEW m \in Places(s), LeafOf(s, m[1], m[2], row) PROVE m = TreeNode(k, n)
    <3>1. 1 \in Row(s)
      BY SchemeIs DEF Row
    <3>2. row[1] = Value(k, n - Pow2[s.height], 1, LastStep(s)) /\ row[1] = Value(m[1], m[2] - Pow2[s.height], 1, LastStep(s))
      BY <2>1, <3>1 DEF LeafOf
    <3>3. m = TreeNode(m[1], m[2]) /\ m[2] \in Nat
      BY PlacesAre
    <3>4. m[1] = k /\ m[2] - Pow2[s.height] = n - Pow2[s.height]
      BY <3>2 DEF Value
    <3>5. m[2] = n
      BY <1>1, <3>3, <3>4
    <3> QED BY <3>3, <3>4, <3>5
  <2>2. CASE \E m \in Places(s) : LeafOf(s, m[1], m[2], row)
    <3> DEFINE c == CHOOSE m \in Places(s) : LeafOf(s, m[1], m[2], row)
    <3>1. c \in Places(s) /\ LeafOf(s, c[1], c[2], row)
      BY <2>2
    <3>2. LeafHash(s, k, n, row) = c
      BY <1>2, <2>2 DEF LeafHash
    <3> HIDE DEF c
    <3>3. LeafOf(s, k, n, row) => c = TreeNode(k, n)
      BY <2>1, <3>1
    <3>4. c = TreeNode(k, n) => LeafOf(s, k, n, row)
      BY <1>1, <3>1
    <3> QED BY <3>2, <3>3, <3>4
  <2>3. CASE ~\E m \in Places(s) : LeafOf(s, m[1], m[2], row)
    <3>1. LeafHash(s, k, n, row) = <<"leaf", row>>
      BY <1>2, <2>3 DEF LeafHash
    <3>2. <<"leaf", row>>[1] = "leaf"
      OBVIOUS
    <3>3. ~LeafOf(s, k, n, row)
      BY <1>1, <2>3
    <3> QED BY <1>1, <3>1, <3>2, <3>3, KeysAreNoTags
  <2> QED BY <2>2, <2>3
<1>3. CASE ~s.lamport
  <2>1. <<"leaf", k, n, row>>[1] = "leaf"
    OBVIOUS
  <2>2. <<"leaf", k, n, row>> # TreeNode(k, n)
    BY <1>1, <2>1, KeysAreNoTags
  <2> QED BY <1>3, <2>2 DEF LeafHash
<1>4. s.lamport \in BOOLEAN
  BY SchemeIs
<1> QED BY <1>2, <1>3

LEMMA NodeHashIs ==
  ASSUME NEW s \in Schemes, NEW k \in s.keys, NEW n \in Nat, 0 < n, n < 2 * Pow2[s.height], NEW left, NEW right
  PROVE  NodeHash(s, k, n, left, right) = TreeNode(k, n) <=> ParentOf(k, n, left, right)
<1>1. TreeNode(k, n) \in Places(s) /\ TreeNode(k, n)[1] = k /\ TreeNode(k, n)[2] = n
  BY PlaceIs
<1>2. CASE s.lamport
  <2>1. ASSUME ParentOf(k, n, left, right), NEW m \in Places(s), ParentOf(m[1], m[2], left, right) PROVE m = TreeNode(k, n)
    <3>1. TreeNode(k, 2 * n) = TreeNode(m[1], 2 * m[2])
      BY <2>1 DEF ParentOf
    <3>2. m = TreeNode(m[1], m[2]) /\ m[2] \in Nat
      BY PlacesAre
    <3>3. m[1] = k /\ 2 * m[2] = 2 * n
      BY <3>1 DEF TreeNode
    <3>4. m[2] = n
      BY <3>2, <3>3
    <3> QED BY <3>2, <3>3, <3>4
  <2>2. CASE \E m \in Places(s) : ParentOf(m[1], m[2], left, right)
    <3> DEFINE c == CHOOSE m \in Places(s) : ParentOf(m[1], m[2], left, right)
    <3>1. c \in Places(s) /\ ParentOf(c[1], c[2], left, right)
      BY <2>2
    <3>2. NodeHash(s, k, n, left, right) = c
      BY <1>2, <2>2 DEF NodeHash
    <3> HIDE DEF c
    <3>3. ParentOf(k, n, left, right) => c = TreeNode(k, n)
      BY <2>1, <3>1
    <3>4. c = TreeNode(k, n) => ParentOf(k, n, left, right)
      BY <1>1, <3>1
    <3> QED BY <3>2, <3>3, <3>4
  <2>3. CASE ~\E m \in Places(s) : ParentOf(m[1], m[2], left, right)
    <3>1. NodeHash(s, k, n, left, right) = <<"node", left, right>>
      BY <1>2, <2>3 DEF NodeHash
    <3>2. <<"node", left, right>>[1] = "node"
      OBVIOUS
    <3>3. ~ParentOf(k, n, left, right)
      BY <1>1, <2>3
    <3> QED BY <1>1, <3>1, <3>2, <3>3, KeysAreNoTags
  <2> QED BY <2>2, <2>3
<1>3. CASE ~s.lamport
  <2>1. <<"node", k, n, left, right>>[1] = "node"
    OBVIOUS
  <2>2. <<"node", k, n, left, right>> # TreeNode(k, n)
    BY <1>1, <2>1, KeysAreNoTags
  <2> QED BY <1>3, <2>2 DEF NodeHash
<1>4. s.lamport \in BOOLEAN
  BY SchemeIs
<1> QED BY <1>2, <1>3

\* One level up.
LEMMA ClimbIs ==
  ASSUME NEW s \in Schemes, NEW k \in s.keys, NEW n \in Nat, 1 < n, n < 2 * Pow2[s.height], NEW node, NEW sibling
  PROVE  ClimbTo(s, k, n, node, sibling) = TreeNode(k, n \div 2)
           <=> node = TreeNode(k, n) /\ sibling = TreeNode(k, Sibling(n))
<1> DEFINE h == n \div 2
<1>1. s.height \in Nat
  BY SchemeIs
<1>2. Pow2[s.height] \in Nat
  BY <1>1, PowNat
<1>3. h \in Nat /\ 0 < h /\ h < 2 * Pow2[s.height]
  BY <1>2
<1>4. CASE Odd(n)
  <2>1. n = 2 * h + 1 /\ Sibling(n) = 2 * h
    BY <1>4 DEF Odd, Sibling
  <2>2. ClimbTo(s, k, n, node, sibling) = NodeHash(s, k, h, sibling, node)
    BY <1>4 DEF ClimbTo
  <2> HIDE DEF h
  <2> QED BY <1>3, <2>1, <2>2, NodeHashIs DEF ParentOf, h
<1>5. CASE ~Odd(n)
  <2>1. n = 2 * h /\ Sibling(n) = 2 * h + 1
    BY <1>5 DEF Odd, Sibling
  <2>2. ClimbTo(s, k, n, node, sibling) = NodeHash(s, k, h, node, sibling)
    BY <1>5 DEF ClimbTo
  <2> HIDE DEF h
  <2> QED BY <1>3, <2>1, <2>2, NodeHashIs DEF ParentOf, h
<1> QED BY <1>4, <1>5

(***************************************************************************)
(* The way from a leaf to the root.                                        *)
(***************************************************************************)
LEMMA NumbersAre ==
  ASSUME NEW s \in Schemes, NEW q \in KeyLeaves(s)
  PROVE  /\ s.height \in Nat /\ s.height > 0 /\ q \in Nat /\ Pow2[s.height] \in Nat
         /\ NumbersUp(s, q)[0] = Pow2[s.height] + q /\ NumbersUp(s, q)[s.height] = 1
         /\ \A i \in Nat : i < s.height => /\ NumbersUp(s, q)[i] \in Nat /\ 1 < NumbersUp(s, q)[i]
                                           /\ NumbersUp(s, q)[i] < 2 * Pow2[s.height]
                                           /\ NumbersUp(s, q)[i + 1] = NumbersUp(s, q)[i] \div 2
<1> DEFINE h == s.height
           w == Pow2[h]
           N == NumbersUp(s, q)
           S == {i \in Nat : i <= h => N[i] \in Nat /\ Pow2[h - i] <= N[i] /\ N[i] < 2 * Pow2[h - i]}
<1>1. h \in Nat /\ h > 0
  BY SchemeIs
<1>2. w \in Nat
  BY <1>1, PowNat
<1>3. q \in 0..(w - 1)
  BY DEF KeyLeaves
<1>4. N[0] = w + q /\ \A i \in Nat : N[i + 1] = N[i] \div 2
  BY QuotientSteps DEF NumbersUp
<1>w. w = Pow2[h]
  OBVIOUS
<1> HIDE DEF N, w
<1>5. 0 \in S
  <2>1. h - 0 = h
    BY <1>1
  <2> QED BY <1>2, <1>3, <1>4, <1>w, <2>1
<1>6. ASSUME NEW i \in Nat, i \in S PROVE i + 1 \in S
  <2> SUFFICES ASSUME i + 1 <= h
               PROVE  N[i + 1] \in Nat /\ Pow2[h - (i + 1)] <= N[i + 1] /\ N[i + 1] < 2 * Pow2[h - (i + 1)]
    OBVIOUS
  <2> DEFINE j == h - (i + 1)
             a == N[i]
             b == Pow2[j]
  <2>1. j \in Nat /\ h - i = j + 1 /\ i <= h
    BY <1>1
  <2>2. b \in Nat /\ Pow2[h - i] = 2 * b
    BY <2>1, PowNat, PowStep
  <2>3. a \in Nat /\ 2 * b <= a /\ a < 2 * (2 * b)
    BY <1>6, <2>1, <2>2
  <2>4. N[i + 1] = a \div 2
    BY <1>4
  <2> HIDE DEF a, b
  <2>5. a \div 2 \in Nat /\ b <= a \div 2 /\ a \div 2 < 2 * b
    BY <2>2, <2>3
  <2> QED BY <2>4, <2>5 DEF b
<1>7. Nat \subseteq S
  <2> HIDE DEF S
  <2> QED BY <1>5, <1>6, PowR!SetInduction
<1>8. ASSUME NEW i \in Nat, i < h PROVE N[i] \in Nat /\ 1 < N[i] /\ N[i] < 2 * w
  <2> DEFINE j == h - i
             b == Pow2[j]
  <2>1. j \in Nat /\ 0 < j /\ (i = 0 => j = h) /\ (i > 0 => j < h) /\ i <= h
    BY <1>1, <1>8
  <2>2. b \in Nat /\ 1 < b
    <3>1. b \in Nat /\ j < b
      BY <2>1, PowNat
    <3> QED BY <2>1, <3>1
  <2>3. N[i] \in Nat /\ b <= N[i] /\ N[i] < 2 * b
    BY <1>7, <2>1
  <2>4. b <= w
    <3>1. CASE i = 0
      BY <1>2, <1>w, <2>1, <3>1
    <3>2. CASE i > 0
      <4>1. 2 * b <= w
        BY <1>1, <1>w, <2>1, <3>2, PowRises
      <4> QED BY <1>2, <2>2, <4>1
    <3> QED BY <3>1, <3>2
  <2> HIDE DEF b, j
  <2> QED BY <1>2, <2>2, <2>3, <2>4
<1>9. N[h] = 1
  <2>1. h - h = 0 /\ h <= h
    BY <1>1
  <2>2. N[h] \in Nat /\ 1 <= N[h] /\ N[h] < 2
    BY <1>1, <1>7, <2>1, PowStep
  <2> QED BY <2>2
<1> QED BY <1>1, <1>2, <1>3, <1>4, <1>8, <1>9 DEF w, N

LeadsUp(s, k, q, path) == \A i \in 1..s.height : path[i] = TreeNode(k, Sibling(NumbersUp(s, q)[i - 1]))

LEMMA HashesMeet ==
  ASSUME NEW s \in Schemes, NEW k \in s.keys, NEW q \in KeyLeaves(s), NEW first, NEW path
  PROVE  HashesUp(s, k, q, first, path)[s.height] = KeyRoot(k)
           <=> first = TreeNode(k, Pow2[s.height] + q) /\ LeadsUp(s, k, q, path)
<1> DEFINE h == s.height
           w == Pow2[h]
           N == NumbersUp(s, q)
           up == HashesUp(s, k, q, first, path)
           Met(i) == up[i] = TreeNode(k, N[i])
           Side(j) == path[j] = TreeNode(k, Sibling(N[j - 1]))
           S == {i \in Nat : i <= h => (Met(i) <=> first = TreeNode(k, w + q) /\ \A j \in 1..i : Side(j))}
<1>1. /\ h \in Nat /\ N[0] = w + q /\ N[h] = 1
      /\ \A i \in Nat : i < h => N[i] \in Nat /\ 1 < N[i] /\ N[i] < 2 * Pow2[h] /\ N[i + 1] = N[i] \div 2
  BY NumbersAre
<1>2. up[0] = first /\ \A i \in Nat : up[i + 1] = ClimbTo(s, k, N[i], up[i], path[i + 1])
  BY UpSteps
<1>3. ASSUME NEW i \in Nat, i < h PROVE Met(i + 1) <=> Met(i) /\ Side(i + 1)
  <2>1. N[i] \in Nat /\ 1 < N[i] /\ N[i] < 2 * Pow2[s.height] /\ N[i + 1] = N[i] \div 2
    BY <1>1, <1>3
  <2>2. up[i + 1] = ClimbTo(s, k, N[i], up[i], path[i + 1])
    BY <1>2
  <2>3. (i + 1) - 1 = i
    OBVIOUS
  <2> HIDE DEF N, up
  <2> DEFINE a == N[i]
             u == up[i]
             p == path[i + 1]
  <2> HIDE DEF a, u, p
  <2>4. a \in Nat /\ 1 < a /\ a < 2 * Pow2[s.height]
    BY <2>1 DEF a
  <2>5. ClimbTo(s, k, a, u, p) = TreeNode(k, a \div 2) <=> u = TreeNode(k, a) /\ p = TreeNode(k, Sibling(a))
    BY <2>4, ClimbIs
  <2> QED BY <2>1, <2>2, <2>3, <2>5 DEF a, u, p
<1>4. 0 \in S
  <2>1. Met(0) <=> first = TreeNode(k, w + q)
    BY <1>1, <1>2
  <2>2. \A j \in 1..0 : Side(j)
    OBVIOUS
  <2> QED BY <2>1, <2>2
<1>5. ASSUME NEW i \in Nat, i \in S PROVE i + 1 \in S
  <2> HIDE DEF Met, Side
  <2> SUFFICES ASSUME i + 1 <= h PROVE Met(i + 1) <=> first = TreeNode(k, w + q) /\ \A j \in 1..(i + 1) : Side(j)
    OBVIOUS
  <2>1. i < h /\ i <= h
    BY <1>1
  <2>2. Met(i) <=> first = TreeNode(k, w + q) /\ \A j \in 1..i : Side(j)
    BY <1>5, <2>1
  <2>3. Met(i + 1) <=> Met(i) /\ Side(i + 1)
    BY <1>3, <2>1
  <2>4. 1..(i + 1) = 1..i \cup {i + 1}
    OBVIOUS
  <2> QED BY <2>2, <2>3, <2>4
<1>6. Nat \subseteq S
  <2> HIDE DEF S
  <2> QED BY <1>4, <1>5, PowR!SetInduction
<1>7. Met(h) <=> first = TreeNode(k, w + q) /\ \A j \in 1..h : Side(j)
  <2>1. h \in S /\ h <= h
    BY <1>1, <1>6
  <2> QED BY <2>1
<1> QED BY <1>1, <1>7 DEF KeyRoot, LeadsUp

\* A path leads up from its own leaf only.
LEMMA PathIs ==
  ASSUME NEW s \in Schemes, NEW k, NEW q \in KeyLeaves(s), NEW j, NEW p \in KeyLeaves(s)
  PROVE  LeadsUp(s, k, q, AuthPath(s, j, p)) <=> j = k /\ p = q
<1>1. /\ s.height \in Nat /\ s.height > 0 /\ q \in Nat /\ p \in Nat /\ Pow2[s.height] \in Nat
      /\ NumbersUp(s, q)[0] = Pow2[s.height] + q /\ NumbersUp(s, p)[0] = Pow2[s.height] + p
  BY NumbersAre
<1>2. \A i \in 1..s.height : AuthPath(s, j, p)[i] = TreeNode(j, Sibling(NumbersUp(s, p)[i - 1]))
  BY DEF AuthPath
<1>3. ASSUME LeadsUp(s, k, q, AuthPath(s, j, p))
      PROVE  j = k /\ p = q
  <2>1. 1 \in 1..s.height /\ 1 - 1 = 0
    BY <1>1
  <2>2. TreeNode(j, Sibling(NumbersUp(s, p)[0])) = TreeNode(k, Sibling(NumbersUp(s, q)[0]))
    BY <1>2, <1>3, <2>1 DEF LeadsUp
  <2>3. j = k /\ Sibling(Pow2[s.height] + p) = Sibling(Pow2[s.height] + q)
    BY <1>1, <2>2 DEF TreeNode
  <2>4. \A a, b \in Nat : Sibling(a) = Sibling(b) => a = b
    BY DEF Sibling, Odd
  <2>5. Pow2[s.height] + p = Pow2[s.height] + q
    BY <1>1, <2>3, <2>4
  <2> QED BY <1>1, <2>3, <2>5
<1> QED BY <1>2, <1>3 DEF LeadsUp

-----------------------------------------------------------------------------
(***************************************************************************)
(* What a leaf has shown reaches the digests it signed and no other; with  *)
(* the way up, what verifies is what was signed.                           *)
(***************************************************************************)
\* No leaf goes out twice, and what goes out is a leaf of a key with a digest that gets signed.
SignaturesPlaced ==
  /\ scheme \in Schemes
  /\ \A t \in signatures : t \in scheme.keys \X KeyLeaves(scheme) \X scheme.signable
  /\ \A t, u \in signatures : t[1] = u[1] /\ t[2] = u[2] => t = u

Reached(k, q, d) == \A i \in Row(scheme) : \E step \in Shown(k, q, i) : step <= StepsOf(scheme, d)[i]

LEMMA LamportSteps ==
  ASSUME NEW s \in Schemes, NEW d, NEW i \in Row(s), s.lamport
  PROVE  StepsOf(s, d)[i] = 0 \/ StepsOf(s, d)[i] = LastStep(s)
<1>1. LastStep(s) = 1
  BY SchemeIs DEF LastStep
<1> QED BY <1>1 DEF StepsOf

LEMMA RowIsNotEmpty ==
  ASSUME NEW s \in Schemes
  PROVE  1 \in Row(s)
BY SchemeIs DEF Row

LEMMA ReachedIs ==
  ASSUME SignaturesPlaced, NEW k, NEW q, NEW d \in DigestsOf(scheme)
  PROVE  Reached(k, q, d) <=> Was(k, q, d)
<1>1. scheme \in Schemes /\ scheme.signable \subseteq DigestsOf(scheme)
  BY SchemeIs DEF SignaturesPlaced
<1>2. \A t \in signatures : t = <<t[1], t[2], t[3]>> /\ t[3] \in DigestsOf(scheme)
  BY <1>1 DEF SignaturesPlaced
<1>3. ASSUME Was(k, q, d) PROVE Reached(k, q, d)
  <2> SUFFICES ASSUME NEW i \in Row(scheme) PROVE \E step \in Shown(k, q, i) : step <= StepsOf(scheme, d)[i]
    BY DEF Reached
  <2> DEFINE t == <<k, q, d>>
             n == StepsOf(scheme, d)[i]
  <2>1. t \in signatures /\ t[1] = k /\ t[2] = q /\ t[3] = d
    BY <1>3 DEF Was
  <2>2. n \in Shown(k, q, i)
    BY <2>1 DEF Shown
  <2>3. n \in Nat
    BY <1>1, StepsAreNat
  <2> HIDE DEF n
  <2>4. n <= n
    BY <2>3
  <2> QED BY <2>2, <2>4 DEF n
<1>4. ASSUME Reached(k, q, d) PROVE Was(k, q, d)
  <2>1. \A i \in Row(scheme) : \E u \in signatures : /\ u[1] = k /\ u[2] = q
                                                     /\ StepsOf(scheme, u[3])[i] <= StepsOf(scheme, d)[i]
    BY <1>4 DEF Reached, Shown
  <2>2. PICK t \in signatures : t[1] = k /\ t[2] = q
    BY <1>1, <2>1, RowIsNotEmpty
  <2>3. ASSUME NEW i \in Row(scheme) PROVE StepsOf(scheme, t[3])[i] <= StepsOf(scheme, d)[i]
    <3>1. PICK u \in signatures : u[1] = k /\ u[2] = q /\ StepsOf(scheme, u[3])[i] <= StepsOf(scheme, d)[i]
      BY <2>1
    <3>2. u = t
      BY <2>2, <3>1 DEF SignaturesPlaced
    <3> QED BY <3>1, <3>2
  <2>4. t[3] = d
    BY <1>1, <1>2, <2>3, ShownNoLater
  <2> QED BY <1>2, <2>2, <2>4 DEF Was
<1> QED BY <1>3, <1>4

LEMMA CandidateIs ==
  ASSUME scheme \in Schemes, NEW k \in scheme.keys, NEW q \in KeyLeaves(scheme), NEW d, NEW j, NEW p
  PROVE  OtsCandidate(scheme, k, q, d, Assembled(j, p, d)) = TreeNode(k, Pow2[scheme.height] + q)
           <=> j = k /\ p = q /\ Reached(j, p, d)
<1> DEFINE n == Pow2[scheme.height] + q
           End(i) == ChainFrom(scheme, k, q, i, StepsOf(scheme, d)[i], Assembled(j, p, d)[i])
           row == [i \in Row(scheme) |-> End(i)]
           True(i) == Value(k, q, i, LastStep(scheme))
           Within(i) == \E step \in Shown(j, p, i) : step <= StepsOf(scheme, d)[i]
<1>1. scheme.height \in Nat /\ q \in Nat /\ Pow2[scheme.height] \in Nat /\ q < Pow2[scheme.height]
  <2>1. q \in Nat /\ Pow2[scheme.height] \in Nat /\ q \in 0..(Pow2[scheme.height] - 1)
    BY NumbersAre DEF KeyLeaves
  <2> QED BY <2>1, NumbersAre
<1>2. n \in Nat /\ 0 < n /\ n < 2 * Pow2[scheme.height] /\ n >= Pow2[scheme.height] /\ n - Pow2[scheme.height] = q
  <2>1. scheme.height < Pow2[scheme.height]
    BY <1>1, PowNat
  <2> QED BY <1>1, <2>1
<1>3. OtsCandidate(scheme, k, q, d, Assembled(j, p, d)) = LeafHash(scheme, k, n, row)
  BY DEF OtsCandidate
<1>4. LeafHash(scheme, k, n, row) = TreeNode(k, n) <=> LeafOf(scheme, k, n, row)
  <2> HIDE DEF n, row
  <2> QED BY <1>2, LeafHashIs
<1>5. LeafOf(scheme, k, n, row) <=> row = [i \in Row(scheme) |-> True(i)]
  BY <1>2 DEF LeafOf
<1>6. ASSUME NEW i \in Row(scheme) PROVE End(i) = True(i) <=> j = k /\ p = q /\ Within(i)
  <2> DEFINE step == StepsOf(scheme, d)[i]
             a == IF Within(i) THEN j ELSE "unknown"
  <2>1. Assembled(j, p, d)[i] = Value(a, p, i, step)
    BY DEF Assembled
  <2>2. scheme.lamport => step = 0 \/ step = LastStep(scheme)
    BY LamportSteps
  <2>3. k # "unknown"
    BY KeysAreNoTags
  <2>4. a = k <=> j = k /\ Within(i)
    BY <2>3
  <2> HIDE DEF step, a
  <2>5. ChainFrom(scheme, k, q, i, step, Value(a, p, i, step)) = Value(k, q, i, LastStep(scheme)) <=> a = k /\ p = q
    BY <2>2, ChainEnds
  <2> QED BY <2>1, <2>4, <2>5 DEF step
<1>7. row = [i \in Row(scheme) |-> True(i)] <=> \A i \in Row(scheme) : End(i) = True(i)
  <2> HIDE DEF End, True
  <2> QED OBVIOUS
<1>8. (\A i \in Row(scheme) : End(i) = True(i)) <=> j = k /\ p = q /\ \A i \in Row(scheme) : Within(i)
  <2> HIDE DEF End, True, Within
  <2> QED BY <1>6, RowIsNotEmpty
<1> QED BY <1>3, <1>4, <1>5, <1>7, <1>8 DEF Reached

\* A signature in the shape one is presented in.
LEMMA OneVerifies ==
  ASSUME SignaturesPlaced, NEW k \in scheme.keys, NEW j, NEW leaf, NEW d \in DigestsOf(scheme), NEW type,
         NEW a, NEW p, NEW b, NEW r \in KeyLeaves(scheme)
  PROVE  LmsVerify(scheme, k, d, SignatureOf(type, j, leaf, Assembled(a, p, d), AuthPath(scheme, b, r)))
           <=> type = "own" /\ j = k /\ Was(k, leaf, d) /\ a = k /\ p = leaf /\ b = k /\ r = leaf
<1> DEFINE sig == SignatureOf(type, j, leaf, Assembled(a, p, d), AuthPath(scheme, b, r))
           first == OtsCandidate(scheme, k, leaf, d, Assembled(a, p, d))
<1>1. scheme \in Schemes /\ scheme.height \in Nat
  BY SchemeIs DEF SignaturesPlaced
<1>2. sig.type = type /\ sig.root = KeyRoot(j) /\ sig.leaf = leaf /\ sig.row = Assembled(a, p, d) /\ sig.path = AuthPath(scheme, b, r)
  BY DEF SignatureOf
<1>3. KeyRoot(j) = KeyRoot(k) <=> j = k
  BY DEF KeyRoot, TreeNode
<1>4. Len(AuthPath(scheme, b, r)) = scheme.height
  BY <1>1 DEF AuthPath
<1>5. Was(k, leaf, d) => leaf \in KeyLeaves(scheme)
  BY DEF Was, SignaturesPlaced
<1>6. ASSUME leaf \in KeyLeaves(scheme)
      PROVE  HashesUp(scheme, k, leaf, first, AuthPath(scheme, b, r))[scheme.height] = KeyRoot(k)
               <=> Was(k, leaf, d) /\ a = k /\ p = leaf /\ b = k /\ r = leaf
  <2> DEFINE path == AuthPath(scheme, b, r)
  <2>1. LeadsUp(scheme, k, leaf, path) <=> b = k /\ r = leaf
    BY <1>1, <1>6, PathIs
  <2>2. first = TreeNode(k, Pow2[scheme.height] + leaf) <=> a = k /\ p = leaf /\ Reached(a, p, d)
    BY <1>1, <1>6, CandidateIs
  <2>3. Reached(a, p, d) <=> Was(a, p, d)
    BY ReachedIs
  <2>4. HashesUp(scheme, k, leaf, first, path)[scheme.height] = KeyRoot(k)
          <=> first = TreeNode(k, Pow2[scheme.height] + leaf) /\ LeadsUp(scheme, k, leaf, path)
    <3> HIDE DEF first, path
    <3> QED BY <1>1, <1>6, HashesMeet
  <2> QED BY <2>1, <2>2, <2>3, <2>4
<1> HIDE DEF sig, first
<1>7. LmsVerify(scheme, k, d, sig) <=>
        type = "own" /\ j = k /\ leaf \in KeyLeaves(scheme)
          /\ HashesUp(scheme, k, leaf, first, AuthPath(scheme, b, r))[scheme.height] = KeyRoot(k)
  BY <1>2, <1>3, <1>4 DEF LmsVerify, first
<1> QED BY <1>5, <1>6, <1>7 DEF sig

\* A path that is too short.
LEMMA ShortFails ==
  ASSUME scheme \in Schemes, NEW k, NEW d, NEW type, NEW leaf, NEW row, NEW b, NEW r
  PROVE  ~LmsVerify(scheme, k, d, SignatureOf(type, k, leaf, row, Tail(AuthPath(scheme, b, r))))
<1> DEFINE path == AuthPath(scheme, b, r)
<1>1. scheme.height \in Nat /\ scheme.height > 0
  BY SchemeIs
<1>2. path \in Seq({path[i] : i \in 1..scheme.height}) /\ Len(path) = scheme.height
  <2> DEFINE n == scheme.height
             V == {path[i] : i \in 1..n}
  <2>1. path = [i \in 1..n |-> path[i]]
    BY DEF AuthPath
  <2> HIDE DEF path, n
  <2>2. path \in [1..n -> V]
    BY <2>1
  <2>3. n \in Nat
    BY <1>1 DEF n
  <2> HIDE DEF V
  <2>4. path \in Seq(V) /\ Len(path) = n
    BY <2>2, <2>3
  <2> QED BY <2>4 DEF n, V
<1> HIDE DEF path
<1>3. Len(Tail(path)) = scheme.height - 1
  BY <1>1, <1>2
<1>4. SignatureOf(type, k, leaf, row, Tail(path)).path = Tail(path)
  BY DEF SignatureOf
<1>5. Len(Tail(path)) # scheme.height
  BY <1>1, <1>3
<1> QED BY <1>4, <1>5 DEF LmsVerify, path

-----------------------------------------------------------------------------
\* The levels of an HSS signature, each a signature under the key before.
LEMMA PartVerifies ==
  ASSUME SignaturesPlaced, NEW k \in scheme.keys, NEW j, NEW q \in KeyLeaves(scheme), NEW d \in DigestsOf(scheme), NEW next
  PROVE  /\ LmsVerify(scheme, k, d, PartOf(j, q, d, next).sig) <=> j = k /\ Was(k, q, d)
         /\ PartOf(j, q, d, next).next = next
<1>1. PartOf(j, q, d, next).sig = SignatureOf("own", j, q, Assembled(j, q, d), AuthPath(scheme, j, q))
  BY DEF PartOf
<1>2. PartOf(j, q, d, next).next = next
  BY DEF PartOf
<1>3. LmsVerify(scheme, k, d, SignatureOf("own", j, q, Assembled(j, q, d), AuthPath(scheme, j, q)))
        <=> "own" = "own" /\ j = k /\ Was(k, q, d) /\ j = k /\ q = q /\ j = k /\ q = q
  BY OneVerifies
<1> QED BY <1>1, <1>2, <1>3

LEMMA OneLevel ==
  ASSUME SignaturesPlaced, NEW child \in scheme.keys, NEW q \in KeyLeaves(scheme), NEW d \in DigestsOf(scheme),
         NEW levels \in 1..3
  PROVE  HssVerify(scheme, levels, <<PartOf(child, q, d, child)>>, d)
           <=> levels = 1 /\ child = Top /\ Was(Top, q, d)
<1> DEFINE part == PartOf(child, q, d, child)
           parts == <<part>>
<1>1. Top \in scheme.keys
  BY SchemeIs DEF SignaturesPlaced
<1>2. LmsVerify(scheme, Top, d, part.sig) <=> child = Top /\ Was(Top, q, d)
  BY <1>1, PartVerifies
<1> HIDE DEF part
<1>3. Len(parts) = 1 /\ parts[1] = part
  OBVIOUS
<1>4. HssVerify(scheme, levels, parts, d) <=> levels = 1 /\ LmsVerify(scheme, Top, d, part.sig)
  <2> HIDE DEF parts
  <2>1. 1..1 = {1}
    OBVIOUS
  <2> QED BY <1>3, <2>1 DEF HssVerify
<1> QED BY <1>2, <1>4 DEF part

LEMMA TwoLevels ==
  ASSUME SignaturesPlaced, NEW child \in scheme.keys, NEW p \in KeyLeaves(scheme), NEW q \in KeyLeaves(scheme),
         NEW d \in DigestsOf(scheme), NEW levels \in 1..3
  PROVE  HssVerify(scheme, levels, <<PartOf(Top, p, scheme.digest[child], child), PartOf(child, q, d, child)>>, d)
           <=> levels = 2 /\ Was(Top, p, scheme.digest[child]) /\ Was(child, q, d)
<1> DEFINE e == scheme.digest[child]
           one == PartOf(Top, p, e, child)
           two == PartOf(child, q, d, child)
           parts == <<one, two>>
<1>1. Top \in scheme.keys /\ e \in DigestsOf(scheme)
  <2>1. Top \in scheme.keys /\ scheme.digest \in [scheme.keys -> DigestsOf(scheme)]
    BY SchemeIs DEF SignaturesPlaced
  <2> QED BY <2>1
<1> HIDE DEF e
<1>2. (LmsVerify(scheme, Top, e, one.sig) <=> Top = Top /\ Was(Top, p, e)) /\ one.next = child
  BY <1>1, PartVerifies
<1>3. (LmsVerify(scheme, child, d, two.sig) <=> child = child /\ Was(child, q, d)) /\ two.next = child
  BY PartVerifies
<1> HIDE DEF one, two
<1>4. Len(parts) = 2 /\ parts[1] = one /\ parts[2] = two
  OBVIOUS
<1>5. HssVerify(scheme, levels, parts, d) <=>
        levels = 2 /\ LmsVerify(scheme, Top, e, one.sig) /\ LmsVerify(scheme, child, d, two.sig)
  <2> HIDE DEF parts
  <2>1. 1..2 = {1, 2} /\ 2 - 1 = 1 /\ 1 # 2
    OBVIOUS
  <2> QED BY <1>2, <1>4, <2>1 DEF HssVerify, e
<1> QED BY <1>2, <1>3, <1>5 DEF one, two, e

\* A leaf goes out once, so what was placed stays placed.
LEMMA SignKeepsPlaces ==
  ASSUME SignaturesPlaced, Signs
  PROVE  SignaturesPlaced' /\ UNCHANGED <<presented, verified>>
<1>1. PICK k \in scheme.keys, q \in KeyLeaves(scheme), d \in scheme.signable : Sign(k, q, d)
  BY DEF Signs
<1>2. /\ \A t \in signatures : <<t[1], t[2]>> # <<k, q>>
      /\ signatures' = signatures \cup {<<k, q, d>>} /\ scheme' = scheme /\ UNCHANGED <<presented, verified>>
  BY <1>1 DEF Sign
<1>3. \A t \in signatures : ~(t[1] = k /\ t[2] = q)
  BY <1>2
<1>4. <<k, q, d>>[1] = k /\ <<k, q, d>>[2] = q /\ <<k, q, d>> \in scheme.keys \X KeyLeaves(scheme) \X scheme.signable
  OBVIOUS
<1> QED BY <1>2, <1>3, <1>4 DEF SignaturesPlaced

LEMMA PresentHolds ==
  ASSUME SignaturesPlaced, NEW k \in scheme.keys, NEW leaf, NEW d \in DigestsOf(scheme),
         NEW from \in scheme.keys \X KeyLeaves(scheme), NEW path \in scheme.keys \X KeyLeaves(scheme),
         NEW extra \in {"none", "type", "short"}, Present(k, leaf, d, from, path, extra)
  PROVE  SignaturesPlaced' /\ SignaturesHold'
<1> DEFINE type == IF extra = "type" THEN "other" ELSE "own"
           row == Assembled(from[1], from[2], d)
           way == AuthPath(scheme, path[1], path[2])
<1>1. /\ presented' = [kind |-> "one", key |-> k, leaf |-> leaf, digest |-> d, from |-> from, path |-> path, extra |-> extra]
      /\ verified' = LmsVerify(scheme, k, d, SignatureOf(type, k, leaf, row, IF extra = "short" THEN Tail(way) ELSE way))
      /\ scheme' = scheme /\ signatures' = signatures
  BY DEF Present
<1>2. scheme \in Schemes
  BY DEF SignaturesPlaced
<1>3. from = <<from[1], from[2]>> /\ path = <<path[1], path[2]>> /\ path[2] \in KeyLeaves(scheme)
  OBVIOUS
<1>4. LmsVerify(scheme, k, d, SignatureOf(type, k, leaf, row, way))
        <=> type = "own" /\ k = k /\ Was(k, leaf, d) /\ from[1] = k /\ from[2] = leaf /\ path[1] = k /\ path[2] = leaf
  BY <1>3, OneVerifies
<1>5. ~LmsVerify(scheme, k, d, SignatureOf(type, k, leaf, row, Tail(way)))
  BY <1>2, ShortFails
<1> HIDE DEF way, row
<1>6. verified' <=> Was(k, leaf, d) /\ from = <<k, leaf>> /\ path = from /\ extra = "none"
  <2>1. CASE extra = "none"
    BY <1>1, <1>3, <1>4, <2>1
  <2>2. CASE extra = "type"
    BY <1>1, <1>4, <2>2
  <2>3. CASE extra = "short"
    BY <1>1, <1>5, <2>3
  <2> QED BY <2>1, <2>2, <2>3
<1>7. Was(k, leaf, d)' <=> Was(k, leaf, d)
  BY <1>1 DEF Was
<1> HIDE DEF type
<1>8. /\ presented'.kind = "one" /\ presented'.key = k /\ presented'.leaf = leaf /\ presented'.digest = d
      /\ presented'.from = from /\ presented'.path = path /\ presented'.extra = extra
  BY <1>1
<1>9. SignaturesPlaced'
  BY <1>1 DEF SignaturesPlaced
<1>10. VerifiedWasSigned'
  BY <1>1, <1>6, <1>8 DEF VerifiedWasSigned, Was
<1>11. LevelsWereSigned'
  BY <1>8 DEF LevelsWereSigned
<1> QED BY <1>9, <1>10, <1>11 DEF SignaturesHold

LEMMA PresentHssHolds ==
  ASSUME SignaturesPlaced, NEW levels \in 1..3, NEW child \in scheme.keys, NEW d \in scheme.signable,
         NEW leaves \in KeyLeaves(scheme) \X KeyLeaves(scheme), NEW drop \in BOOLEAN,
         PresentHss(levels, child, d, leaves, drop)
  PROVE  SignaturesPlaced' /\ SignaturesHold'
<1> DEFINE e == scheme.digest[child]
           one == <<PartOf(child, leaves[2], d, child)>>
           both == <<PartOf(Top, leaves[1], e, child), PartOf(child, leaves[2], d, child)>>
<1>1. /\ presented' = [kind |-> "levels", child |-> child, digest |-> d, leaves |-> leaves, levels |-> levels, drop |-> drop]
      /\ verified' = HssVerify(scheme, levels, IF drop THEN one ELSE both, d)
      /\ scheme' = scheme /\ signatures' = signatures
  BY DEF PresentHss
<1>2. d \in DigestsOf(scheme)
  BY SchemeIs DEF SignaturesPlaced
<1>3. leaves[1] \in KeyLeaves(scheme) /\ leaves[2] \in KeyLeaves(scheme)
  OBVIOUS
<1>4. HssVerify(scheme, levels, one, d) <=> levels = 1 /\ child = Top /\ Was(Top, leaves[2], d)
  BY <1>2, <1>3, OneLevel
<1>5. HssVerify(scheme, levels, both, d) <=> levels = 2 /\ Was(Top, leaves[1], e) /\ Was(child, leaves[2], d)
  BY <1>2, <1>3, TwoLevels
<1> HIDE DEF one, both
<1>6. verified' <=> \/ levels = 2 /\ ~drop /\ Was(Top, leaves[1], e) /\ Was(child, leaves[2], d)
                    \/ levels = 1 /\ drop /\ child = Top /\ Was(Top, leaves[2], d)
  BY <1>1, <1>4, <1>5
<1>7. /\ presented'.kind = "levels" /\ presented'.child = child /\ presented'.digest = d
      /\ presented'.leaves = leaves /\ presented'.levels = levels /\ presented'.drop = drop
  BY <1>1
<1>8. SignaturesPlaced'
  BY <1>1 DEF SignaturesPlaced
<1>9. VerifiedWasSigned'
  BY <1>7 DEF VerifiedWasSigned
<1>10. LevelsWereSigned'
  BY <1>1, <1>6, <1>7 DEF LevelsWereSigned, Was
<1> QED BY <1>8, <1>9, <1>10 DEF SignaturesHold

SignaturesInv == SignaturesPlaced /\ SignaturesHold

\* A signature verifies exactly for what its key signed with its leaf, level by
\* level: for every digest width, checksum, height of the tree and set of keys
\* (sign, lms_verify, hss_verify, verify_signature).
THEOREM SignaturesAlwaysHold ==
  SignaturesSpec => []SignaturesHold
<1>1. SignaturesInit => SignaturesInv
  <2> SUFFICES ASSUME SignaturesInit PROVE SignaturesInv
    OBVIOUS
  <2>1. scheme \in Schemes /\ signatures = {} /\ presented.kind = "none"
    BY DEF SignaturesInit, NothingPresented
  <2> QED BY <2>1 DEF SignaturesInv, SignaturesPlaced, SignaturesHold, VerifiedWasSigned, LevelsWereSigned
<1>2. SignaturesInv /\ [SignaturesNext]_signatureVars => SignaturesInv'
  <2> SUFFICES ASSUME SignaturesInv, [SignaturesNext]_signatureVars PROVE SignaturesInv'
    OBVIOUS
  <2>1. SignaturesPlaced /\ SignaturesHold
    BY DEF SignaturesInv
  <2>2. CASE UNCHANGED signatureVars
    BY <2>1, <2>2 DEF SignaturesInv, SignaturesPlaced, SignaturesHold, VerifiedWasSigned, LevelsWereSigned, Was, signatureVars
  <2>3. CASE presented = NothingPresented /\ Signs
    <3>1. SignaturesPlaced' /\ presented' = presented
      BY <2>1, <2>3, SignKeepsPlaces
    <3>2. presented'.kind = "none"
      BY <2>3, <3>1 DEF NothingPresented
    <3> QED BY <3>1, <3>2 DEF SignaturesInv, SignaturesHold, VerifiedWasSigned, LevelsWereSigned
  <2>4. CASE Presents
    <3>1. CASE \E k \in scheme.keys, leaf \in 0 .. Pow2[scheme.height], d \in DigestsOf(scheme),
                  other \in scheme.keys \X KeyLeaves(scheme) :
                 \E from, path \in {<<k, leaf>>, other} :
                   /\ {from, path} \subseteq scheme.keys \X KeyLeaves(scheme)
                   /\ Present(k, leaf, d, from, path, "none")
      BY <2>1, <3>1, PresentHolds DEF SignaturesInv
    <3>2. CASE \E k \in scheme.keys, leaf \in KeyLeaves(scheme), d \in DigestsOf(scheme), extra \in {"type", "short"} :
                 Present(k, leaf, d, <<k, leaf>>, <<k, leaf>>, extra)
      BY <2>1, <3>2, PresentHolds DEF SignaturesInv
    <3>3. CASE \E levels \in 1..3, child \in scheme.keys, d \in scheme.signable,
                  leaves \in KeyLeaves(scheme) \X KeyLeaves(scheme), drop \in BOOLEAN :
                 PresentHss(levels, child, d, leaves, drop)
      BY <2>1, <3>3, PresentHssHolds DEF SignaturesInv
    <3> QED BY <2>4, <3>1, <3>2, <3>3 DEF Presents
  <2> QED BY <2>2, <2>3, <2>4 DEF SignaturesNext
<1>3. SignaturesInv => SignaturesHold
  BY DEF SignaturesInv
<1> QED BY <1>1, <1>2, <1>3, PTL DEF SignaturesSpec

-----------------------------------------------------------------------------
(***************************************************************************)
(* Module Statements: the sites of all statements, added up by recursion   *)
(* over the set of them.                                                   *)
(***************************************************************************)
AddDom(p) == SUBSET p
AddRank(S) == Cardinality(S)
AddBody(p, f, S) == IF S = {} THEN 0 ELSE LET x == CHOOSE y \in S : TRUE IN x.sites + f[S \ {x}]
AddR == INSTANCE Recursion WITH Dom <- AddDom, Rank <- AddRank, Body <- AddBody

Adds(stated, f) == /\ SitesStated(stated) = f[stated]
                   /\ f[{}] = 0
                   /\ \A S \in SUBSET stated : S # {} => \E x \in S : f[S] = x.sites + f[S \ {x}]

LEMMA AddSteps ==
  ASSUME NEW stated, IsFiniteSet(stated)
  PROVE  \E f : Adds(stated, f)
<1>1. AddR!Local(stated)
  <2>1. ASSUME NEW S \in SUBSET stated, NEW g, NEW h,
               \A T \in SUBSET stated : Cardinality(T) < Cardinality(S) => g[T] = h[T]
        PROVE  AddBody(stated, g, S) = AddBody(stated, h, S)
    <3>1. CASE S = {}
      BY <3>1 DEF AddBody
    <3>2. CASE S # {}
      <4> DEFINE x == CHOOSE y \in S : TRUE
      <4>1. x \in S
        BY <3>2
      <4>2. IsFiniteSet(S)
        BY FS_Subset
      <4> HIDE DEF x
      <4>3. Cardinality(S \ {x}) = Cardinality(S) - 1 /\ Cardinality(S) \in Nat
        BY <4>1, <4>2, FS_RemoveElement, FS_CardinalityType
      <4>4. g[S \ {x}] = h[S \ {x}]
        BY <2>1, <4>3
      <4> QED BY <3>2, <4>4 DEF AddBody, x
    <3> QED BY <3>1, <3>2
  <2>2. \A S \in SUBSET stated : AddRank(S) \in Nat
    BY FS_Subset, FS_CardinalityType DEF AddRank
  <2> QED BY <2>1, <2>2 DEF AddR!Local, AddDom, AddRank
<1>2. \E f : f = [S \in SUBSET stated |-> AddBody(stated, f, S)]
  BY <1>1, AddR!Recursive DEF AddDom
<1>3. \A f, S : AddBody(stated, f, S) = IF S = {} THEN 0 ELSE (CHOOSE y \in S : TRUE).sites + f[S \ {CHOOSE y \in S : TRUE}]
  BY DEF AddBody
<1> DEFINE Eq(f) == f = [S \in SUBSET stated |-> IF S = {} THEN 0
                           ELSE (CHOOSE y \in S : TRUE).sites + f[S \ {CHOOSE y \in S : TRUE}]]
           f == CHOOSE f : Eq(f)
<1>4. \E g : Eq(g)
  <2>1. PICK g : g = [S \in SUBSET stated |-> AddBody(stated, g, S)]
    BY <1>2
  <2>2. Eq(g)
    BY <2>1 DEF AddBody
  <2> QED BY <2>2
<1>5. Eq(f)
  BY <1>4
<1>6. SitesStated(stated) = f[stated]
  BY DEF SitesStated, MapThenSumSet, MapThenFoldSet
<1> HIDE DEF f
<1>7. f[{}] = 0
  BY <1>5
<1>8. ASSUME NEW S \in SUBSET stated, S # {} PROVE \E x \in S : f[S] = x.sites + f[S \ {x}]
  <2> DEFINE x == CHOOSE y \in S : TRUE
  <2>1. x \in S
    BY <1>8
  <2>2. f[S] = x.sites + f[S \ {x}]
    BY <1>5, <1>8
  <2> QED BY <2>1, <2>2
<1> QED BY <1>6, <1>7, <1>8 DEF Adds

\* The weak uses that one of these statements is about.
Told(rep, S) == {u \in Weak(rep) : \E s \in S : s.cwe = CWE_MAP[u.status] /\ s.prim = u.prim}

LEMMA StatementIs ==
  ASSUME NEW uses, NEW c, NEW p
  PROVE  /\ Statement(uses, <<c, p>>).cwe = c /\ Statement(uses, <<c, p>>).prim = p
         /\ Statement(uses, <<c, p>>).sites = Cardinality(Hits(uses, <<c, p>>))
BY DEF Statement

LEMMA StatedAre ==
  ASSUME NEW rep, NEW s
  PROVE  s \in ToVex(rep, FALSE) <=> \E u \in Weak(rep) : s = Statement(rep.uses, <<CWE_MAP[u.status], u.prim>>)
BY DEF ToVex, Weak

LEMMA SitesAre ==
  ASSUME NEW rep, NEW s \in ToVex(rep, FALSE)
  PROVE  s = Statement(rep.uses, <<s.cwe, s.prim>>) /\ s.sites = Cardinality(Told(rep, {s}))
<1>1. PICK u \in Weak(rep) : s = Statement(rep.uses, <<CWE_MAP[u.status], u.prim>>)
  BY StatedAre
<1>2. s.cwe = CWE_MAP[u.status] /\ s.prim = u.prim
  BY <1>1, StatementIs
<1>3. s = Statement(rep.uses, <<s.cwe, s.prim>>)
  BY <1>1, <1>2
<1>4. s.sites = Cardinality(Hits(rep.uses, <<s.cwe, s.prim>>))
  BY <1>1, <1>2, StatementIs
<1>5. Hits(rep.uses, <<s.cwe, s.prim>>) = Told(rep, {s})
  BY DEF Hits, Told, Weak
<1> QED BY <1>3, <1>4, <1>5

LEMMA StatedFinite ==
  ASSUME NEW rep, IsFiniteSet(rep.uses)
  PROVE  IsFiniteSet(Weak(rep)) /\ IsFiniteSet(ToVex(rep, FALSE))
<1> DEFINE w == Weak(rep)
           v == ToVex(rep, FALSE)
           f == [u \in w |-> Statement(rep.uses, <<CWE_MAP[u.status], u.prim>>)]
<1>1. IsFiniteSet(w)
  BY FS_Subset DEF Weak
<1>2. \A s : s \in v <=> \E u \in w : s = f[u]
  BY StatedAre
<1>3. f = [u \in w |-> f[u]]
  OBVIOUS
<1> HIDE DEF w, v, f
<1>4. f \in Surjection(w, v)
  BY <1>2, <1>3 DEF Surjection
<1>5. IsFiniteSet(v)
  BY <1>1, <1>4, FS_Surjection
<1> QED BY <1>1, <1>5 DEF w, v

\* The sites of all statements are as many as there are weak uses.
LEMMA SitesAddUp ==
  ASSUME NEW rep, IsFiniteSet(rep.uses)
  PROVE  SitesStated(ToVex(rep, FALSE)) = Cardinality(Weak(rep))
<1> DEFINE v == ToVex(rep, FALSE)
           w == Weak(rep)
<1>1. IsFiniteSet(w) /\ IsFiniteSet(v)
  BY StatedFinite
<1>2. \A s \in v : s = Statement(rep.uses, <<s.cwe, s.prim>>) /\ s.sites = Cardinality(Told(rep, {s}))
  BY SitesAre
<1>3. \A u \in w : \E s \in v : s.cwe = CWE_MAP[u.status] /\ s.prim = u.prim
  <2> SUFFICES ASSUME NEW u \in w PROVE \E s \in v : s.cwe = CWE_MAP[u.status] /\ s.prim = u.prim
    OBVIOUS
  <2> DEFINE s == Statement(rep.uses, <<CWE_MAP[u.status], u.prim>>)
  <2>1. s \in v
    BY StatedAre
  <2>2. s.cwe = CWE_MAP[u.status] /\ s.prim = u.prim
    BY StatementIs
  <2> QED BY <2>1, <2>2
<1>4. PICK f : Adds(v, f)
  <2> HIDE DEF v
  <2> QED BY <1>1, AddSteps
<1> HIDE DEF v
<1> DEFINE N == {n \in Nat : \A S \in SUBSET v : Cardinality(S) = n => f[S] = Cardinality(Told(rep, S))}
<1>5. 0 \in N
  <2> SUFFICES ASSUME NEW S \in SUBSET v, Cardinality(S) = 0 PROVE f[S] = Cardinality(Told(rep, S))
    OBVIOUS
  <2>1. S = {}
    BY <1>1, FS_Subset, FS_EmptySet
  <2>2. Told(rep, S) = {}
    BY <2>1 DEF Told
  <2> QED BY <1>4, <2>1, <2>2, FS_EmptySet DEF Adds
<1>6. ASSUME NEW n \in Nat, n \in N PROVE n + 1 \in N
  <2> SUFFICES ASSUME NEW S \in SUBSET v, Cardinality(S) = n + 1 PROVE f[S] = Cardinality(Told(rep, S))
    OBVIOUS
  <2>1. IsFiniteSet(S)
    BY <1>1, FS_Subset
  <2>2. S # {}
    BY FS_EmptySet
  <2>3. PICK x \in S : f[S] = x.sites + f[S \ {x}]
    BY <1>4, <2>2 DEF Adds
  <2> DEFINE R == S \ {x}
  <2>4. Cardinality(R) = n /\ R \in SUBSET v
    <3>1. Cardinality(S \ {x}) = Cardinality(S) - 1
      BY <2>1, FS_RemoveElement
    <3>2. (n + 1) - 1 = n
      OBVIOUS
    <3> QED BY <3>1, <3>2
  <2>5. f[R] = Cardinality(Told(rep, R))
    BY <1>6, <2>4
  <2>6. x.sites = Cardinality(Told(rep, {x}))
    BY <1>2
  <2> DEFINE A == Told(rep, {x})
             B == Told(rep, R)
  <2>7. Told(rep, S) = A \cup B
    BY DEF Told
  <2>8. A \cap B = {}
    <3> SUFFICES ASSUME NEW u \in w, NEW s \in R, x.cwe = CWE_MAP[u.status], x.prim = u.prim,
                        s.cwe = CWE_MAP[u.status], s.prim = u.prim
                 PROVE  FALSE
      BY DEF Told
    <3>1. x = Statement(rep.uses, <<x.cwe, x.prim>>) /\ s = Statement(rep.uses, <<s.cwe, s.prim>>)
      BY <1>2
    <3> QED BY <3>1
  <2>9. A \in SUBSET w /\ B \in SUBSET w
    BY DEF Told
  <2> HIDE DEF A, B, w
  <2>10. IsFiniteSet(A) /\ IsFiniteSet(B)
    BY <1>1, <2>9, FS_Subset
  <2>11. Cardinality(A \cup B) = Cardinality(A) + Cardinality(B)
    <3>1. Cardinality(A \cup B) = Cardinality(A) + Cardinality(B) - Cardinality(A \cap B)
      BY <2>10, FS_Union
    <3>2. Cardinality(A \cap B) = 0
      BY <2>8, FS_EmptySet
    <3>3. Cardinality(A) \in Nat /\ Cardinality(B) \in Nat
      BY <2>10, FS_CardinalityType
    <3> QED BY <3>1, <3>2, <3>3
  <2> QED BY <2>3, <2>5, <2>6, <2>7, <2>11 DEF A, B
<1>7. Nat \subseteq N
  <2> HIDE DEF N
  <2> QED BY <1>5, <1>6, AddR!SetInduction
<1>8. Cardinality(v) \in Nat
  BY <1>1, FS_CardinalityType
<1>9. f[v] = Cardinality(Told(rep, v))
  BY <1>7, <1>8
<1>10. Told(rep, v) = w
  BY <1>3 DEF Told
<1> QED BY <1>4, <1>9, <1>10 DEF v, Adds

LEMMA UsesFinite ==
  ASSUME NEW F \in SUBSET PythonFiles, tree \in [PythonFiles -> SUBSET Sites]
  PROVE  IsFiniteSet(Uses(F))
<1> DEFINE P == {p \in PythonFiles \X Sites : p[1] \in F /\ p[2] \in tree[p[1]]}
           Use(f, s) == [file |-> f, line |-> s.line, prim |-> s.prim, status |-> s.status]
           g == [p \in P |-> Use(p[1], p[2])]
           U == Uses(F)
<1>1. IsFiniteSet(PythonFiles \X Sites)
  BY StatementsAssumption, FS_Product
<1>2. IsFiniteSet(P)
  BY <1>1, FS_Subset
<1>3. \A u : u \in U <=> \E f \in F : \E s \in tree[f] : u = Use(f, s)
  BY DEF Uses
<1>4. \A f \in F : \A s \in tree[f] : <<f, s>> \in P
  OBVIOUS
<1> HIDE DEF U, Use
<1>5. \A u \in U : \E p \in P : g[p] = u
  <2> SUFFICES ASSUME NEW u \in U PROVE \E p \in P : g[p] = u
    OBVIOUS
  <2>1. PICK f \in F : \E s \in tree[f] : u = Use(f, s)
    BY <1>3
  <2>2. PICK s \in tree[f] : u = Use(f, s)
    BY <2>1
  <2>3. <<f, s>> \in P /\ <<f, s>>[1] = f /\ <<f, s>>[2] = s
    BY <1>4
  <2>4. g[<<f, s>>] = u
    BY <2>2, <2>3
  <2> QED BY <2>3, <2>4
<1>6. \A p \in P : g[p] \in U
  BY <1>3
<1>7. g = [p \in P |-> g[p]]
  OBVIOUS
<1> HIDE DEF P, g
<1>8. g \in Surjection(P, U)
  BY <1>5, <1>6, <1>7 DEF Surjection
<1>9. IsFiniteSet(U)
  BY <1>2, <1>8, FS_Surjection
<1> QED BY <1>9 DEF U

-----------------------------------------------------------------------------
StatementsInv ==
  /\ tree \in [PythonFiles -> SUBSET Sites]
  /\ IsFiniteSet(cbom.uses)
  /\ \A d \in shown : d.id = <<d.subject, d.statements>>

LEMMA EachIsStatedOnce ==
  ASSUME StatementsInv
  PROVE  EachWeakUseStatedOnce /\ IdNamesStatements
<1>1. \A u \in Weak(cbom) : \E s \in ToVex(cbom, FALSE) : s.cwe = CWE_MAP[u.status] /\ s.prim = u.prim
  <2> SUFFICES ASSUME NEW u \in Weak(cbom) PROVE \E s \in ToVex(cbom, FALSE) : s.cwe = CWE_MAP[u.status] /\ s.prim = u.prim
    OBVIOUS
  <2> DEFINE s == Statement(cbom.uses, <<CWE_MAP[u.status], u.prim>>)
  <2>1. s \in ToVex(cbom, FALSE)
    BY StatedAre
  <2>2. s.cwe = CWE_MAP[u.status] /\ s.prim = u.prim
    BY StatementIs
  <2> QED BY <2>1, <2>2
<1>2. ASSUME NEW s \in ToVex(cbom, FALSE), NEW t \in ToVex(cbom, FALSE), s.cwe = t.cwe, s.prim = t.prim PROVE s = t
  <2>1. s = Statement(cbom.uses, <<s.cwe, s.prim>>) /\ t = Statement(cbom.uses, <<t.cwe, t.prim>>)
    BY SitesAre
  <2> QED BY <1>2, <2>1
<1>3. SitesStated(ToVex(cbom, FALSE)) = Cardinality(Weak(cbom))
  BY SitesAddUp DEF StatementsInv
<1>4. EachWeakUseStatedOnce
  BY <1>1, <1>2, <1>3 DEF EachWeakUseStatedOnce
<1>5. IdNamesStatements
  <2> SUFFICES ASSUME NEW d \in shown, NEW e \in shown, d.id = e.id PROVE d.statements = e.statements /\ d.subject = e.subject
    BY DEF IdNamesStatements
  <2>1. <<d.subject, d.statements>> = <<e.subject, e.statements>>
    BY DEF StatementsInv
  <2> QED BY <2>1
<1> QED BY <1>4, <1>5

LEMMA LeavesOwn ==
  LeavesThisRuns
<1> SUFFICES ASSUME NEW keys \in BOOLEAN, NEW p \in Publishers, Csaf(keys, p), exit' = 0
             PROVE  out' \in {NoDoc, ToCsaf(cbom, keys, p)}
  BY DEF LeavesThisRuns
<1>1. CASE ToVex(cbom, keys) = {}
  BY <1>1 DEF Csaf, NothingStated
<1>2. CASE ToVex(cbom, keys) # {}
  BY <1>2 DEF Csaf
<1> QED BY <1>1, <1>2

LEMMA ShownGrows ==
  ASSUME StatementsInv, NEW keys, NEW p, Csaf(keys, p)
  PROVE  StatementsInv'
<1> DEFINE d == ToCsaf(cbom, keys, p)
<1>1. d.id = <<d.subject, d.statements>>
  BY DEF ToCsaf, TrackingId
<1>2. shown' = shown \/ shown' = shown \cup {d}
  BY DEF Csaf, NothingStated
<1>3. tree' = tree /\ cbom' = cbom
  BY DEF Csaf
<1> HIDE DEF d
<1> QED BY <1>1, <1>2, <1>3 DEF StatementsInv

\* Each weak use is in exactly one statement and the statements count no other; an
\* advisory's id names its tree and its statements; and after a run that succeeded
\* the output holds that run's advisory or none (to_vex, to_csaf, csaf.main).
THEOREM StatedOnceAlways ==
  StatementsSpec => StatedOnce
<1>1. StatementsInit => StatementsInv
  <2> SUFFICES ASSUME StatementsInit PROVE StatementsInv
    OBVIOUS
  <2>1. tree \in [PythonFiles -> SUBSET Sites] /\ shown = {} /\ cbom = Cbom({})
    BY DEF StatementsInit
  <2>2. cbom.uses = Uses(PythonFiles \ {})
    BY <2>1 DEF Cbom
  <2>3. PythonFiles \ {} \in SUBSET PythonFiles
    OBVIOUS
  <2>4. IsFiniteSet(cbom.uses)
    BY <2>1, <2>2, <2>3, UsesFinite
  <2> QED BY <2>1, <2>4 DEF StatementsInv
<1>2. StatementsInv /\ [StatementsNext]_statementVars => StatementsInv'
  <2> SUFFICES ASSUME StatementsInv, [StatementsNext]_statementVars PROVE StatementsInv'
    OBVIOUS
  <2>1. CASE EditTree
    <3>1. PICK f \in PythonFiles, s \in Sites : tree' = [tree EXCEPT ![f] = IF s \in @ THEN @ \ {s} ELSE @ \cup {s}]
      BY <2>1 DEF EditTree
    <3>2. tree' \in [PythonFiles -> SUBSET Sites]
      BY <3>1 DEF StatementsInv
    <3> QED BY <2>1, <3>2 DEF StatementsInv, EditTree
  <2>2. CASE ScanTree
    <3>1. PICK unparsed \in {{}, NewSyntax} : cbom' = Cbom(unparsed)
      BY <2>2 DEF ScanTree
    <3>2. cbom'.uses = Uses(PythonFiles \ unparsed)
      BY <3>1 DEF Cbom
    <3>3. PythonFiles \ unparsed \in SUBSET PythonFiles
      OBVIOUS
    <3>4. IsFiniteSet(cbom'.uses)
      BY <3>2, <3>3, UsesFinite DEF StatementsInv
    <3> QED BY <2>2, <3>4 DEF StatementsInv, ScanTree
  <2>3. CASE CycloneDX \/ Publish \/ \E keys \in BOOLEAN : Vex(keys)
    BY <2>3 DEF StatementsInv, CycloneDX, Publish, Vex
  <2>4. CASE \E keys \in BOOLEAN, p \in Publishers : Csaf(keys, p)
    BY <2>4, ShownGrows
  <2>5. CASE UNCHANGED statementVars
    BY <2>5 DEF StatementsInv, statementVars
  <2> QED BY <2>1, <2>2, <2>3, <2>4, <2>5 DEF StatementsNext
<1>3. StatementsInv => EachWeakUseStatedOnce /\ IdNamesStatements
  BY EachIsStatedOnce
<1>4. LeavesThisRuns
  BY LeavesOwn
<1> QED BY <1>1, <1>2, <1>3, <1>4, PTL DEF StatementsSpec, StatedOnce
=============================================================================
