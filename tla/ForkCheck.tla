------------------------------- MODULE ForkCheck -------------------------------
(***************************************************************************)
(* Buyers who keep checkpoints and compare them (entrovouch/tlog.py,       *)
(* detect_fork).  An issuer signs with one key for several directories:    *)
(* one log, a copy of it put back or kept elsewhere and appended to, or    *)
(* another log under another origin.                                       *)
(***************************************************************************)
EXTENDS Merkle, SequencesExt

CONSTANTS Dirs, Origins, Entries,
          MaxLog,      \* bound on the entries of a log
          MaxHanded    \* bound on the checkpoints given out: two are compared

VARIABLES origin,   \* the origin each directory's log names
          log,      \* its entries
          handed,   \* the checkpoints given out, each with the entries it covers
          answer    \* the last comparison and its outcome

forkVars == <<origin, log, handed, answer>>

Hashes(entries) == [i \in 1..Len(entries) |-> leaf_hash(entries[i])]

\* What a checkpoint says of the entries it covers.
Checkpoint(c) == [origin |-> c.origin, size |-> Len(c.entries), root |-> MerkleRoot(Hashes(c.entries))]

NoAnswer == [result |-> "none"]

ForkInit ==
  /\ origin \in [Dirs -> Origins]
  /\ log = [d \in Dirs |-> <<>>]
  /\ handed = {}
  /\ answer = NoAnswer

AppendEntry(d, e) ==
  /\ Len(log[d]) < MaxLog
  /\ log' = [log EXCEPT ![d] = Append(@, e)]
  /\ answer' = NoAnswer
  /\ UNCHANGED <<origin, handed>>

HandOut(d) ==
  /\ Cardinality(handed) < MaxHanded
  /\ handed' = handed \cup {[origin |-> origin[d], entries |-> log[d]]}
  /\ answer' = NoAnswer
  /\ UNCHANGED <<origin, log>>

\* A copy of d's directory takes the place of c's.
PutBack(c, d) ==
  /\ origin[c] = origin[d]
  /\ log' = [log EXCEPT ![c] = log[d]]
  /\ answer' = NoAnswer
  /\ UNCHANGED <<origin, handed>>

\* consistency_proof of any directory that is long enough, or none.
Proofs(m, n) ==
  {NoProof} \cup {ConsistencyPath(Hashes(log[d]), m, n) : d \in {d \in Dirs : Len(log[d]) >= n}}

Compare(a, b) ==
  \E proof \in LET m == Len(a.entries)  n == Len(b.entries)
               IN Proofs(Min({m, n}), Max({m, n})) :
    /\ answer' = [a |-> a, b |-> b, proof |-> proof,
                  result |-> DetectFork(Checkpoint(a), Checkpoint(b), proof)]
    /\ UNCHANGED <<origin, log, handed>>

ForkNext ==
  \/ \E d \in Dirs : HandOut(d) \/ \E e \in Entries : AppendEntry(d, e)
  \/ \E c, d \in Dirs : PutBack(c, d)
  \/ \E a, b \in handed : Compare(a, b)

ForkSpec == ForkInit /\ [][ForkNext]_forkVars

-----------------------------------------------------------------------------
Extends(c, d) == IsPrefix(c.entries, d.entries) \/ IsPrefix(d.entries, c.entries)

(***************************************************************************)
(* A fork is reported, and consistency is confirmed, only when it is so:   *)
(* "True: the key signed two trees that cannot both be true", "False: they *)
(* are consistent" (detect_fork).                                          *)
(***************************************************************************)
AnswerIsTrue ==
  /\ answer.result = "fork" => ~Extends(answer.a, answer.b)
  /\ answer.result = "consistent" => Extends(answer.a, answer.b)

(***************************************************************************)
(* Two checkpoints of one history are never doubted by a buyer who has the *)
(* log's own proof between them, and two of one size always get an answer. *)
(***************************************************************************)
OwnProof(c, d) ==
  ConsistencyPath(Hashes(IF Len(c.entries) > Len(d.entries) THEN c.entries ELSE d.entries),
                  Min({Len(c.entries), Len(d.entries)}), Max({Len(c.entries), Len(d.entries)}))

OwnProofConvinces ==
  answer.result = "unknown" =>
    /\ Len(answer.a.entries) # Len(answer.b.entries)
    /\ Extends(answer.a, answer.b) => answer.proof # OwnProof(answer.a, answer.b)

\* Together: detect_fork says only what is so, and the log's own proof always convinces it.
ForksAreTold == AnswerIsTrue /\ OwnProofConvinces
=============================================================================
