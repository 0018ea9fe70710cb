---------------------------- MODULE AppendOnlyLog ----------------------------
(***************************************************************************)
(* What an issuance log promises (docs/SIGNING.md, "Issuance log"): the    *)
(* entries under its signed checkpoint only grow, a batch at a time, and   *)
(* what an append that returned has entered is there after a power loss.   *)
(***************************************************************************)
EXTENDS Sequences

CONSTANT Batches   \* what one append enters: non-empty sequences of entries

VARIABLES history,   \* the entries the checkpoint covers
          kept       \* the entries the one a power loss would leave covers

Init == history = <<>> /\ kept = <<>>

Publish == /\ \E b \in Batches : history' = history \o b
           /\ UNCHANGED kept

Keep == kept' = history /\ UNCHANGED history

PowerLoss == history' = kept /\ UNCHANGED kept

Next == Publish \/ Keep \/ PowerLoss

Spec == Init /\ [][Next]_<<history, kept>>
=============================================================================
