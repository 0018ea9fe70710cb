------------------------------ MODULE OneTimeKey ------------------------------
(***************************************************************************)
(* What a stateful hash-based signing key promises (docs/SIGNING.md, "The  *)
(* key is stateful"): the index saved for an identity only rises, a leaf   *)
(* is saved as spent before its secret values go out, and each leaf signs  *)
(* at most once.  SignerState and LmsState implement it.                   *)
(***************************************************************************)
EXTENDS Naturals

CONSTANTS Ids, LeafCount

VARIABLES reserved,   \* per identity, the leaves below it are spent
          uses        \* per identity and leaf, the signatures it made

Leaves == 0..(LeafCount - 1)

Init == /\ reserved = [k \in Ids |-> 0]
        /\ uses = [k \in Ids |-> [i \in Leaves |-> 0]]

Reserve(k) ==
  /\ \E n \in 1..LeafCount : n > reserved[k] /\ reserved' = [reserved EXCEPT ![k] = n]
  /\ UNCHANGED uses

Sign(k) ==
  /\ \E i \in Leaves : /\ i < reserved[k]
                       /\ uses[k][i] = 0
                       /\ uses' = [uses EXCEPT ![k][i] = 1]
  /\ UNCHANGED reserved

Next == \E k \in Ids : Reserve(k) \/ Sign(k)

Spec == Init /\ [][Next]_<<reserved, uses>>
=============================================================================
