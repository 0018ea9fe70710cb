------------------------------ MODULE MCRestored ------------------------------
(***************************************************************************)
(* Two small instances of RestoredSigner for TLC; a behaviour is one       *)
(* bench's.  "obeyed": two threads, one object, the documented advance is  *)
(* made (the .cfg gives its constants).  "rolled back": one call at once,  *)
(* two objects, two leaves; a copy is put back at any moment, and nothing  *)
(* is obeyed.  Its signatures are counted in `reused`, not in `uses`:      *)
(* leaves are used again there.                                            *)
(***************************************************************************)
EXTENDS RestoredSigner, TLC

CONSTANTS t1, t2, h1, h2

VARIABLES bench, reused

RolledBack == INSTANCE RestoredSigner WITH
  Handles <- {h1, h2}, LeafCount <- 2, Asked <- {NextUnused}, Counts <- {1},
  Disciplined <- FALSE, MaxRestores <- 1, uses <- reused

NoUses == [k \in Ids |-> [i \in Leaves |-> 0]]

BenchInit == \/ bench = "obeyed" /\ RestoredInit /\ reused = NoUses
             \/ bench = "rolled back" /\ RolledBack!RestoredInit /\ uses = NoUses

OneCall == \E t \in Threads : pc'[t] = "idle"

BenchNext == /\ UNCHANGED bench
             /\ \/ bench = "obeyed" /\ RestoredNext /\ UNCHANGED reused
                \/ bench = "rolled back" /\ RolledBack!RestoredNext /\ OneCall /\ UNCHANGED uses

\* OneTime and AdvanceRepairs speak of `uses`, so of "obeyed" only; ObjectNeverReuses of both.
BenchSpec == BenchInit /\ [][BenchNext]_<<bench, reused, rvars>>

\* Threads, and objects, are interchangeable; "obeyed" has one object, and no two states that differ by the exchange.
Symmetry == Permutations({t1, t2}) \cup Permutations({h1, h2})
=============================================================================
