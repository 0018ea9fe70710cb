---------------------------- MODULE MCIssuanceLog ----------------------------
(***************************************************************************)
(* Three benches of IssuanceLog for TLC, with files of four values; a      *)
(* behaviour is one bench's.  "callers": two processes, no damage.         *)
(* "tiles": one call at a time, appends that run past a file, no damage.   *)
(* "damage": one call at a time, a file lost or spoiled at any moment.     *)
(* Each takes the requests whose logs are in a small set.                  *)
(***************************************************************************)
EXTENDS IssuanceLog, TLC

CONSTANTS t1, t2, x, y

VARIABLE bench

MCBatches == {<<x>>, <<y, x, y>>}

\* One entry and three, in any order: up to a full file.
Short == {<<>>, <<x>>, <<y, x, y>>, <<x, y, x, y>>, <<y, x, y, x>>}

\* ... and past one, which three entries can run over.
Long == Short \cup {<<x, x>>, <<x, x, y, x, y>>, <<x, y, x, y, x>>, <<y, x, y, x, x>>}

-----------------------------------------------------------------------------
BenchInit == Init /\ bench \in {"callers", "tiles", "damage"}

\* An append, once it has read the state, makes one of these logs; a read reads one.
OfLogs(logs) == \A t \in Threads : call'[t] # NoCall => call'[t].covers \in logs

\* The first entry is read, or the last one of a full file.
Ends == \A t \in Threads : call'[t] # NoCall => call'[t].index \in {0, 3}

\* Reads overlap with writes in "callers".
OneWriter ==
  /\ \A s, t \in Threads : pc'[s] # "idle" /\ pc'[t] # "idle" => s = t
  /\ \A t \in Threads : call'[t] # NoCall => call'[t].op \in {"create", "append"}

BenchNext ==
  /\ Next
  /\ UNCHANGED bench
  /\ bench = "callers" => OfLogs(Short) /\ Ends /\ damage' = 0
  /\ bench = "tiles" => OfLogs(Long) /\ OneWriter /\ damage' = 0
  /\ bench = "damage" => OfLogs(Short) /\ OneWriter

BenchSpec == BenchInit /\ [][BenchNext]_<<bench, vars>>

\* Two processes are interchangeable.
Symmetry == Permutations(Threads)
=============================================================================
