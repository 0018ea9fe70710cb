---------------------------- MODULE RestoredSigner ----------------------------
(***************************************************************************)
(* The key of SignerState under the hazard docs/SIGNING.md names: a copy   *)
(* of the key file that falls behind is put back.  The owner either obeys  *)
(* the documented procedure (Disciplined: nothing is running when the copy *)
(* is put back, and nothing signs before one advance by at least the       *)
(* signatures the lost file could have made) or does not.                  *)
(***************************************************************************)
EXTENDS SignerState

CONSTANTS Disciplined,   \* does the owner follow docs/SIGNING.md?
          MaxRestores    \* bound on the copies put back

VARIABLES copy,       \* a copy of the key file outside the program's reach
          owed,       \* leaves the restored key must be advanced by before it signs
          restores,   \* copies put back so far
          signed      \* history: per object, the index after the last leaf it signed with

restoreVars == <<copy, owed, restores, signed>>
rvars == <<vars, restoreVars>>

RestoredInit ==
  /\ Init
  /\ copy = NoFile /\ owed = 0 /\ restores = 0
  /\ signed = [h \in Handles |-> 0]

-----------------------------------------------------------------------------
\* The owner starts no sign while an advance is owed.
Obeys ==
  Disciplined /\ owed > 0 =>
    \A t \in Threads : pc[t] = "idle" /\ pc'[t] # "idle" => job'[t].op # "sign"

\* A write under one name leaves the old state under the other: it is a copy.
CopyAfter == IF linked /\ \E t \in Threads : pc[t] = "replace" /\ pc'[t] = "sync"
               THEN file ELSE copy

\* One advance by the owed count, returned from, settles the debt.
Settles(t) == /\ pc[t] = "sync" /\ pc'[t] = "done"
              /\ job[t].op = "advance" /\ job[t].arg >= owed

OwedAfter == IF \E t \in Threads : Settles(t) THEN 0 ELSE owed

SignedAfter(h) ==
  IF handle'[h] = NoHandle THEN 0
  ELSE IF \E t \in CallsOn(h) : pc[t] = "reveal" /\ pc'[t] = "done"
    THEN 1 + job[CHOOSE t \in CallsOn(h) : pc[t] = "reveal" /\ pc'[t] = "done"].leaf
    ELSE signed[h]

ProgramStep ==
  /\ Next /\ Obeys
  /\ copy' = CopyAfter
  /\ owed' = OwedAfter
  /\ signed' = [h \in Handles |-> SignedAfter(h)]
  /\ UNCHANGED restores

-----------------------------------------------------------------------------
TakeCopy ==
  /\ file \notin {NoFile, copy}
  /\ copy' = file
  /\ UNCHANGED <<vars, owed, restores, signed>>

\* What the copies in use could have signed since this one was taken.
MissedBy(key) == IF reserved[key.id] > key.next THEN reserved[key.id] - key.next ELSE 0

\* The owner puts the copy back and waits until it is on the disk.
Restore ==
  /\ copy \notin {NoFile, file} /\ restores < MaxRestores
  /\ Disciplined => \A t \in Threads : pc[t] = "idle"
  /\ file' = copy /\ durable' = copy /\ linked' = FALSE
  /\ owed' = MissedBy(copy)
  /\ restores' = restores + 1
  /\ UNCHANGED <<temps, lock, handle, tlock, pc, job, born, reserved, uses,
                 copy, signed>>

RestoredNext == ProgramStep \/ TakeCopy \/ Restore

RestoredSpec == RestoredInit /\ [][RestoredNext]_rvars

-----------------------------------------------------------------------------
(***************************************************************************)
(* With the documented procedure a restored key is as good as the one that *)
(* was lost: once nothing is owed, every leaf any signature ever used is   *)
(* spent in the file (docs/SIGNING.md: "it marks those leaves spent and    *)
(* saves that before anything else happens").                              *)
(***************************************************************************)
AdvanceRepairs == Disciplined /\ owed = 0 => SpentIn(file)

(***************************************************************************)
(* Whatever is put back under a live object, that object never signs with  *)
(* a leaf it, or one before it that it saw, has used ("signing state       *)
(* rolled back since this handle loaded").                                 *)
(***************************************************************************)
SignsForward ==
  \A t \in Threads : pc[t] = "reveal" /\ pc'[t] = "done" => job[t].leaf >= signed[job[t].h]

ObjectNeverReuses == [][SignsForward]_rvars
=============================================================================
