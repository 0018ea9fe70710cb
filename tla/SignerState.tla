----------------------------- MODULE SignerState -----------------------------
(***************************************************************************)
(* entrovouch/signer.py: MerkleSigner, a signing identity of 2^h one-time  *)
(* leaves, used by several handles (one per process, on one key file or in *)
(* memory) and several threads.                                            *)
(*                                                                         *)
(* A call moves through the control points of sign, advance and create:    *)
(*   idle -> thread -> state -> check -> temp -> replace -> sync           *)
(*        -> reveal -> done | raise -> idle                                *)
(* Between any two of them another call runs, a process is killed, the     *)
(* power goes, or somebody touches the key file by hand.                   *)
(***************************************************************************)
EXTENDS StateIO

CONSTANTS Handles,      \* MerkleSigner objects, each in a process of its own
          Ids,          \* identities: a seed (and its height)
          LeafCount,    \* 2^height
          NextUnused,   \* the argument index=None of sign
          Asked,        \* the indices sign is called with, NextUnused among them
          Counts,       \* the counts advance is called with
          NoHandle, NoJob, NoId

ASSUME LeafAssumption == LeafCount \in Nat \ {0}
ASSUME ArgumentAssumption == NextUnused \notin Nat /\ NoId \notin Ids
ASSUME RequestAssumption == /\ Asked \subseteq 0..LeafCount \cup {NextUnused}
                            /\ Counts \subseteq 1..LeafCount

VARIABLES handle,     \* the object's identity, next_index and kind
          tlock,      \* holder of the object's _thread_lock
          pc, job,    \* control point and request of each call
          linked,     \* has the key file a second name (a hard link)?
          born,       \* history: identities generated so far
          reserved,   \* history: per identity, the highest index saved
          uses        \* history: per identity and leaf, signatures revealed

signerVars == <<handle, tlock, pc, job, linked, born, reserved, uses>>
vars == <<ioVars, signerVars>>

Leaves == 0..(LeafCount - 1)
Key == [id : Ids, next : 0..LeafCount]
Handle == [id : Ids, next : 0..LeafCount, kind : {"file", "memory"}]
Job == [op : {"sign", "advance", "create"}, h : Handles,
        arg : 0..LeafCount \cup {NextUnused},
        id : Ids \cup {NoId}, leaf : Leaves, old : 0..LeafCount]

\* The values that stand for nothing are none of the things they stand for.
ASSUME SlotAssumption == NoFile \notin Key /\ NoHandle \notin Handle /\ NoJob \notin Job

InFlight == {"thread", "state", "check", "temp", "replace", "sync", "reveal",
             "done", "raise"}

StateTypeOK ==
  /\ file \in Key \cup {NoFile}
  /\ durable \in Key \cup {NoFile}
  /\ temps \subseteq Threads \cup {Nobody}
  /\ lock \in Threads \cup {Nobody}
  /\ handle \in [Handles -> Handle \cup {NoHandle}]
  /\ tlock \in [Handles -> Threads \cup {Nobody}]
  /\ job \in [Threads -> Job \cup {NoJob}]
  /\ linked \in BOOLEAN
  /\ born \subseteq Ids
  /\ reserved \in [Ids -> 0..LeafCount]
  /\ uses \in [Ids -> [Leaves -> Nat]]

TypeOK == StateTypeOK /\ pc \in [Threads -> InFlight \cup {"idle"}]

Init ==
  /\ file = NoFile /\ durable = NoFile /\ temps = {} /\ lock = Nobody
  /\ handle = [h \in Handles |-> NoHandle]
  /\ tlock = [h \in Handles |-> Nobody]
  /\ pc = [t \in Threads |-> "idle"]
  /\ job = [t \in Threads |-> NoJob]
  /\ linked = FALSE
  /\ born = {}
  /\ reserved = [k \in Ids |-> 0]
  /\ uses = [k \in Ids |-> [i \in Leaves |-> 0]]

-----------------------------------------------------------------------------
(***************************************************************************)
(* Faults: the object's own index is believed instead of the file's        *)
(* (Latest), any key at the path is taken for this one (SameIdentity), a   *)
(* file behind the object is not noticed (SignReads), the bytes saved are  *)
(* those before the claim (Saved).                                         *)
(***************************************************************************)
LatestOfObject(h) == handle[h].next

AnyIdentity(h) == file # NoFile /\ ~linked

SignReadsBehind(h) ==
  \/ handle[h].kind = "memory"
  \/ file # NoFile /\ ~linked /\ file.id = handle[h].id

SavedBeforeClaim(t) == [id |-> job[t].id, next |-> job[t].old]

-----------------------------------------------------------------------------
(***************************************************************************)
(* What a call works on.                                                   *)
(***************************************************************************)
InMemory(h) == handle[h].kind = "memory"

Larger(a, b) == IF a < b THEN b ELSE a

\* Nobody calls on h: the slot may be given to a new object.
FreeSlot(h) == /\ handle[h] = NoHandle
               /\ \A t \in Threads : job[t] # NoJob => job[t].h # h

Goto(t, label) == pc' = [pc EXCEPT ![t] = label]

\* next_index of the state the call goes by: the file's, or the object's own.
Latest(h) == IF InMemory(h) THEN handle[h].next ELSE file.next

\* The checks of sign and advance on the key file: one name, this identity.
SameIdentity(h) ==
  /\ file # NoFile
  /\ ~linked
  /\ file.id = handle[h].id

\* sign also refuses a file behind this object.
SignReads(h) == InMemory(h) \/ (SameIdentity(h) /\ file.next >= handle[h].next)

AdvanceReads(h) == InMemory(h) \/ SameIdentity(h)

\* The bytes _save writes for the call.
Saved(t) == IF job[t].op = "create"
              THEN [id |-> job[t].id, next |-> 0]
              ELSE [id |-> job[t].id, next |-> handle[job[t].h].next]

\* Where a call continues once its reservation is kept.
AfterSave(t) == IF job[t].op = "sign" THEN "reveal" ELSE "done"

-----------------------------------------------------------------------------
(***************************************************************************)
(* Objects come and go.  load takes no lock: a replace is atomic.          *)
(***************************************************************************)
Open(h) ==
  /\ FreeSlot(h) /\ file # NoFile
  /\ handle' = [handle EXCEPT ![h] = [id |-> file.id, next |-> file.next, kind |-> "file"]]
  /\ UNCHANGED <<ioVars, tlock, pc, job, linked, born, reserved, uses>>

OpenMemory(h) ==
  /\ FreeSlot(h)
  /\ \E k \in Ids \ born :
       /\ born' = born \cup {k}
       /\ handle' = [handle EXCEPT ![h] = [id |-> k, next |-> 0, kind |-> "memory"]]
  /\ UNCHANGED <<ioVars, tlock, pc, job, linked, reserved, uses>>

-----------------------------------------------------------------------------
(***************************************************************************)
(* A call starts, and takes the locks in the order thread, state.          *)
(***************************************************************************)
Start(t, op, h, arg, id, label) ==
  /\ pc[t] = "idle"
  /\ job' = [job EXCEPT ![t] = [op |-> op, h |-> h, arg |-> arg, id |-> id,
                                leaf |-> 0, old |-> 0]]
  /\ Goto(t, label)
  /\ UNCHANGED <<ioVars, handle, tlock, linked, born, reserved, uses>>

SignCall(t, h, arg) ==
  handle[h] # NoHandle /\ Start(t, "sign", h, arg, handle[h].id, "thread")

AdvanceCall(t, h, count) ==
  handle[h] # NoHandle /\ Start(t, "advance", h, count, handle[h].id, "thread")

CreateCall(t, h) ==
  FreeSlot(h) /\ Start(t, "create", h, NextUnused, NoId, "state")

TakeThreadLock(t) ==
  /\ pc[t] = "thread"
  /\ tlock[job[t].h] = Nobody
  /\ tlock' = [tlock EXCEPT ![job[t].h] = t]
  /\ Goto(t, IF InMemory(job[t].h) THEN "check" ELSE "state")
  /\ UNCHANGED <<ioVars, handle, job, linked, born, reserved, uses>>

TakeStateLock(t) ==
  /\ pc[t] = "state"
  /\ TakeLock(t)
  /\ Goto(t, "check")
  /\ UNCHANGED <<file, durable, temps, handle, tlock, job, linked, born, reserved, uses>>

-----------------------------------------------------------------------------
(***************************************************************************)
(* The state is read, the request checked against it, and the new index    *)
(* set in the object.  A save in memory writes nothing and cannot fail.    *)
(***************************************************************************)
\* The leaf sign takes: the next unused one, or the one asked for.
Chosen(t) == IF job[t].arg = NextUnused THEN Latest(job[t].h) ELSE job[t].arg

\* Faults in Usable: one leaf past the last; reuse judged by a stale object.
UsablePastEnd(t) == Chosen(t) <= LeafCount /\ Chosen(t) >= Latest(job[t].h)

UsableByObject(t) == Chosen(t) < LeafCount /\ Chosen(t) >= handle[job[t].h].next

Usable(t) == Chosen(t) < LeafCount /\ Chosen(t) >= Latest(job[t].h)

\* The object's next_index becomes n; `from` is what a failed save returns it to.
Claim(t, n, from, leaf) ==
  LET h == job[t].h IN
  /\ handle' = [handle EXCEPT ![h].next = n]
  /\ job' = [job EXCEPT ![t].leaf = leaf, ![t].old = from]
  /\ Goto(t, IF InMemory(h) THEN AfterSave(t) ELSE "temp")
  /\ reserved' = IF InMemory(h) THEN [reserved EXCEPT ![job[t].id] = n] ELSE reserved
  /\ UNCHANGED <<ioVars, tlock, linked, born, uses>>

ReserveLeaf(t) ==
  /\ pc[t] = "check" /\ job[t].op = "sign"
  /\ SignReads(job[t].h) /\ Usable(t)
  /\ Claim(t, Chosen(t) + 1, Latest(job[t].h), Chosen(t))

\* The index is past the last leaf (KeyExhausted) or used (IndexReuse).
RefuseLeaf(t) ==
  /\ pc[t] = "check" /\ job[t].op = "sign"
  /\ SignReads(job[t].h) /\ ~Usable(t)
  /\ handle' = [handle EXCEPT ![job[t].h].next = Latest(job[t].h)]
  /\ Goto(t, "raise")
  /\ UNCHANGED <<ioVars, tlock, job, linked, born, reserved, uses>>

AdvanceFrom(h) == Larger(handle[h].next, Latest(h))

\* Fault in SpendLeaves: one leaf fewer than asked for.
SpendOneLess(t) ==
  LET from == AdvanceFrom(job[t].h) IN
  /\ pc[t] = "check" /\ job[t].op = "advance"
  /\ AdvanceReads(job[t].h)
  /\ from + job[t].arg <= LeafCount
  /\ Claim(t, from + job[t].arg - 1, from, 0)

SpendLeaves(t) ==
  LET from == AdvanceFrom(job[t].h) IN
  /\ pc[t] = "check" /\ job[t].op = "advance"
  /\ AdvanceReads(job[t].h)
  /\ from + job[t].arg <= LeafCount
  /\ Claim(t, from + job[t].arg, from, 0)

RefuseAdvance(t) ==
  LET from == AdvanceFrom(job[t].h) IN
  /\ pc[t] = "check" /\ job[t].op = "advance"
  /\ AdvanceReads(job[t].h)
  /\ from + job[t].arg > LeafCount
  /\ handle' = [handle EXCEPT ![job[t].h].next = from]
  /\ Goto(t, "raise")
  /\ UNCHANGED <<ioVars, tlock, job, linked, born, reserved, uses>>

\* Bound: an instance has finitely many seeds.
NoSeedLeft == Ids \ born = {}

\* No key file, a second name, another identity, or (sign) a file rolled back.
RefuseState(t) ==
  /\ pc[t] = "check"
  /\ \/ job[t].op = "sign" /\ ~SignReads(job[t].h)
     \/ job[t].op = "advance" /\ ~AdvanceReads(job[t].h)
     \/ job[t].op = "create" /\ (file # NoFile \/ NoSeedLeft)
  /\ Goto(t, "raise")
  /\ UNCHANGED <<ioVars, handle, tlock, job, linked, born, reserved, uses>>

NewIdentity(t) ==
  /\ pc[t] = "check" /\ job[t].op = "create"
  /\ file = NoFile
  /\ \E k \in Ids \ born :
       /\ born' = born \cup {k}
       /\ job' = [job EXCEPT ![t].id = k]
  /\ Goto(t, "temp")
  /\ UNCHANGED <<ioVars, handle, tlock, linked, reserved, uses>>

-----------------------------------------------------------------------------
(***************************************************************************)
(* _save: the temporary copy, the replace, the directory.  A failure at    *)
(* any of the three puts the object's next_index back and raises, whether  *)
(* or not the file has been replaced by then.                              *)
(***************************************************************************)
SaveTemp(t) ==
  /\ pc[t] = "temp"
  /\ WriteTemp(t)
  /\ Goto(t, "replace")
  /\ UNCHANGED <<file, durable, lock, handle, tlock, job, linked, born, reserved, uses>>

\* The name now has an inode of its own: a second name keeps the old state.
SaveReplace(t) ==
  /\ pc[t] = "replace"
  /\ Replace(t, Saved(t))
  /\ linked' = FALSE
  /\ Goto(t, "sync")
  /\ UNCHANGED <<durable, lock, handle, tlock, job, born, reserved, uses>>

SaveSync(t) ==
  /\ pc[t] = "sync"
  /\ SyncDirectory
  /\ reserved' = [reserved EXCEPT ![job[t].id] = Larger(@, Saved(t).next)]
  /\ Goto(t, AfterSave(t))
  /\ UNCHANGED <<file, temps, lock, handle, tlock, job, linked, born, uses>>

\* The object after a save that raised.
Undone(t) == IF job[t].op = "create"
               THEN handle
               ELSE [handle EXCEPT ![job[t].h].next = job[t].old]

\* Fault in SaveFails: the error is swallowed and the call goes on.
SaveErrorIgnored(t) ==
  /\ pc[t] \in {"temp", "replace", "sync"}
  /\ DropTemp(t)
  /\ Goto(t, AfterSave(t))
  /\ UNCHANGED <<file, durable, lock, handle, tlock, job, linked, born, reserved, uses>>

SaveFails(t) ==
  /\ pc[t] \in {"temp", "replace", "sync"}
  /\ DropTemp(t)
  /\ handle' = Undone(t)
  /\ Goto(t, "raise")
  /\ UNCHANGED <<file, durable, lock, tlock, job, linked, born, reserved, uses>>

\* A KeyboardInterrupt is no Exception: the temporary copy goes, next_index stays.
Interrupted(t) ==
  /\ pc[t] \in {"temp", "replace", "sync", "reveal"}
  /\ DropTemp(t)
  /\ Goto(t, "raise")
  /\ UNCHANGED <<file, durable, lock, handle, tlock, job, linked, born, reserved, uses>>

-----------------------------------------------------------------------------
(***************************************************************************)
(* The secret values of the leaf go out, and the call returns or raises    *)
(* through both `with` blocks.                                             *)
(***************************************************************************)
Reveal(t) ==
  /\ pc[t] = "reveal"
  /\ uses' = [uses EXCEPT ![job[t].id][job[t].leaf] = @ + 1]
  /\ Goto(t, "done")
  /\ UNCHANGED <<ioVars, handle, tlock, job, linked, born, reserved>>

\* create hands its object to the caller.
Created(t) ==
  IF job[t].op = "create" /\ pc[t] = "done"
    THEN [handle EXCEPT ![job[t].h] = [id |-> job[t].id, next |-> 0, kind |-> "file"]]
    ELSE handle

FreedThreadLock(t) ==
  [h \in Handles |-> IF tlock[h] = t THEN Nobody ELSE tlock[h]]

Return(t) ==
  /\ pc[t] \in {"done", "raise"}
  /\ ReleaseLock(t)
  /\ tlock' = FreedThreadLock(t)
  /\ handle' = Created(t)
  /\ job' = [job EXCEPT ![t] = NoJob]
  /\ Goto(t, "idle")
  /\ UNCHANGED <<file, durable, temps, linked, born, reserved, uses>>

-----------------------------------------------------------------------------
(***************************************************************************)
(* What happens around the program: its processes are killed, the power    *)
(* goes, and the owner of the key gives it a second name or removes it.    *)
(***************************************************************************)
CallsOn(h) == {t \in Threads : job[t] # NoJob /\ job[t].h = h}

Forget(hs, ts) ==
  /\ handle' = [h \in Handles |-> IF h \in hs THEN NoHandle ELSE handle[h]]
  /\ tlock' = [h \in Handles |-> IF h \in hs THEN Nobody ELSE tlock[h]]
  /\ pc' = [t \in Threads |-> IF t \in ts THEN "idle" ELSE pc[t]]
  /\ job' = [t \in Threads |-> IF t \in ts THEN NoJob ELSE job[t]]

Crash(h) ==
  /\ ~FreeSlot(h)
  /\ Forget({h}, CallsOn(h))
  /\ KillIO(CallsOn(h))
  /\ UNCHANGED <<linked, born, reserved, uses>>

PowerLoss ==
  /\ Forget(Handles, Threads)
  /\ PowerLossIO
  /\ linked' \in {FALSE, file' # NoFile}
  /\ UNCHANGED <<born, reserved, uses>>

Link ==
  /\ file # NoFile /\ linked' = ~linked
  /\ UNCHANGED <<ioVars, handle, tlock, pc, job, born, reserved, uses>>

RemoveKey ==
  /\ file # NoFile /\ file' = NoFile /\ linked' = FALSE
  /\ UNCHANGED <<durable, temps, lock, handle, tlock, pc, job, born, reserved, uses>>

-----------------------------------------------------------------------------
\* The steps a call takes by itself once it is started.
Waits(t) == TakeThreadLock(t) \/ TakeStateLock(t)

Runs(t) ==
  \/ ReserveLeaf(t) \/ RefuseLeaf(t)
  \/ SpendLeaves(t) \/ RefuseAdvance(t)
  \/ RefuseState(t) \/ NewIdentity(t)
  \/ SaveTemp(t) \/ SaveReplace(t) \/ SaveSync(t)
  \/ SaveFails(t) \/ Interrupted(t)
  \/ Reveal(t) \/ Return(t)

Calls(t, h) ==
  \/ \E arg \in Asked : SignCall(t, h, arg)
  \/ \E count \in Counts : AdvanceCall(t, h, count)
  \/ CreateCall(t, h)

Environment ==
  \/ \E h \in Handles : Open(h) \/ OpenMemory(h) \/ Crash(h)
  \/ PowerLoss \/ Link \/ RemoveKey

Next ==
  \/ \E t \in Threads : \/ \E h \in Handles : Calls(t, h)
                        \/ Waits(t)
                        \/ Runs(t)
  \/ Environment

Spec == Init /\ [][Next]_vars

\* A thread that holds what it needs is scheduled; flock hands its lock out to
\* nobody in particular.
FairSpec == Spec /\ \A t \in Threads : WF_vars(Runs(t))

-----------------------------------------------------------------------------
(***************************************************************************)
(* Each one-time leaf of each identity signs at most once, whatever calls  *)
(* interleave and wherever processes die (sign: "reuse raises rather than  *)
(* silently degrading the key to forgeable").                              *)
(***************************************************************************)
OneTime == \A k \in Ids, i \in Leaves : uses[k][i] <= 1

(***************************************************************************)
(* A leaf whose secret values are out is spent in the key file that is     *)
(* there now and in the one a power loss would leave (_sign_reserved:      *)
(* "reserve the index on disk before revealing any secret material").      *)
(***************************************************************************)
SpentIn(f) == f # NoFile => \A i \in Leaves : uses[f.id][i] > 0 => i < f.next

SpentOnDisk == SpentIn(file) /\ SpentIn(durable)

(***************************************************************************)
(* No writer removes the temporary copy of a live one: the copy a call is  *)
(* about to rename is there (remove_stale_temps: "no live writer can own   *)
(* one then").                                                             *)
(***************************************************************************)
LiveTempKept == \A t \in Threads : pc[t] = "replace" => t \in temps

(***************************************************************************)
(* The copies of the seed that killed signers left behind are gone by the  *)
(* time a later save replaces the key file, unless unlinking them fails    *)
(* (docs/SIGNING.md: "removed the next time the key signs").               *)
(***************************************************************************)
SeedCopiesCleared ==
  [][(\E t \in Threads : SaveReplace(t)) /\ ~UnlinkFails => temps' = {}]_vars

(***************************************************************************)
(* A key file is never replaced by another identity nor by a lower index   *)
(* of its own, but for a power loss that undoes an unsynced rename         *)
(* (create: "refusing to overwrite a signing key").                        *)
(***************************************************************************)
Follows(old, new) == new.id = old.id /\ new.next >= old.next

FileForward ==
  [][file # NoFile /\ file' \notin {NoFile, durable} => Follows(file, file')]_vars

(***************************************************************************)
(* Signatures of one identity go out in leaf order: no leaf is used after  *)
(* a higher one.                                                           *)
(***************************************************************************)
LeafOrder ==
  [][\A k \in Ids : \A i \in Leaves :
       uses'[k][i] > uses[k][i] => \A j \in Leaves : j > i => uses[k][j] = 0]_vars

(***************************************************************************)
(* The detailed signer implements the abstract one-time key.               *)
(***************************************************************************)
OTK == INSTANCE OneTimeKey WITH Ids <- Ids, LeafCount <- LeafCount, reserved <- reserved, uses <- uses
ImplementsOneTimeKey == OTK!Spec

(***************************************************************************)
(* A held state lock is given back, also by a call that raises, is killed  *)
(* or finds the disk full: one stuck signer does not stop the others.      *)
(***************************************************************************)
LockReleased == \A t \in Threads : lock = t ~> lock # t
=============================================================================
