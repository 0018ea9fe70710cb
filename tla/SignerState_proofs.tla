------------------------- MODULE SignerState_proofs -------------------------
(***************************************************************************)
(* Theorems about SignerState, for every number of threads, objects,       *)
(* identities and leaves.                                                  *)
(***************************************************************************)
EXTENDS SignerState, TLAPS

-----------------------------------------------------------------------------
Busy(t) == pc[t] # "idle"

\* The call works on the key file, not in memory.
OnFile(t) == job[t].op = "create" \/ handle[job[t].h].kind = "file"

Critical == {"check", "temp", "replace", "sync", "reveal", "done", "raise"}
Saving == {"temp", "replace", "sync"}

(***************************************************************************)
(* A call has its object: a sign or an advance works on the identity it    *)
(* was called for, a create fills a slot nobody else uses.                 *)
(***************************************************************************)
CallHasObject ==
  \A t \in Threads :
    IF Busy(t)
      THEN /\ job[t] \in Job
           /\ job[t].op = "create" => handle[job[t].h] = NoHandle
           /\ job[t].op # "create" => /\ handle[job[t].h] \in Handle
                                      /\ job[t].id = handle[job[t].h].id
           /\ job[t].op = "advance" => job[t].arg \in 1..LeafCount
           /\ job[t].op = "create" /\ pc[t] \in Saving \cup {"done"} => job[t].id \in Ids
      ELSE job[t] = NoJob

CreateIsAlone ==
  \A s, t \in Threads :
    s # t /\ Busy(s) /\ Busy(t) /\ job[s].h = job[t].h => job[t].op # "create"

(***************************************************************************)
(* Where a call is tells which locks it holds.                             *)
(***************************************************************************)
CallHoldsLocks ==
  \A t \in Threads : Busy(t) =>
    /\ pc[t] # "thread" /\ job[t].op # "create" => tlock[job[t].h] = t
    /\ pc[t] \in Critical /\ OnFile(t) => lock = t
    /\ pc[t] \in Saving \cup {"state"} => OnFile(t)
    /\ job[t].op = "create" => pc[t] \notin {"thread", "reveal"}
    /\ pc[t] = "reveal" => job[t].op = "sign"

CInv == TypeOK /\ CallHasObject /\ CreateIsAlone /\ CallHoldsLocks

LEMMA CInit == Init => CInv
<1> SUFFICES ASSUME Init PROVE CInv
  OBVIOUS
<1> USE DEF Init
<1>1. 0 \in 0..LeafCount
  BY LeafAssumption
<1>2. TypeOK
  BY <1>1 DEF TypeOK, StateTypeOK
<1>3. CallHasObject /\ CreateIsAlone /\ CallHoldsLocks
  BY DEF CallHasObject, CreateIsAlone, CallHoldsLocks, Busy
<1> QED BY <1>2, <1>3 DEF CInv

LEMMA StartStep ==
  ASSUME CInv, NEW t \in Threads, NEW op, NEW h \in Handles, NEW arg, NEW id, NEW label,
         Start(t, op, h, arg, id, label),
         op \in {"sign", "advance", "create"},
         arg \in 0..LeafCount \cup {NextUnused},
         op = "advance" => arg \in 1..LeafCount,
         label = IF op = "create" THEN "state" ELSE "thread",
         IF op = "create" THEN FreeSlot(h) /\ id = NoId
                          ELSE handle[h] # NoHandle /\ id = handle[h].id
  PROVE  CInv'
<1> DEFINE new == [op |-> op, h |-> h, arg |-> arg, id |-> id, leaf |-> 0, old |-> 0]
<1> USE DEF CInv, Start, Goto
<1>1. op # "create" => handle[h] \in Handle /\ handle[h].id \in Ids
  BY DEF TypeOK, StateTypeOK, Handle
<1>2. 0 \in Leaves /\ 0 \in 0..LeafCount
  BY LeafAssumption DEF Leaves
<1>3. new \in Job
  BY <1>1, <1>2 DEF Job
<1>4. job' = [job EXCEPT ![t] = new] /\ job'[t] = new
  BY DEF TypeOK, StateTypeOK
<1>5. TypeOK'
  BY <1>3, <1>4 DEF TypeOK, StateTypeOK, InFlight, ioVars
<1>6. CallHasObject'
  BY <1>1, <1>3, <1>4 DEF TypeOK, StateTypeOK, CallHasObject, Busy, FreeSlot, Saving
<1>7. CreateIsAlone'
  BY <1>1, <1>4, SlotAssumption DEF TypeOK, StateTypeOK, CallHasObject, CreateIsAlone, Busy, FreeSlot
<1>8. CallHoldsLocks'
  BY <1>1, <1>4 DEF TypeOK, StateTypeOK, CallHoldsLocks, Busy, OnFile, Critical, Saving, ioVars
<1> QED BY <1>5, <1>6, <1>7, <1>8

(***************************************************************************)
(* A call that holds its locks moves on without giving them back.          *)
(***************************************************************************)
SameObjects ==
  \A h \in Handles : IF handle[h] = NoHandle
                       THEN handle'[h] = NoHandle
                       ELSE /\ handle'[h] \in Handle
                            /\ handle'[h].id = handle[h].id
                            /\ handle'[h].kind = handle[h].kind

SameRequest(t) ==
  /\ job'[t] \in Job
  /\ job'[t].op = job[t].op /\ job'[t].h = job[t].h /\ job'[t].arg = job[t].arg
  /\ job[t].op # "create" => job'[t].id = job[t].id
  /\ \A s \in Threads \ {t} : job'[s] = job[s]

LEMMA MoveStep ==
  ASSUME CInv, NEW t \in Threads, NEW label, pc[t] \in Critical, label \in Critical,
         Goto(t, label), SameObjects, SameRequest(t), UNCHANGED <<lock, tlock>>,
         label \in Saving => OnFile(t),
         label = "reveal" => job[t].op = "sign",
         job[t].op = "create" /\ label \in Saving \cup {"done"} => job'[t].id \in Ids
  PROVE  CallHasObject' /\ CreateIsAlone' /\ CallHoldsLocks'
<1> USE DEF CInv, Goto, SameObjects, SameRequest
<1>1. /\ pc' \in [Threads -> InFlight \cup {"idle"}]
      /\ pc'[t] = label /\ \A s \in Threads \ {t} : pc'[s] = pc[s]
      /\ Busy(t) /\ Busy(t)'
  BY DEF TypeOK, StateTypeOK, Critical, InFlight, Busy
<1>2. \A s \in Threads : Busy(s)' <=> Busy(s)
  BY <1>1 DEF Busy
<1>3. \A s \in Threads : Busy(s) => /\ job'[s] \in Job /\ job'[s].h \in Handles
                                    /\ job'[s].op = job[s].op /\ job'[s].h = job[s].h
                                    /\ job'[s].arg = job[s].arg
                                    /\ job'[s].op # "create" => job'[s].id = job[s].id
  BY <1>1 DEF CallHasObject, Job
<1>4. CallHasObject'
  BY <1>1, <1>2, <1>3, SlotAssumption DEF CallHasObject, Saving
<1>5. CreateIsAlone'
  BY <1>1, <1>2, <1>3 DEF CreateIsAlone
<1>6. \A s \in Threads : Busy(s) => (OnFile(s)' <=> OnFile(s))
  BY <1>3, SlotAssumption DEF OnFile, CallHasObject
<1>7. CallHoldsLocks'
  BY <1>1, <1>2, <1>3, <1>6 DEF CallHoldsLocks, Critical, Saving
<1> QED BY <1>4, <1>5, <1>7

LEMMA ObjectOf ==
  ASSUME CInv, NEW t \in Threads, Busy(t)
  PROVE  /\ job[t] \in Job /\ job[t].h \in Handles
         /\ job[t].op # "create" => /\ handle[job[t].h] \in Handle
                                    /\ job[t].id = handle[job[t].h].id
         /\ job[t].op = "create" => handle[job[t].h] = NoHandle
         /\ job[t].op = "advance" => job[t].arg \in 1..LeafCount
         /\ pc[t] \in Saving \cup {"done"} => job[t].id \in Ids
  BY DEF CInv, CallHasObject, Job, Handle

LEMMA KeepObjects == TypeOK /\ UNCHANGED handle => SameObjects
  BY DEF TypeOK, StateTypeOK, SameObjects

LEMMA KeepRequest ==
  ASSUME CInv, NEW t \in Threads, Busy(t), UNCHANGED job PROVE SameRequest(t)
  BY ObjectOf DEF SameRequest

LEMMA SetNext ==
  ASSUME CInv, NEW h \in Handles, handle[h] \in Handle, NEW n \in 0..LeafCount,
         handle' = [handle EXCEPT ![h].next = n]
  PROVE  /\ SameObjects
         /\ handle' \in [Handles -> Handle \cup {NoHandle}]
         /\ handle'[h] = [id |-> handle[h].id, next |-> n, kind |-> handle[h].kind]
         /\ \A g \in Handles \ {h} : handle'[g] = handle[g]
<1>1. [handle[h] EXCEPT !.next = n] = [id |-> handle[h].id, next |-> n, kind |-> handle[h].kind]
  BY DEF Handle
<1>2. [handle[h] EXCEPT !.next = n] \in Handle
  BY DEF Handle
<1> QED BY <1>1, <1>2, SlotAssumption DEF CInv, TypeOK, StateTypeOK, SameObjects

\* The index a call goes by, and the one it claims, are indices of the tree.
LEMMA LatestType ==
  ASSUME CInv, NEW t \in Threads, Busy(t), job[t].op # "create",
         AdvanceReads(job[t].h)
  PROVE  Latest(job[t].h) \in 0..LeafCount /\ AdvanceFrom(job[t].h) \in 0..LeafCount
<1>1. handle[job[t].h] \in Handle /\ handle[job[t].h].next \in 0..LeafCount
  BY ObjectOf DEF Handle
<1>2. file # NoFile => file.next \in 0..LeafCount
  BY DEF CInv, TypeOK, StateTypeOK, Key
<1> QED BY <1>1, <1>2 DEF Latest, AdvanceReads, SameIdentity, InMemory, AdvanceFrom, Larger

LEMMA ClaimStep ==
  ASSUME CInv, NEW t \in Threads, pc[t] = "check", job[t].op \in {"sign", "advance"},
         NEW n \in 0..LeafCount, NEW from \in 0..LeafCount, NEW leaf \in Leaves,
         Claim(t, n, from, leaf)
  PROVE  CInv'
<1> USE DEF Claim
<1>1. Busy(t) /\ job[t].op # "create" /\ pc[t] \in Critical
  BY DEF Busy, Critical
<1>2. /\ job[t] \in Job /\ job[t].h \in Handles /\ handle[job[t].h] \in Handle
      /\ job[t].id \in Ids
  BY <1>1, ObjectOf DEF Handle
<1>3. /\ SameObjects
      /\ handle' \in [Handles -> Handle \cup {NoHandle}]
  BY <1>2, SetNext
<1>4. job'[t] = [job[t] EXCEPT !.leaf = leaf, !.old = from] /\ job'[t] \in Job
  BY <1>2 DEF CInv, TypeOK, StateTypeOK, Job
<1>5. SameRequest(t)
  BY <1>2, <1>4 DEF SameRequest, CInv, TypeOK, StateTypeOK, Job
<1> DEFINE label == IF InMemory(job[t].h) THEN AfterSave(t) ELSE "temp"
<1>6. /\ label \in Critical
      /\ label \in Saving => OnFile(t)
      /\ label = "reveal" => job[t].op = "sign"
  BY <1>1, <1>2 DEF Critical, Saving, AfterSave, OnFile, InMemory, Handle
<1>7. CallHasObject' /\ CreateIsAlone' /\ CallHoldsLocks'
  BY <1>1, <1>3, <1>5, <1>6, MoveStep DEF ioVars
<1>8. TypeOK'
  BY <1>2, <1>3, <1>4, <1>6 DEF CInv, TypeOK, StateTypeOK, ioVars, Goto, InFlight, Critical, Saving
<1> QED BY <1>7, <1>8 DEF CInv

LEMMA ReserveStep ==
  ASSUME CInv, NEW t \in Threads, ReserveLeaf(t) \/ SpendLeaves(t)
  PROVE  CInv'
<1>1. Busy(t) /\ pc[t] = "check"
  BY DEF ReserveLeaf, SpendLeaves, Busy
<1>2. job[t] \in Job
  BY <1>1, ObjectOf
<1>3. CASE ReserveLeaf(t)
  <2>1. Latest(job[t].h) \in 0..LeafCount
    BY <1>1, <1>3, LatestType DEF ReserveLeaf, SignReads, AdvanceReads
  <2>2. Chosen(t) \in Leaves /\ Chosen(t) + 1 \in 0..LeafCount
    BY <1>2, <1>3, <2>1, LeafAssumption, ArgumentAssumption
    DEF ReserveLeaf, Usable, Chosen, Leaves, Job
  <2> QED BY <1>3, <2>1, <2>2, ClaimStep DEF ReserveLeaf
<1>4. CASE SpendLeaves(t)
  <2> DEFINE from == AdvanceFrom(job[t].h)
  <2>1. from \in 0..LeafCount
    BY <1>1, <1>4, LatestType DEF SpendLeaves
  <2>2. from + job[t].arg \in 0..LeafCount
    BY <1>1, <1>4, <2>1, ObjectOf, LeafAssumption DEF SpendLeaves
  <2>3. 0 \in Leaves
    BY LeafAssumption DEF Leaves
  <2>4. Claim(t, from + job[t].arg, from, 0) /\ job[t].op = "advance"
    BY <1>4 DEF SpendLeaves
  <2> QED BY <1>1, <2>1, <2>2, <2>3, <2>4, ClaimStep
<1> QED BY <1>3, <1>4

LEMMA RefuseStep ==
  ASSUME CInv, NEW t \in Threads, RefuseLeaf(t) \/ RefuseAdvance(t) \/ RefuseState(t)
  PROVE  CInv'
<1>1. Busy(t) /\ pc[t] = "check" /\ pc[t] \in Critical /\ Goto(t, "raise")
  BY DEF RefuseLeaf, RefuseAdvance, RefuseState, Busy, Critical
<1>2. job[t] \in Job /\ job[t].h \in Handles
  BY <1>1, ObjectOf
<1>3. SameObjects /\ handle' \in [Handles -> Handle \cup {NoHandle}]
  <2>1. CASE RefuseState(t)
    BY <2>1, KeepObjects DEF CInv, TypeOK, StateTypeOK, RefuseState
  <2>2. CASE RefuseLeaf(t)
    <3>1. Latest(job[t].h) \in 0..LeafCount /\ handle[job[t].h] \in Handle
      BY <1>1, <2>2, LatestType, ObjectOf DEF RefuseLeaf, SignReads, AdvanceReads
    <3> QED BY <1>2, <2>2, <3>1, SetNext DEF RefuseLeaf
  <2>3. CASE RefuseAdvance(t)
    <3>1. AdvanceFrom(job[t].h) \in 0..LeafCount /\ handle[job[t].h] \in Handle
      BY <1>1, <2>3, LatestType, ObjectOf DEF RefuseAdvance
    <3> QED BY <1>2, <2>3, <3>1, SetNext DEF RefuseAdvance
  <2> QED BY <2>1, <2>2, <2>3
<1>4. UNCHANGED <<ioVars, tlock, job, linked, born, reserved, uses>>
  BY DEF RefuseLeaf, RefuseAdvance, RefuseState
<1>5. CallHasObject' /\ CreateIsAlone' /\ CallHoldsLocks'
  BY <1>1, <1>3, <1>4, KeepRequest, MoveStep DEF ioVars, Critical, Saving
<1>6. TypeOK'
  BY <1>1, <1>3, <1>4 DEF CInv, TypeOK, StateTypeOK, ioVars, Goto, InFlight
<1> QED BY <1>5, <1>6 DEF CInv

LEMMA SaveStep ==
  ASSUME CInv, NEW t \in Threads,
         \/ NewIdentity(t) \/ SaveTemp(t) \/ SaveReplace(t) \/ SaveSync(t)
         \/ SaveFails(t) \/ Interrupted(t) \/ Reveal(t)
  PROVE  CInv'
<1>1. Busy(t) /\ pc[t] \in Critical
  BY DEF NewIdentity, SaveTemp, SaveReplace, SaveSync, SaveFails, Interrupted, Reveal, Busy, Critical
<1>2. job[t] \in Job /\ job[t].h \in Handles
  BY <1>1, ObjectOf
<1>3. PICK label \in Critical : /\ Goto(t, label)
                                /\ label \in Saving => OnFile(t)
                                /\ label = "reveal" => job[t].op = "sign"
                                /\ label \in Saving \cup {"done"} /\ ~NewIdentity(t)
                                     => pc[t] \in Saving \cup {"reveal"}
  <2>1. pc[t] \in Saving => OnFile(t)
    BY <1>1 DEF CInv, CallHoldsLocks
  <2> QED BY <2>1 DEF NewIdentity, SaveTemp, SaveReplace, SaveSync, SaveFails, Interrupted, Reveal,
                      AfterSave, Critical, Saving, OnFile
<1>4. SameObjects /\ handle' \in [Handles -> Handle \cup {NoHandle}]
  <2>1. CASE SaveFails(t) /\ job[t].op # "create"
    <3>1. handle[job[t].h] \in Handle /\ job[t].old \in 0..LeafCount
      BY <1>1, <1>2, <2>1, ObjectOf DEF Job
    <3> QED BY <1>2, <2>1, <3>1, SetNext DEF SaveFails, Undone
  <2>2. CASE ~(SaveFails(t) /\ job[t].op # "create")
    <3>1. UNCHANGED handle
      BY <2>2 DEF NewIdentity, SaveTemp, SaveReplace, SaveSync, SaveFails, Interrupted, Reveal, Undone
    <3> QED BY <3>1, KeepObjects DEF CInv, TypeOK, StateTypeOK
  <2> QED BY <2>1, <2>2
<1>5. SameRequest(t) /\ job' \in [Threads -> Job \cup {NoJob}]
  <2>1. CASE NewIdentity(t)
    <3>1. PICK k \in Ids : job' = [job EXCEPT ![t].id = k] /\ job[t].op = "create"
      BY <2>1 DEF NewIdentity
    <3>2. [job[t] EXCEPT !.id = k] \in Job
      BY <1>2 DEF Job
    <3> QED BY <1>2, <3>1, <3>2 DEF SameRequest, CInv, TypeOK, StateTypeOK, Job
  <2>2. CASE ~NewIdentity(t)
    <3>1. UNCHANGED job
      BY <2>2 DEF SaveTemp, SaveReplace, SaveSync, SaveFails, Interrupted, Reveal
    <3> QED BY <1>1, <3>1, KeepRequest DEF CInv, TypeOK, StateTypeOK
  <2> QED BY <2>1, <2>2
<1>6. UNCHANGED <<lock, tlock>>
  BY DEF NewIdentity, SaveTemp, SaveReplace, SaveSync, SaveFails, Interrupted, Reveal, ioVars
<1>7. job[t].op = "create" /\ label \in Saving \cup {"done"} => job'[t].id \in Ids
  <2>1. CASE NewIdentity(t)
    BY <1>2, <2>1 DEF NewIdentity, CInv, TypeOK, StateTypeOK, Job
  <2>2. CASE ~NewIdentity(t)
    <3>1. UNCHANGED job
      BY <2>2 DEF SaveTemp, SaveReplace, SaveSync, SaveFails, Interrupted, Reveal
    <3>2. job[t].op = "create" => pc[t] # "reveal"
      BY <1>1 DEF CInv, CallHoldsLocks
    <3> QED BY <1>1, <1>3, <2>2, <3>1, <3>2, ObjectOf
  <2> QED BY <2>1, <2>2
<1>8. CallHasObject' /\ CreateIsAlone' /\ CallHoldsLocks'
  BY <1>1, <1>3, <1>4, <1>5, <1>6, <1>7, MoveStep
<1>9. pc[t] \in Saving => Saved(t) \in Key
  BY <1>1, ObjectOf, LeafAssumption DEF Saved, Key, Handle
<1>10. /\ file' \in Key \cup {NoFile} /\ durable' \in Key \cup {NoFile}
       /\ temps' \subseteq Threads \cup {Nobody}
  <2>1. CASE SaveTemp(t)
    BY <2>1 DEF CInv, TypeOK, StateTypeOK, SaveTemp, WriteTemp, StaleLeft
  <2>2. CASE SaveReplace(t)
    BY <1>9, <2>2 DEF CInv, TypeOK, StateTypeOK, SaveReplace, Replace, Saving
  <2>3. CASE SaveSync(t)
    BY <2>3 DEF CInv, TypeOK, StateTypeOK, SaveSync, SyncDirectory
  <2>4. CASE NewIdentity(t) \/ SaveFails(t) \/ Interrupted(t) \/ Reveal(t)
    BY <2>4 DEF CInv, TypeOK, StateTypeOK, NewIdentity, SaveFails, Interrupted, Reveal, ioVars, DropTemp
  <2> QED BY <2>1, <2>2, <2>3, <2>4
<1>11. linked' \in BOOLEAN /\ born' \subseteq Ids
  BY DEF CInv, TypeOK, StateTypeOK, NewIdentity, SaveTemp, SaveReplace, SaveSync, SaveFails,
          Interrupted, Reveal
<1>12. reserved' \in [Ids -> 0..LeafCount]
  <2>1. CASE SaveSync(t)
    <3>1. Saved(t).next \in 0..LeafCount
      BY <1>9, <2>1 DEF SaveSync, Saving, Key
    <3> QED BY <2>1, <3>1 DEF CInv, TypeOK, StateTypeOK, SaveSync, Larger
  <2>2. CASE ~SaveSync(t)
    BY <2>2 DEF CInv, TypeOK, StateTypeOK, NewIdentity, SaveTemp, SaveReplace, SaveFails, Interrupted,
                Reveal
  <2> QED BY <2>1, <2>2
<1>13. uses' \in [Ids -> [Leaves -> Nat]]
  <2>1. CASE Reveal(t)
    <3>1. job[t].id \in Ids /\ job[t].leaf \in Leaves
      BY <1>1, <1>2, <2>1, ObjectOf DEF Reveal, CInv, CallHoldsLocks, Job, Handle
    <3>2. uses[job[t].id] \in [Leaves -> Nat]
      BY <3>1 DEF CInv, TypeOK, StateTypeOK
    <3>3. [uses[job[t].id] EXCEPT ![job[t].leaf] = @ + 1] \in [Leaves -> Nat]
      BY <3>1, <3>2
    <3> QED BY <2>1, <3>1, <3>3 DEF Reveal, CInv, TypeOK, StateTypeOK
  <2>2. CASE ~Reveal(t)
    BY <2>2 DEF CInv, TypeOK, StateTypeOK, NewIdentity, SaveTemp, SaveReplace, SaveSync, SaveFails,
                Interrupted
  <2> QED BY <2>1, <2>2
<1>14. pc' \in [Threads -> InFlight \cup {"idle"}]
  BY <1>3 DEF CInv, TypeOK, Goto, InFlight, Critical
<1>15. TypeOK'
  BY <1>4, <1>5, <1>6, <1>10, <1>11, <1>12, <1>13, <1>14 DEF CInv, TypeOK, StateTypeOK
<1> QED BY <1>8, <1>15 DEF CInv

LEMMA WaitStep ==
  ASSUME CInv, NEW t \in Threads, Waits(t)
  PROVE  CInv'
<1>1. Busy(t) /\ job[t] \in Job /\ job[t].h \in Handles
  BY ObjectOf DEF Waits, TakeThreadLock, TakeStateLock, Busy
<1>2. CASE TakeThreadLock(t)
  <2>1. job[t].op # "create" /\ handle[job[t].h] \in Handle
    BY <1>1, <1>2, ObjectOf DEF TakeThreadLock, CInv, CallHoldsLocks
  <2>2. InMemory(job[t].h) \/ OnFile(t)
    BY <2>1 DEF InMemory, OnFile, Handle
  <2>3. TypeOK'
    BY <1>1, <1>2 DEF TakeThreadLock, CInv, TypeOK, StateTypeOK, Goto, InFlight, ioVars
  <2>4. CallHasObject' /\ CreateIsAlone'
    BY <1>1, <1>2, <2>1
    DEF TakeThreadLock, CInv, TypeOK, StateTypeOK, CallHasObject, CreateIsAlone, Busy, Goto, InFlight
  <2>5. CallHoldsLocks'
    BY <1>1, <1>2, <2>1, <2>2, NobodyAssumption
    DEF TakeThreadLock, CInv, TypeOK, StateTypeOK, CallHasObject, CallHoldsLocks, Busy, Goto, Critical,
        Saving, OnFile, InMemory, Job, ioVars
  <2> QED BY <2>3, <2>4, <2>5 DEF CInv
<1>3. CASE TakeStateLock(t)
  <2>1. TypeOK'
    BY <1>1, <1>3 DEF TakeStateLock, TakeLock, CInv, TypeOK, StateTypeOK, Goto, InFlight
  <2>2. CallHasObject' /\ CreateIsAlone'
    BY <1>1, <1>3
    DEF TakeStateLock, CInv, TypeOK, StateTypeOK, CallHasObject, CreateIsAlone, Busy, Goto, InFlight, Saving
  <2>3. CallHoldsLocks'
    BY <1>1, <1>3, NobodyAssumption
    DEF TakeStateLock, TakeLock, CInv, TypeOK, StateTypeOK, CallHoldsLocks, Busy, Goto, Critical,
        Saving, OnFile
  <2> QED BY <2>1, <2>2, <2>3 DEF CInv
<1> QED BY <1>2, <1>3 DEF Waits

(***************************************************************************)
(* A call gives its locks back: by returning, or (an LMS key) before it    *)
(* computes its signature.                                                 *)
(***************************************************************************)
GiveUp(t) ==
  /\ pc[t] \in {"reveal", "done", "raise"}
  /\ ReleaseLock(t)
  /\ tlock' = FreedThreadLock(t)
  /\ handle' = Created(t)
  /\ job' = [job EXCEPT ![t] = NoJob]
  /\ Goto(t, "idle")
  /\ UNCHANGED <<file, durable, temps, linked, born, reserved, uses>>

LEMMA ReturnGivesUp == ASSUME NEW t \in Threads, Return(t) PROVE GiveUp(t)
  BY DEF Return, GiveUp

LEMMA GiveUpStep ==
  ASSUME CInv, NEW t \in Threads, GiveUp(t)
  PROVE  CInv'
<1>1. Busy(t) /\ job[t] \in Job /\ job[t].h \in Handles
  BY ObjectOf DEF GiveUp, Busy
<1>2. /\ pc'[t] = "idle" /\ job'[t] = NoJob
      /\ \A s \in Threads \ {t} : pc'[s] = pc[s] /\ job'[s] = job[s]
  BY DEF GiveUp, Goto, CInv, TypeOK, StateTypeOK
<1>3. \A s \in Threads \ {t} : Busy(s) => handle'[job[s].h] = handle[job[s].h]
  BY <1>1 DEF GiveUp, Created, CInv, TypeOK, StateTypeOK, CallHasObject, CreateIsAlone, Busy, Job
<1>4. handle' \in [Handles -> Handle \cup {NoHandle}]
  <2>1. 0 \in 0..LeafCount
    BY LeafAssumption
  <2> QED BY <1>1, <2>1, ObjectOf DEF GiveUp, Created, CInv, TypeOK, StateTypeOK, Handle
<1>5. TypeOK'
  BY <1>4 DEF GiveUp, ReleaseLock, FreedThreadLock, Goto, CInv, TypeOK, StateTypeOK
<1>6. CallHasObject' /\ CreateIsAlone'
  BY <1>1, <1>2, <1>3 DEF CInv, CallHasObject, CreateIsAlone, Busy
<1>7. CallHoldsLocks'
  BY <1>1, <1>2, <1>3 DEF CInv, CallHasObject, CallHoldsLocks, Busy, OnFile, GiveUp, ReleaseLock,
     FreedThreadLock, Job
<1> QED BY <1>5, <1>6, <1>7 DEF CInv

LEMMA OpenStep ==
  ASSUME CInv, NEW h \in Handles, Open(h) \/ OpenMemory(h)
  PROVE  CInv'
<1>1. FreeSlot(h) /\ UNCHANGED <<ioVars, tlock, pc, job, linked, reserved, uses>>
  BY DEF Open, OpenMemory
<1>2. PICK new \in Handle : handle' = [handle EXCEPT ![h] = new]
  <2>1. 0 \in 0..LeafCount
    BY LeafAssumption
  <2> QED BY <2>1 DEF Open, OpenMemory, CInv, TypeOK, StateTypeOK, Key, Handle
<1>3. \A t \in Threads : Busy(t) => handle'[job[t].h] = handle[job[t].h]
  BY <1>1, <1>2, SlotAssumption DEF CInv, TypeOK, StateTypeOK, CallHasObject, FreeSlot, Busy, Job
<1>4. TypeOK'
  BY <1>1, <1>2 DEF CInv, TypeOK, StateTypeOK, Open, OpenMemory, ioVars
<1>5. CallHasObject' /\ CreateIsAlone' /\ CallHoldsLocks'
  BY <1>1, <1>3 DEF CInv, CallHasObject, CreateIsAlone, CallHoldsLocks, Busy, OnFile, ioVars
<1> QED BY <1>4, <1>5 DEF CInv

LEMMA KillStep ==
  ASSUME CInv, \/ \E h \in Handles : Crash(h)
               \/ PowerLoss
  PROVE  CInv'
<1>1. PICK hs \in SUBSET Handles, ts \in SUBSET Threads :
        /\ Forget(hs, ts)
        /\ \A t \in Threads : Busy(t) => (t \in ts <=> job[t].h \in hs)
        /\ \A t \in Threads \ ts : lock = t => lock' = t
  <2>1. CASE PowerLoss
    <3>1. \A t \in Threads : Busy(t) => job[t].h \in Handles
      BY ObjectOf
    <3> QED BY <2>1, <3>1, Zenon DEF PowerLoss
  <2>2. CASE \E h \in Handles : Crash(h)
    <3>1. PICK h \in Handles : Crash(h)
      BY <2>2
    <3>2. \A t \in Threads : Busy(t) => (t \in CallsOn(h) <=> job[t].h \in {h})
      BY SlotAssumption, ObjectOf DEF CallsOn
    <3>3. CallsOn(h) \subseteq Threads /\ {h} \subseteq Handles
      BY DEF CallsOn
    <3> QED BY <3>1, <3>2, <3>3 DEF Crash, KillIO
  <2> QED BY <2>1, <2>2
<1>2. /\ \A t \in ts : ~Busy(t)' /\ job'[t] = NoJob
      /\ \A t \in Threads \ ts : /\ pc'[t] = pc[t] /\ job'[t] = job[t]
                                 /\ Busy(t) => /\ handle'[job[t].h] = handle[job[t].h]
                                               /\ tlock'[job[t].h] = tlock[job[t].h]
  BY <1>1, ObjectOf DEF Forget, Busy
<1>3. CallHasObject' /\ CreateIsAlone' /\ CallHoldsLocks'
  BY <1>1, <1>2 DEF CInv, CallHasObject, CreateIsAlone, CallHoldsLocks, Busy, OnFile
<1>4. /\ handle' \in [Handles -> Handle \cup {NoHandle}]
      /\ tlock' \in [Handles -> Threads \cup {Nobody}]
      /\ pc' \in [Threads -> InFlight \cup {"idle"}]
      /\ job' \in [Threads -> Job \cup {NoJob}]
  BY <1>1 DEF Forget, CInv, TypeOK, StateTypeOK
<1>5. TypeOK'
  <2>1. CASE PowerLoss
    BY <1>4, <2>1 DEF CInv, TypeOK, StateTypeOK, PowerLoss, PowerLossIO, Orphaned
  <2>2. CASE \E h \in Handles : Crash(h)
    BY <1>4, <2>2 DEF CInv, TypeOK, StateTypeOK, Crash, KillIO, Orphaned
  <2> QED BY <2>1, <2>2
<1> QED BY <1>3, <1>5 DEF CInv

LEMMA OwnerStep == CInv /\ (Link \/ RemoveKey) => CInv'
<1> SUFFICES ASSUME CInv, Link \/ RemoveKey PROVE CInv'
  OBVIOUS
<1>1. UNCHANGED <<lock, handle, tlock, pc, job>>
  BY DEF Link, RemoveKey, ioVars
<1>2. CallHasObject' /\ CreateIsAlone' /\ CallHoldsLocks'
  BY <1>1 DEF CInv, CallHasObject, CreateIsAlone, CallHoldsLocks, Busy, OnFile
<1>3. TypeOK'
  BY <1>1 DEF CInv, TypeOK, StateTypeOK, Link, RemoveKey, ioVars
<1> QED BY <1>2, <1>3 DEF CInv

LEMMA CallsStep ==
  ASSUME CInv, NEW t \in Threads, NEW h \in Handles, Calls(t, h)
  PROVE  CInv'
<1>1. CASE \E arg \in Asked : SignCall(t, h, arg)
  <2>1. PICK arg \in Asked : SignCall(t, h, arg)
    BY <1>1
  <2>2. arg \in 0..LeafCount \cup {NextUnused}
    BY RequestAssumption
  <2> QED BY <2>1, <2>2, StartStep DEF SignCall
<1>2. CASE \E count \in Counts : AdvanceCall(t, h, count)
  <2>1. PICK count \in Counts : AdvanceCall(t, h, count)
    BY <1>2
  <2>2. count \in 1..LeafCount /\ count \in 0..LeafCount
    BY RequestAssumption
  <2> QED BY <2>1, <2>2, StartStep DEF AdvanceCall
<1>3. CASE CreateCall(t, h)
  BY <1>3, StartStep DEF CreateCall
<1> QED BY <1>1, <1>2, <1>3 DEF Calls

LEMMA CStep == CInv /\ [Next]_vars => CInv'
<1> SUFFICES ASSUME CInv, [Next]_vars PROVE CInv'
  OBVIOUS
<1>1. CASE UNCHANGED vars
  BY <1>1 DEF vars, ioVars, signerVars, CInv, TypeOK, StateTypeOK, CallHasObject, CreateIsAlone,
              CallHoldsLocks, Busy, OnFile
<1>2. CASE \E t \in Threads, h \in Handles : Calls(t, h)
  BY <1>2, CallsStep
<1>3. CASE \E t \in Threads : Waits(t)
  BY <1>3, WaitStep
<1>4. CASE \E t \in Threads : Runs(t)
  BY <1>4, ReserveStep, RefuseStep, SaveStep, GiveUpStep, ReturnGivesUp DEF Runs
<1>5. CASE Environment
  BY <1>5, OpenStep, KillStep, OwnerStep DEF Environment
<1> QED BY <1>1, <1>2, <1>3, <1>4, <1>5 DEF Next

(***************************************************************************)
(* Every reachable state is well typed, for every number of threads,       *)
(* objects, identities and leaves: in particular no call reserves a leaf   *)
(* past the last one (_sign_reserved, advance: KeyExhausted).              *)
(***************************************************************************)
THEOREM TypeCorrect == Spec => []TypeOK
<1>1. Spec => []CInv
  BY CInit, CStep, PTL DEF Spec
<1>2. CInv => TypeOK
  BY DEF CInv
<1> QED BY <1>1, <1>2, PTL

-----------------------------------------------------------------------------
(***************************************************************************)
(* Why no leaf signs twice.  An index saved for an identity is in the file *)
(* every later call reads (FileAhead), the call that saves works from an   *)
(* index no lower than it (SaveStartsAbove), and the leaf about to go out  *)
(* is the last one saved (RevealsLast).  An identity in memory has one     *)
(* object (MemoryIsAlone), a new one has none yet (NewIsUnused).           *)
(*                                                                         *)
(* A file put back from a copy may be behind by some leaves: its debt.     *)
(* Nobody may sign while there is one (NoSignOwing).  Spec puts no file    *)
(* back, so its debt is 0; RestoredSigner_proofs gives it the leaves owed. *)
(***************************************************************************)
IdentitiesBorn ==
  /\ file # NoFile => file.id \in born
  /\ durable # NoFile => durable.id \in born
  /\ \A h \in Handles : handle[h] # NoHandle => handle[h].id \in born
  /\ \A t \in Threads : Busy(t) /\ job[t].id # NoId => job[t].id \in born
  /\ \A k \in Ids \ born : reserved[k] = 0

MemoryIsAlone ==
  \A h \in Handles : handle[h] # NoHandle /\ handle[h].kind = "memory" =>
    /\ reserved[handle[h].id] <= handle[h].next
    /\ file # NoFile => file.id # handle[h].id
    /\ durable # NoFile => durable.id # handle[h].id
    /\ \A g \in Handles \ {h} : handle[g] # NoHandle => handle[g].id # handle[h].id
    /\ \A t \in Threads : Busy(t) /\ job[t].op = "create" => job[t].id # handle[h].id

NewIsUnused ==
  \A t \in Threads : pc[t] \in {"temp", "replace"} /\ job[t].op = "create" =>
    /\ reserved[job[t].id] = 0
    /\ file # NoFile => file.id # job[t].id
    /\ \A h \in Handles : handle[h] # NoHandle => handle[h].id # job[t].id

FileAhead(debt) ==
  /\ file # NoFile => reserved[file.id] <= file.next + debt
  /\ durable # NoFile => reserved[durable.id] <= durable.next + debt

SaveStartsAbove(debt) ==
  \A t \in Threads : pc[t] \in Saving =>
    /\ job[t].op # "create" =>
         /\ reserved[job[t].id] <= job[t].old + debt
         /\ job[t].old < handle[job[t].h].next
         /\ job[t].op = "sign" => handle[job[t].h].next = job[t].leaf + 1
         /\ job[t].op = "advance" => handle[job[t].h].next = job[t].old + job[t].arg
    /\ pc[t] = "sync" => file \in {NoFile, Saved(t)}

RevealsLast ==
  \A t \in Threads : pc[t] = "reveal" =>
    /\ reserved[job[t].id] = job[t].leaf + 1
    /\ uses[job[t].id][job[t].leaf] = 0

UsedIsReserved == \A k \in Ids, i \in Leaves : uses[k][i] > 0 => i < reserved[k]

NoSignOwing(debt) == debt > 0 => \A t \in Threads : Busy(t) => job[t].op # "sign"

JInv(debt) ==
  /\ IdentitiesBorn /\ MemoryIsAlone /\ NewIsUnused /\ FileAhead(debt)
  /\ SaveStartsAbove(debt) /\ RevealsLast /\ UsedIsReserved /\ OneTime

IInv(debt) == debt \in Nat /\ CInv /\ JInv(debt) /\ NoSignOwing(debt)

LEMMA IInit == Init => IInv(0)
<1> SUFFICES ASSUME Init PROVE IInv(0)
  OBVIOUS
<1>1. CInv
  BY CInit
<1>2. IdentitiesBorn /\ MemoryIsAlone /\ NewIsUnused /\ FileAhead(0)
  BY DEF Init, IdentitiesBorn, MemoryIsAlone, NewIsUnused, FileAhead, Busy
<1>3. SaveStartsAbove(0) /\ RevealsLast /\ UsedIsReserved /\ OneTime /\ NoSignOwing(0)
  BY DEF Init, SaveStartsAbove, RevealsLast, UsedIsReserved, OneTime, NoSignOwing, Saving
<1> QED BY <1>1, <1>2, <1>3 DEF IInv, JInv

(***************************************************************************)
(* Two calls past their locks work on two identities.                      *)
(***************************************************************************)
LEMMA IdentityExclusive ==
  ASSUME CInv, MemoryIsAlone, NEW s \in Threads, NEW t \in Threads, s # t,
         pc[s] \in Critical, pc[t] \in Critical
  PROVE  job[s].id # job[t].id
<1>1. Busy(s) /\ Busy(t)
  BY DEF Busy, Critical
<1>2. CASE OnFile(s) /\ OnFile(t)
  BY <1>1, <1>2 DEF CInv, CallHoldsLocks
<1>3. ASSUME NEW a \in Threads, NEW b \in Threads, a # b, Busy(a), Busy(b), ~OnFile(a),
             pc[a] \in Critical, pc[b] \in Critical
      PROVE  job[a].id # job[b].id
  <2>1. /\ job[a].op # "create" /\ job[a].h \in Handles
        /\ handle[job[a].h] # NoHandle /\ handle[job[a].h].kind = "memory"
        /\ job[a].id = handle[job[a].h].id
    BY <1>3, ObjectOf, SlotAssumption DEF OnFile, Handle
  <2>2. CASE job[b].op = "create"
    BY <1>3, <2>1, <2>2 DEF MemoryIsAlone
  <2>3. CASE job[b].op # "create"
    <3>1. /\ job[b].h \in Handles /\ handle[job[b].h] # NoHandle
          /\ job[b].id = handle[job[b].h].id
      BY <1>3, <2>3, ObjectOf, SlotAssumption
    <3>2. job[a].h # job[b].h
      BY <1>3, <2>1, <2>3 DEF CInv, CallHoldsLocks, Critical
    <3> QED BY <2>1, <3>1, <3>2 DEF MemoryIsAlone
  <2> QED BY <2>2, <2>3
<1> QED BY <1>1, <1>2, <1>3

(***************************************************************************)
(* Steps that leave the file, the saved indices and the signatures alone,  *)
(* and move one call at most, past its locks and out of no save.           *)
(***************************************************************************)
LEMMA QuietStep ==
  ASSUME NEW debt, IInv(debt), UNCHANGED <<file, durable, handle, job, born, reserved, uses>>,
         NEW t \in Threads, NEW label \in {"state", "check", "replace", "raise"},
         Busy(t), Goto(t, label), label = "replace" => pc[t] = "temp"
  PROVE  JInv(debt)'
<1>1. /\ pc'[t] = label /\ \A s \in Threads \ {t} : pc'[s] = pc[s]
  BY DEF IInv, CInv, TypeOK, Goto
<1>2. \A s \in Threads : Busy(s)' <=> Busy(s)
  BY <1>1 DEF Busy
<1>3. NewIsUnused' /\ SaveStartsAbove(debt)' /\ RevealsLast'
  BY <1>1 DEF IInv, JInv, NewIsUnused, SaveStartsAbove, RevealsLast, Saving, Saved
<1>4. IdentitiesBorn' /\ MemoryIsAlone'
  BY <1>2 DEF IInv, JInv, IdentitiesBorn, MemoryIsAlone
<1>5. FileAhead(debt)' /\ UsedIsReserved' /\ OneTime'
  BY DEF IInv, JInv, FileAhead, UsedIsReserved, OneTime
<1> QED BY <1>3, <1>4, <1>5 DEF JInv

(***************************************************************************)
(* A call starts.                                                          *)
(***************************************************************************)
LEMMA StartStepJ ==
  ASSUME NEW debt, IInv(debt), NEW t \in Threads, NEW h \in Handles, Calls(t, h)
  PROVE  JInv(debt)'
<1>1. /\ UNCHANGED <<file, durable, handle, born, reserved, uses>>
      /\ ~Busy(t) /\ pc'[t] \in {"thread", "state"} /\ job'[t].id \in born \cup {NoId}
      /\ job'[t].op = "create" => job'[t].id = NoId
      /\ \A s \in Threads \ {t} : pc'[s] = pc[s] /\ job'[s] = job[s]
  BY DEF IInv, JInv, CInv, TypeOK, StateTypeOK, IdentitiesBorn, Calls, SignCall, AdvanceCall, CreateCall,
         Start, Goto, Busy, ioVars
<1>2. \A k \in Ids : k # NoId
  BY ArgumentAssumption
<1>3. IdentitiesBorn'
  BY <1>1 DEF IInv, JInv, IdentitiesBorn, Busy
<1>4. MemoryIsAlone'
  BY <1>1, <1>2 DEF IInv, JInv, CInv, TypeOK, StateTypeOK, Handle, MemoryIsAlone, Busy
<1>5. NewIsUnused' /\ SaveStartsAbove(debt)' /\ RevealsLast'
  BY <1>1 DEF IInv, JInv, NewIsUnused, SaveStartsAbove, RevealsLast, Saving, Saved
<1>6. FileAhead(debt)' /\ UsedIsReserved' /\ OneTime'
  BY <1>1 DEF IInv, JInv, FileAhead, UsedIsReserved, OneTime
<1> QED BY <1>3, <1>4, <1>5, <1>6 DEF JInv

(***************************************************************************)
(* What another call past its locks has in hand when call t moves.         *)
(***************************************************************************)
LEMMA Others ==
  ASSUME NEW debt, IInv(debt), NEW t \in Threads, NEW s \in Threads, s # t,
         pc[s] \in Critical, pc[t] \in Critical
  PROVE  /\ job[s].id # job[t].id
         /\ job[s].h # job[t].h
         /\ OnFile(t) => ~OnFile(s)
<1>1. Busy(s) /\ Busy(t) /\ pc[s] # "thread" /\ pc[t] # "thread"
  BY DEF Busy, Critical
<1>2. job[s].id # job[t].id
  BY IdentityExclusive DEF IInv, JInv
<1>3. job[s].h # job[t].h
  BY <1>1 DEF IInv, CInv, CallHoldsLocks, CreateIsAlone
<1>4. OnFile(t) => ~OnFile(s)
  BY <1>1 DEF IInv, CInv, CallHoldsLocks
<1> QED BY <1>2, <1>3, <1>4

\* Objects that move keep what the invariant asks of them.
IdsKept ==
  \A g \in Handles :
    /\ (handle'[g] # NoHandle) <=> (handle[g] # NoHandle)
    /\ handle[g] # NoHandle => /\ handle[g].id \in Ids
                               /\ handle'[g].id = handle[g].id
                               /\ handle'[g].kind = handle[g].kind

JobsKept == \A s \in Threads : job'[s].id = job[s].id /\ job'[s].op = job[s].op

LEMMA SameIds == ASSUME CInv, SameObjects PROVE IdsKept
  BY SlotAssumption DEF IdsKept, SameObjects, CInv, TypeOK, StateTypeOK, Handle

LEMMA SignOwesNothing ==
  ASSUME NEW debt, IInv(debt), NEW t \in Threads, Busy(t), job[t].op = "sign"
  PROVE  debt = 0
BY DEF IInv, NoSignOwing

LEMMA ClaimStepJ ==
  ASSUME NEW debt, IInv(debt), NEW t \in Threads, pc[t] = "check",
         job[t].op \in {"sign", "advance"},
         NEW n \in 0..LeafCount, NEW from \in 0..LeafCount, NEW leaf \in Leaves,
         Claim(t, n, from, leaf),
         from < n, reserved[job[t].id] <= from + debt,
         InMemory(job[t].h) => reserved[job[t].id] <= from,
         job[t].op = "sign" => n = leaf + 1 /\ from <= leaf,
         job[t].op = "advance" => n = from + job[t].arg
  PROVE  JInv(debt)'
<1> DEFINE h == job[t].h
           k == job[t].id
<1>1. Busy(t) /\ pc[t] \in Critical /\ job[t].op # "create"
  BY DEF Busy, Critical
<1>2. /\ job[t] \in Job /\ h \in Handles /\ handle[h] \in Handle
      /\ k = handle[h].id /\ k \in Ids /\ handle[h] # NoHandle
  BY <1>1, ObjectOf, SlotAssumption DEF Handle, IInv
<1>3. /\ SameObjects
      /\ handle'[h] = [id |-> k, next |-> n, kind |-> handle[h].kind]
      /\ \A g \in Handles \ {h} : handle'[g] = handle[g]
  <2>1. handle' = [handle EXCEPT ![h].next = n]
    BY DEF Claim
  <2>2. CInv
    BY DEF IInv
  <2> HIDE DEF h, k
  <2> QED BY <1>2, <2>1, <2>2, SetNext
<1>4. /\ job'[t] = [job[t] EXCEPT !.leaf = leaf, !.old = from]
      /\ job'[t].op = job[t].op /\ job'[t].h = h /\ job'[t].id = k /\ job'[t].arg = job[t].arg
      /\ job'[t].leaf = leaf /\ job'[t].old = from
      /\ \A s \in Threads \ {t} : job'[s] = job[s]
  BY <1>2 DEF Claim, IInv, CInv, TypeOK, StateTypeOK, Job
<1>5. /\ pc'[t] = (IF InMemory(h) THEN AfterSave(t) ELSE "temp")
      /\ \A s \in Threads \ {t} : pc'[s] = pc[s]
      /\ UNCHANGED <<file, durable, born, uses>>
  BY DEF Claim, Goto, IInv, CInv, TypeOK, ioVars
<1>6. \A s \in Threads : Busy(s)' <=> Busy(s)
  BY <1>1, <1>5 DEF Busy, AfterSave
<1>7. /\ InMemory(h) => reserved'[k] = n
      /\ ~InMemory(h) => UNCHANGED reserved
      /\ \A j \in Ids \ {k} : reserved'[j] = reserved[j]
      /\ \A j \in Ids : reserved'[j] >= reserved[j] /\ reserved[j] \in Nat
  BY <1>2 DEF Claim, IInv, CInv, TypeOK, StateTypeOK
<1>8. \A s \in Threads \ {t} : pc[s] \in Saving \cup {"reveal"} =>
        /\ job[s].id # k /\ job[s].id \in Ids
        /\ job[s].op # "create" => handle'[job[s].h] = handle[job[s].h]
        /\ Saved(s)' = Saved(s)
  <2> TAKE s \in Threads \ {t}
  <2> HAVE pc[s] \in Saving \cup {"reveal"}
  <2>1. pc[s] \in Critical /\ Busy(s)
    BY DEF Saving, Critical, Busy
  <2>2. job[s].id # k /\ (job[s].op # "create" => job[s].h # h)
    BY <1>1, <2>1, Others
  <2>3. job[s].id \in Ids /\ job[s].h \in Handles
    BY <2>1, ObjectOf DEF IInv, Handle, CInv, CallHoldsLocks
  <2> QED BY <1>3, <1>4, <2>2, <2>3 DEF Saved
<1>a. IdsKept /\ JobsKept
  BY <1>3, <1>4, SameIds DEF IInv, JobsKept
<1>9. IdentitiesBorn'
  BY <1>2, <1>5, <1>6, <1>7, <1>a DEF IInv, JInv, IdentitiesBorn, IdsKept, JobsKept
<1>10. MemoryIsAlone'
  <2> SUFFICES ASSUME NEW g \in Handles, handle'[g] # NoHandle, handle'[g].kind = "memory"
               PROVE  /\ reserved'[handle'[g].id] <= handle'[g].next
                      /\ file' # NoFile => file'.id # handle'[g].id
                      /\ durable' # NoFile => durable'.id # handle'[g].id
                      /\ \A f \in Handles \ {g} : handle'[f] # NoHandle => handle'[f].id # handle'[g].id
                      /\ \A s \in Threads : Busy(s)' /\ job'[s].op = "create" =>
                                             job'[s].id # handle'[g].id
    BY DEF MemoryIsAlone
  <2>1. handle[g] # NoHandle /\ handle[g].kind = "memory" /\ handle'[g].id = handle[g].id
    BY <1>a DEF IdsKept
  <2>2. reserved'[handle'[g].id] <= handle'[g].next
    <3>1. CASE g = h
      BY <1>3, <1>7, <2>1, <3>1 DEF InMemory
    <3>2. CASE g # h
      BY <1>2, <1>3, <1>7, <1>a, <2>1, <3>2 DEF IInv, JInv, MemoryIsAlone, IdsKept
    <3> QED BY <3>1, <3>2
  <2> QED BY <1>5, <1>6, <1>a, <2>1, <2>2 DEF IInv, JInv, MemoryIsAlone, IdsKept, JobsKept
<1>11. NewIsUnused'
  <2> SUFFICES ASSUME NEW s \in Threads, pc'[s] \in {"temp", "replace"}, job'[s].op = "create"
               PROVE  /\ reserved'[job'[s].id] = 0
                      /\ file' # NoFile => file'.id # job'[s].id
                      /\ \A g \in Handles : handle'[g] # NoHandle => handle'[g].id # job'[s].id
    BY DEF NewIsUnused
  <2>1. s # t /\ pc[s] = pc'[s] /\ job'[s].id = job[s].id /\ job[s].op = "create"
    BY <1>1, <1>5, <1>a DEF JobsKept
  <2> QED BY <1>5, <1>7, <1>8, <1>a, <2>1 DEF IInv, JInv, NewIsUnused, Saving, IdsKept
<1>12. FileAhead(debt)'
  BY <1>2, <1>5, <1>7 DEF IInv, JInv, FileAhead, MemoryIsAlone, InMemory, CInv, TypeOK, StateTypeOK, Key
<1>13. SaveStartsAbove(debt)'
  <2> SUFFICES ASSUME NEW s \in Threads, pc'[s] \in Saving
               PROVE  /\ job'[s].op # "create" =>
                           /\ reserved'[job'[s].id] <= job'[s].old + debt
                           /\ job'[s].old < handle'[job'[s].h].next
                           /\ job'[s].op = "sign" => handle'[job'[s].h].next = job'[s].leaf + 1
                           /\ job'[s].op = "advance" =>
                                handle'[job'[s].h].next = job'[s].old + job'[s].arg
                      /\ pc'[s] = "sync" => file' \in {NoFile, Saved(s)'}
    BY DEF SaveStartsAbove
  <2>1. CASE s = t
    <3>1. ~InMemory(h) /\ pc'[t] = "temp"
      BY <1>5, <2>1 DEF Saving, AfterSave
    <3>2. reserved'[k] = reserved[k] /\ handle'[h].next = n
      BY <1>3, <1>7, <3>1
    <3> QED BY <1>4, <2>1, <3>1, <3>2
  <2>2. CASE s # t
    BY <1>4, <1>5, <1>7, <1>8, <2>2 DEF IInv, JInv, SaveStartsAbove
  <2> QED BY <2>1, <2>2
<1>14. RevealsLast'
  <2> SUFFICES ASSUME NEW s \in Threads, pc'[s] = "reveal"
               PROVE  /\ reserved'[job'[s].id] = job'[s].leaf + 1
                      /\ uses'[job'[s].id][job'[s].leaf] = 0
    BY DEF RevealsLast
  <2>1. CASE s = t
    <3>1. InMemory(h) /\ job[t].op = "sign"
      BY <1>1, <1>5, <2>1 DEF AfterSave
    <3>2. uses[k][leaf] \in Nat
      BY <1>2 DEF IInv, CInv, TypeOK, StateTypeOK
    <3>3. ~(leaf < reserved[k])
      BY <1>2, <1>7, <3>1 DEF Leaves
    <3>4. uses[k][leaf] = 0
      BY <1>2, <3>2, <3>3 DEF IInv, JInv, UsedIsReserved
    <3> QED BY <1>4, <1>5, <1>7, <2>1, <3>1, <3>4
  <2>2. CASE s # t
    BY <1>4, <1>5, <1>7, <1>8, <2>2 DEF IInv, JInv, RevealsLast
  <2> QED BY <2>1, <2>2
<1>15. UsedIsReserved' /\ OneTime'
  BY <1>5, <1>7 DEF IInv, JInv, UsedIsReserved, OneTime, Leaves
<1> QED BY <1>9, <1>10, <1>11, <1>12, <1>13, <1>14, <1>15 DEF JInv

\* The state a call goes by is no older than what was saved for its identity.
LEMMA LatestIsAhead ==
  ASSUME NEW debt, IInv(debt), NEW t \in Threads, pc[t] = "check", job[t].op # "create",
         AdvanceReads(job[t].h)
  PROVE  /\ reserved[job[t].id] <= Latest(job[t].h) + debt
         /\ reserved[job[t].id] <= AdvanceFrom(job[t].h) + debt
         /\ InMemory(job[t].h) => /\ reserved[job[t].id] <= Latest(job[t].h)
                                  /\ reserved[job[t].id] <= AdvanceFrom(job[t].h)
         /\ Latest(job[t].h) \in 0..LeafCount /\ AdvanceFrom(job[t].h) \in 0..LeafCount
<1> DEFINE h == job[t].h
<1>1. Busy(t)
  BY DEF Busy
<1>2. /\ h \in Handles /\ handle[h] \in Handle /\ handle[h] # NoHandle
      /\ job[t].id = handle[h].id /\ job[t].id \in Ids
  BY <1>1, ObjectOf, SlotAssumption DEF IInv, Handle
<1>3. Latest(h) \in 0..LeafCount /\ AdvanceFrom(h) \in 0..LeafCount /\ handle[h].next \in 0..LeafCount
  BY <1>1, <1>2, LatestType DEF IInv, Handle
<1>4. /\ reserved[job[t].id] <= Latest(h) + debt /\ reserved[job[t].id] \in Nat /\ debt \in Nat
      /\ InMemory(h) => reserved[job[t].id] <= Latest(h)
  <2>1. reserved[job[t].id] \in Nat /\ debt \in Nat
    BY <1>2 DEF IInv, CInv, TypeOK, StateTypeOK
  <2>2. InMemory(h) => reserved[job[t].id] <= Latest(h)
    BY <1>2 DEF IInv, JInv, MemoryIsAlone, Latest, InMemory
  <2>3. ~InMemory(h) => reserved[job[t].id] <= Latest(h) + debt
    BY <1>2 DEF IInv, JInv, FileAhead, Latest, AdvanceReads, InMemory, SameIdentity
  <2> QED BY <1>3, <2>1, <2>2, <2>3
<1>5. AdvanceFrom(h) >= Latest(h)
  BY <1>3 DEF AdvanceFrom, Larger
<1>6. /\ reserved[job[t].id] <= AdvanceFrom(h) + debt
      /\ InMemory(h) => reserved[job[t].id] <= AdvanceFrom(h)
  BY <1>3, <1>4, <1>5
<1> QED BY <1>3, <1>4, <1>6

LEMMA ReserveStepJ ==
  ASSUME NEW debt, IInv(debt), NEW t \in Threads, ReserveLeaf(t) \/ SpendLeaves(t)
  PROVE  JInv(debt)'
<1>1. Busy(t) /\ pc[t] = "check" /\ job[t].op \in {"sign", "advance"}
  BY DEF ReserveLeaf, SpendLeaves, Busy
<1>2. job[t] \in Job
  BY <1>1, ObjectOf DEF IInv
<1>3. CASE ReserveLeaf(t)
  <2>1. /\ Latest(job[t].h) \in 0..LeafCount
        /\ reserved[job[t].id] <= Latest(job[t].h) + debt
        /\ InMemory(job[t].h) => reserved[job[t].id] <= Latest(job[t].h)
    BY <1>1, <1>3, LatestIsAhead DEF ReserveLeaf, SignReads, AdvanceReads
  <2>2. Chosen(t) \in Leaves /\ Chosen(t) + 1 \in 0..LeafCount /\ Latest(job[t].h) < Chosen(t) + 1
    BY <1>2, <1>3, <2>1, LeafAssumption, ArgumentAssumption
    DEF ReserveLeaf, Usable, Chosen, Leaves, Job
  <2>3. Chosen(t) >= Latest(job[t].h) /\ job[t].op = "sign"
    BY <1>3 DEF ReserveLeaf, Usable
  <2>4. Latest(job[t].h) <= Chosen(t)
    BY <2>1, <2>2, <2>3 DEF Leaves
  <2> QED BY <1>1, <1>3, <2>1, <2>2, <2>3, <2>4, ClaimStepJ DEF ReserveLeaf
<1>4. CASE SpendLeaves(t)
  <2> DEFINE from == AdvanceFrom(job[t].h)
  <2>1. /\ from \in 0..LeafCount /\ reserved[job[t].id] <= from + debt
        /\ InMemory(job[t].h) => reserved[job[t].id] <= from
    BY <1>1, <1>4, LatestIsAhead DEF SpendLeaves
  <2>2. job[t].arg \in 1..LeafCount /\ job[t].op = "advance"
    BY <1>1, <1>4, ObjectOf DEF SpendLeaves, IInv
  <2>3. from + job[t].arg \in 0..LeafCount /\ from < from + job[t].arg
    BY <1>4, <2>1, <2>2, LeafAssumption DEF SpendLeaves
  <2>4. 0 \in Leaves
    BY LeafAssumption DEF Leaves
  <2>5. Claim(t, from + job[t].arg, from, 0)
    BY <1>4 DEF SpendLeaves
  <2> QED BY <1>1, <2>1, <2>2, <2>3, <2>4, <2>5, ClaimStepJ
<1> QED BY <1>3, <1>4

(***************************************************************************)
(* A call raises with its object's index set to n.                         *)
(***************************************************************************)
LEMMA RaiseStepJ ==
  ASSUME NEW debt, IInv(debt), NEW t \in Threads, pc[t] \in Critical, job[t].op # "create",
         NEW n \in 0..LeafCount,
         handle' = [handle EXCEPT ![job[t].h].next = n],
         InMemory(job[t].h) => reserved[job[t].id] <= n,
         Goto(t, "raise"), UNCHANGED <<file, durable, job, born, reserved, uses>>
  PROVE  JInv(debt)'
<1> DEFINE h == job[t].h
<1>1. Busy(t)
  BY DEF Busy, Critical
<1>2. /\ h \in Handles /\ handle[h] \in Handle /\ handle[h] # NoHandle
      /\ job[t].id = handle[h].id
  BY <1>1, ObjectOf, SlotAssumption DEF IInv
<1>3. /\ SameObjects
      /\ handle'[h] = [id |-> handle[h].id, next |-> n, kind |-> handle[h].kind]
      /\ \A g \in Handles \ {h} : handle'[g] = handle[g]
  BY <1>2, SetNext DEF IInv
<1>4. IdsKept
  BY <1>3, SameIds DEF IInv
<1>5. /\ pc'[t] = "raise" /\ \A s \in Threads \ {t} : pc'[s] = pc[s]
      /\ \A s \in Threads : Busy(s)' <=> Busy(s)
  BY <1>1 DEF Goto, IInv, CInv, TypeOK, Busy
<1>6. IdentitiesBorn' /\ NewIsUnused'
  BY <1>4, <1>5 DEF IInv, JInv, IdentitiesBorn, NewIsUnused, IdsKept
<1>7. MemoryIsAlone'
  BY <1>2, <1>3, <1>4, <1>5 DEF IInv, JInv, MemoryIsAlone, IdsKept, InMemory
<1>8. SaveStartsAbove(debt)'
  <2>1. \A s \in Threads \ {t} : pc[s] \in Saving =>
          job[s].h # h /\ job[s].h \in Handles
    BY <1>1, Others, ObjectOf DEF Saving, Critical, Busy, IInv
  <2> QED BY <1>3, <1>5, <2>1 DEF IInv, JInv, SaveStartsAbove, Saving, Saved
<1>9. RevealsLast' /\ FileAhead(debt)' /\ UsedIsReserved' /\ OneTime'
  BY <1>5 DEF IInv, JInv, RevealsLast, FileAhead, UsedIsReserved, OneTime
<1> QED BY <1>6, <1>7, <1>8, <1>9 DEF JInv

LEMMA RefuseStepJ ==
  ASSUME NEW debt, IInv(debt), NEW t \in Threads,
         RefuseLeaf(t) \/ RefuseAdvance(t) \/ RefuseState(t) \/ SaveFails(t) \/ Interrupted(t)
  PROVE  JInv(debt)'
<1>1. /\ pc[t] \in Critical /\ Busy(t) /\ Goto(t, "raise")
      /\ UNCHANGED <<file, durable, job, born, reserved, uses>>
  BY DEF RefuseLeaf, RefuseAdvance, RefuseState, SaveFails, Interrupted, Critical, Busy, ioVars
<1>2. CASE RefuseLeaf(t)
  <2>1. /\ Latest(job[t].h) \in 0..LeafCount /\ job[t].op # "create"
        /\ InMemory(job[t].h) => reserved[job[t].id] <= Latest(job[t].h)
    BY <1>2, LatestIsAhead DEF RefuseLeaf, SignReads, AdvanceReads
  <2> QED BY <1>1, <1>2, <2>1, RaiseStepJ DEF RefuseLeaf
<1>3. CASE RefuseAdvance(t)
  <2>1. /\ AdvanceFrom(job[t].h) \in 0..LeafCount /\ job[t].op # "create"
        /\ InMemory(job[t].h) => reserved[job[t].id] <= AdvanceFrom(job[t].h)
    BY <1>3, LatestIsAhead DEF RefuseAdvance
  <2> QED BY <1>1, <1>3, <2>1, RaiseStepJ DEF RefuseAdvance
<1>4. CASE SaveFails(t) /\ job[t].op # "create"
  <2>1. pc[t] \in Saving /\ job[t].old \in 0..LeafCount
    BY <1>1, <1>4, ObjectOf DEF SaveFails, Saving, IInv, Job
  <2>2. ~InMemory(job[t].h)
    BY <1>1, <1>4, <2>1 DEF IInv, CInv, CallHoldsLocks, OnFile, InMemory
  <2> QED BY <1>1, <1>4, <2>1, <2>2, RaiseStepJ DEF SaveFails, Undone
<1>5. CASE UNCHANGED handle
  BY <1>1, <1>5, QuietStep
<1>6. RefuseState(t) \/ Interrupted(t) \/ (SaveFails(t) /\ job[t].op = "create") => UNCHANGED handle
  BY DEF RefuseState, Interrupted, SaveFails, Undone
<1> QED BY <1>2, <1>3, <1>4, <1>5, <1>6

LEMMA WaitStepJ ==
  ASSUME NEW debt, IInv(debt), NEW t \in Threads, Waits(t) \/ SaveTemp(t)
  PROVE  JInv(debt)'
<1>1. PICK label \in {"state", "check", "replace", "raise"} :
        Goto(t, label) /\ (label = "replace" => pc[t] = "temp")
  BY DEF Waits, TakeThreadLock, TakeStateLock, SaveTemp
<1>2. UNCHANGED <<file, durable, handle, job, born, reserved, uses>> /\ Busy(t)
  BY DEF Waits, TakeThreadLock, TakeStateLock, SaveTemp, ioVars, Busy
<1> QED BY <1>1, <1>2, QuietStep

LEMMA NewIdentityStepJ ==
  ASSUME NEW debt, IInv(debt), NEW t \in Threads, NewIdentity(t)
  PROVE  JInv(debt)'
<1>1. PICK k \in Ids \ born : born' = born \cup {k} /\ job' = [job EXCEPT ![t].id = k]
  BY DEF NewIdentity
<1>2. /\ Busy(t) /\ job[t] \in Job /\ job[t].op = "create" /\ pc[t] = "check" /\ file = NoFile
  BY ObjectOf DEF NewIdentity, Busy, IInv
<1>3. /\ pc'[t] = "temp" /\ \A s \in Threads \ {t} : pc'[s] = pc[s]
      /\ \A s \in Threads : Busy(s)' <=> Busy(s)
  BY <1>2 DEF NewIdentity, Goto, Busy, IInv, CInv, TypeOK
<1>4. /\ job'[t].id = k /\ job'[t].op = "create"
      /\ \A s \in Threads \ {t} : job'[s] = job[s]
  BY <1>1, <1>2 DEF IInv, CInv, TypeOK, StateTypeOK, Job
<1>5. UNCHANGED <<file, durable, handle, reserved, uses>>
  BY DEF NewIdentity, ioVars
<1>6. IdentitiesBorn'
  BY <1>1, <1>3, <1>4, <1>5 DEF IInv, JInv, IdentitiesBorn
<1>7. MemoryIsAlone'
  BY <1>1, <1>3, <1>4, <1>5 DEF IInv, JInv, MemoryIsAlone, IdentitiesBorn
<1>8. NewIsUnused'
  BY <1>1, <1>2, <1>3, <1>4, <1>5 DEF IInv, JInv, NewIsUnused, IdentitiesBorn
<1>9. SaveStartsAbove(debt)' /\ RevealsLast'
  BY <1>3, <1>4, <1>5 DEF IInv, JInv, SaveStartsAbove, RevealsLast, Saving, Saved
<1>10. FileAhead(debt)' /\ UsedIsReserved' /\ OneTime'
  BY <1>5 DEF IInv, JInv, FileAhead, UsedIsReserved, OneTime
<1> QED BY <1>6, <1>7, <1>8, <1>9, <1>10 DEF JInv

\* What the call is about to write.
LEMMA SavedIsAhead ==
  ASSUME NEW debt, IInv(debt), NEW t \in Threads, pc[t] \in Saving
  PROVE  /\ Busy(t) /\ pc[t] \in Critical /\ OnFile(t) /\ job[t].id \in Ids
         /\ job[t].h \in Handles
         /\ Saved(t) \in Key /\ Saved(t) # NoFile /\ Saved(t).id = job[t].id
         /\ job[t].op # "create" => /\ reserved[job[t].id] <= Saved(t).next + debt
                                    /\ Saved(t).next = handle[job[t].h].next
<1>1. Busy(t) /\ pc[t] \in Critical
  BY DEF Saving, Busy, Critical
<1>2. OnFile(t)
  BY <1>1 DEF IInv, CInv, CallHoldsLocks
<1>3. /\ job[t].id \in Ids /\ job[t].h \in Handles
      /\ job[t].op # "create" => handle[job[t].h].next \in 0..LeafCount
  BY <1>1, ObjectOf DEF IInv, Handle
<1>4. Saved(t) \in Key /\ Saved(t) # NoFile /\ Saved(t).id = job[t].id
  BY <1>3, LeafAssumption, SlotAssumption DEF Saved, Key
<1>5. ASSUME job[t].op # "create"
      PROVE  /\ reserved[job[t].id] <= Saved(t).next + debt
             /\ Saved(t).next = handle[job[t].h].next
  <2>1. /\ reserved[job[t].id] <= job[t].old + debt /\ job[t].old < handle[job[t].h].next
        /\ debt \in Nat
    BY <1>5 DEF IInv, JInv, SaveStartsAbove
  <2>2. job[t].old \in 0..LeafCount /\ reserved[job[t].id] \in 0..LeafCount
    BY <1>1, <1>3, ObjectOf DEF IInv, CInv, TypeOK, StateTypeOK, Job
  <2> QED BY <1>3, <1>5, <2>1, <2>2 DEF Saved
<1> QED BY <1>1, <1>2, <1>3, <1>4, <1>5

\* No object in memory has the identity a save is writing.
LEMMA SavedIsNotInMemory ==
  ASSUME NEW debt, IInv(debt), NEW t \in Threads, pc[t] \in Saving, NEW h \in Handles,
         handle[h] # NoHandle, handle[h].kind = "memory"
  PROVE  handle[h].id # job[t].id
<1>1. Busy(t) /\ OnFile(t) /\ job[t].h \in Handles
  BY SavedIsAhead
<1>2. CASE job[t].op = "create"
  BY <1>1, <1>2 DEF IInv, JInv, MemoryIsAlone
<1>3. CASE job[t].op # "create"
  BY <1>1, <1>3, ObjectOf, SlotAssumption DEF IInv, JInv, MemoryIsAlone, OnFile
<1> QED BY <1>2, <1>3

LEMMA ReplaceStepJ ==
  ASSUME NEW debt, IInv(debt), NEW t \in Threads, SaveReplace(t)
  PROVE  JInv(debt)'
<1>1. /\ pc[t] = "replace" /\ file' = Saved(t)
      /\ UNCHANGED <<durable, handle, job, born, reserved, uses>>
  BY DEF SaveReplace, Replace
<1>2. /\ pc'[t] = "sync" /\ \A s \in Threads \ {t} : pc'[s] = pc[s]
      /\ \A s \in Threads : Busy(s)' <=> Busy(s)
  BY DEF SaveReplace, Goto, Busy, IInv, CInv, TypeOK
<1>3. /\ Busy(t) /\ pc[t] \in Critical /\ OnFile(t) /\ job[t].h \in Handles
      /\ job[t].id \in Ids /\ Saved(t).id = job[t].id /\ Saved(t) \in Key
      /\ job[t].op # "create" => reserved[job[t].id] <= Saved(t).next + debt
  BY <1>1, SavedIsAhead DEF Saving
<1>4. \A s \in Threads \ {t} : pc[s] \in Saving => FALSE
  BY <1>3, SavedIsAhead, Others DEF Saving, Critical
<1>5. \A h \in Handles : handle[h] # NoHandle /\ handle[h].kind = "memory" => handle[h].id # job[t].id
  BY <1>1, SavedIsNotInMemory DEF Saving
<1>6. IdentitiesBorn'
  BY <1>1, <1>2, <1>3, ArgumentAssumption DEF IInv, JInv, IdentitiesBorn
<1>7. MemoryIsAlone'
  BY <1>1, <1>2, <1>3, <1>5 DEF IInv, JInv, MemoryIsAlone
<1>8. NewIsUnused'
  BY <1>2, <1>4 DEF NewIsUnused, Saving
<1>9. FileAhead(debt)'
  <2>1. job[t].op = "create" => reserved[job[t].id] = 0 /\ Saved(t).next = 0
    BY <1>1 DEF IInv, JInv, NewIsUnused, Saved
  <2> QED BY <1>1, <1>3, <2>1 DEF IInv, JInv, FileAhead
<1>10. SaveStartsAbove(debt)'
  BY <1>1, <1>2, <1>4 DEF IInv, JInv, SaveStartsAbove, Saving, Saved
<1>11. RevealsLast' /\ UsedIsReserved' /\ OneTime'
  BY <1>1, <1>2 DEF IInv, JInv, RevealsLast, UsedIsReserved, OneTime
<1> QED BY <1>6, <1>7, <1>8, <1>9, <1>10, <1>11 DEF JInv

LEMMA SyncStepJ ==
  ASSUME NEW debt, IInv(debt), NEW t \in Threads, SaveSync(t)
  PROVE  JInv(debt)'
<1> DEFINE k == job[t].id
<1>1. /\ pc[t] = "sync" /\ durable' = file /\ file \in {NoFile, Saved(t)}
      /\ reserved' = [reserved EXCEPT ![k] = Larger(@, Saved(t).next)]
      /\ UNCHANGED <<file, handle, job, born, uses>>
  BY DEF SaveSync, SyncDirectory, IInv, JInv, SaveStartsAbove, Saving
<1>2. /\ pc'[t] \in {"reveal", "done"} /\ \A s \in Threads \ {t} : pc'[s] = pc[s]
      /\ pc'[t] = "reveal" => job[t].op = "sign"
      /\ \A s \in Threads : Busy(s)' <=> Busy(s)
  BY DEF SaveSync, AfterSave, Goto, Busy, IInv, CInv, TypeOK
<1>3. /\ Busy(t) /\ pc[t] \in Critical /\ OnFile(t)
      /\ k \in Ids /\ Saved(t).id = k /\ Saved(t).next \in 0..LeafCount
      /\ job[t].op # "create" => reserved[k] <= Saved(t).next + debt
  BY <1>1, SavedIsAhead DEF Saving, Key
<1>4. \A s \in Threads \ {t} : pc[s] \in Saving => FALSE
  BY <1>3, SavedIsAhead, Others DEF Saving, Critical
<1>5. \A h \in Handles : handle[h] # NoHandle /\ handle[h].kind = "memory" => handle[h].id # k
  BY <1>1, SavedIsNotInMemory DEF Saving
<1>6. /\ reserved[k] \in 0..LeafCount
      /\ reserved'[k] = Larger(reserved[k], Saved(t).next)
      /\ \A j \in Ids \ {k} : reserved'[j] = reserved[j]
  BY <1>1, <1>3 DEF IInv, CInv, TypeOK, StateTypeOK
<1>7. \A j \in Ids : reserved'[j] >= reserved[j] /\ reserved[j] \in Nat /\ reserved'[j] \in Nat
  BY <1>3, <1>6 DEF Larger, IInv, CInv, TypeOK, StateTypeOK
<1>8. k # NoId /\ k \in born
  BY <1>3, ArgumentAssumption DEF IInv, JInv, IdentitiesBorn
<1>9. IdentitiesBorn'
  BY <1>1, <1>2, <1>6, <1>8 DEF IInv, JInv, IdentitiesBorn
<1>10. MemoryIsAlone'
  BY <1>1, <1>2, <1>5, <1>6 DEF IInv, JInv, CInv, TypeOK, StateTypeOK, Handle, MemoryIsAlone
<1>11. NewIsUnused'
  BY <1>2, <1>4 DEF NewIsUnused, Saving
<1>12. FileAhead(debt)'
  <2>1. /\ file # NoFile => /\ file.id = k /\ file.next = Saved(t).next
                            /\ reserved[k] <= Saved(t).next + debt
        /\ debt \in Nat
    BY <1>1, <1>3 DEF IInv, JInv, FileAhead
  <2>2. file # NoFile => reserved'[k] <= Saved(t).next + debt
    BY <1>3, <1>6, <2>1 DEF Larger
  <2> QED BY <1>1, <2>1, <2>2 DEF FileAhead
<1>13. SaveStartsAbove(debt)'
  BY <1>2, <1>4 DEF SaveStartsAbove, Saving
<1>14. RevealsLast'
  <2>1. ASSUME pc'[t] = "reveal"
        PROVE  reserved'[k] = job[t].leaf + 1 /\ uses[k][job[t].leaf] = 0
    <3>1. /\ job[t].op # "create" /\ job[t].leaf \in Leaves /\ job[t].old \in 0..LeafCount
          /\ reserved[k] <= job[t].old + debt /\ job[t].old < Saved(t).next
          /\ Saved(t).next = job[t].leaf + 1 /\ debt = 0
      BY <1>1, <1>2, <1>3, <2>1, ObjectOf, SavedIsAhead, SignOwesNothing
      DEF IInv, JInv, SaveStartsAbove, Saving, Job
    <3>2. reserved'[k] = job[t].leaf + 1 /\ ~(job[t].leaf < reserved[k])
      BY <1>3, <1>6, <3>1 DEF Larger, Leaves
    <3>3. uses[k][job[t].leaf] \in Nat
      BY <1>3, <3>1 DEF IInv, CInv, TypeOK, StateTypeOK
    <3> QED BY <1>3, <3>1, <3>2, <3>3 DEF IInv, JInv, UsedIsReserved
  <2>2. \A s \in Threads \ {t} : pc[s] = "reveal" => job[s].id # k /\ job[s].id \in Ids
    BY <1>3, Others, ObjectOf DEF Critical, Busy, IInv, CInv, CallHoldsLocks, Handle
  <2> QED BY <1>1, <1>2, <1>6, <2>1, <2>2 DEF IInv, JInv, RevealsLast
<1>15. UsedIsReserved' /\ OneTime'
  BY <1>1, <1>7 DEF IInv, JInv, UsedIsReserved, OneTime, Leaves
<1> QED BY <1>9, <1>10, <1>11, <1>12, <1>13, <1>14, <1>15 DEF JInv

LEMMA RevealStepJ ==
  ASSUME NEW debt, IInv(debt), NEW t \in Threads, Reveal(t)
  PROVE  JInv(debt)'
<1> DEFINE k == job[t].id
           i == job[t].leaf
<1>1. /\ pc[t] = "reveal" /\ Busy(t) /\ pc[t] \in Critical
      /\ uses' = [uses EXCEPT ![k][i] = @ + 1]
      /\ UNCHANGED <<file, durable, handle, job, born, reserved>>
  BY DEF Reveal, Busy, Critical, ioVars
<1>2. /\ pc'[t] = "done" /\ \A s \in Threads \ {t} : pc'[s] = pc[s]
      /\ \A s \in Threads : Busy(s)' <=> Busy(s)
  BY DEF Reveal, Goto, Busy, IInv, CInv, TypeOK
<1>3. k \in Ids /\ i \in Leaves
  BY <1>1, ObjectOf DEF IInv, CInv, CallHoldsLocks, Job, Handle
<1>4. uses[k][i] = 0 /\ reserved[k] = i + 1
  BY <1>1 DEF IInv, JInv, RevealsLast
<1>5. \A j \in Ids, l \in Leaves : uses'[j][l] = IF j = k /\ l = i THEN 1 ELSE uses[j][l]
  BY <1>1, <1>3, <1>4 DEF IInv, CInv, TypeOK, StateTypeOK
<1>6. IdentitiesBorn' /\ MemoryIsAlone' /\ NewIsUnused' /\ FileAhead(debt)' /\ SaveStartsAbove(debt)'
  BY <1>1, <1>2 DEF IInv, JInv, IdentitiesBorn, MemoryIsAlone, NewIsUnused, FileAhead, SaveStartsAbove,
                    Saving, Saved
<1>7. RevealsLast'
  <2>1. \A s \in Threads \ {t} : pc[s] = "reveal" =>
          job[s].id # k /\ job[s].id \in Ids /\ job[s].leaf \in Leaves
    BY <1>1, Others, ObjectOf DEF Critical, Busy, IInv, CInv, CallHoldsLocks, Handle, Job
  <2> QED BY <1>1, <1>2, <1>5, <2>1 DEF IInv, JInv, RevealsLast
<1>8. UsedIsReserved' /\ OneTime'
  BY <1>1, <1>3, <1>4, <1>5 DEF IInv, JInv, UsedIsReserved, OneTime, Leaves
<1> QED BY <1>6, <1>7, <1>8 DEF JInv

LEMMA GiveUpStepJ ==
  ASSUME NEW debt, IInv(debt), NEW t \in Threads, GiveUp(t)
  PROVE  JInv(debt)'
<1> DEFINE h == job[t].h
           k == job[t].id
           made == job[t].op = "create" /\ pc[t] = "done"
<1>1. /\ pc[t] \in Critical /\ Busy(t) /\ h \in Handles
      /\ UNCHANGED <<file, durable, born, reserved, uses>>
  BY ObjectOf DEF GiveUp, Busy, Critical, IInv
<1>2. /\ pc'[t] = "idle" /\ ~Busy(t)' /\ \A s \in Threads \ {t} : pc'[s] = pc[s] /\ job'[s] = job[s]
      /\ \A s \in Threads \ {t} : Busy(s)' <=> Busy(s)
  BY DEF GiveUp, Goto, Busy, IInv, CInv, TypeOK, StateTypeOK
<1>3. /\ made => /\ handle'[h] = [id |-> k, next |-> 0, kind |-> "file"]
                 /\ k \in Ids /\ k \in born /\ k # NoId /\ handle[h] = NoHandle
                 /\ handle'[h] # NoHandle
      /\ ~made => handle' = handle
      /\ \A g \in Handles \ {h} : handle'[g] = handle[g]
  <2>1. made => k \in Ids /\ handle[h] = NoHandle
    BY <1>1, ObjectOf DEF IInv
  <2>2. made => k # NoId /\ k \in born
    BY <1>1, <2>1, ArgumentAssumption DEF IInv, JInv, IdentitiesBorn
  <2>3. made => handle' = [handle EXCEPT ![h] = [id |-> k, next |-> 0, kind |-> "file"]]
    BY DEF GiveUp, Created
  <2>4. ~made => handle' = handle
    BY DEF GiveUp, Created
  <2>5. made => [id |-> k, next |-> 0, kind |-> "file"] \in Handle
    BY <2>1, LeafAssumption DEF Handle
  <2> QED BY <1>1, <2>1, <2>2, <2>3, <2>4, <2>5, SlotAssumption DEF IInv, CInv, TypeOK, StateTypeOK
<1>4. IdentitiesBorn'
  BY <1>1, <1>2, <1>3 DEF IInv, JInv, IdentitiesBorn
<1>5. MemoryIsAlone'
  BY <1>1, <1>2, <1>3 DEF IInv, JInv, MemoryIsAlone
<1>6. made => \A s \in Threads \ {t} : pc[s] \in Saving => FALSE
  BY <1>1, SavedIsAhead, Others DEF OnFile
<1>7. \A s \in Threads \ {t} : pc[s] \in Saving =>
        /\ job[s].op # "create" => handle'[job[s].h] = handle[job[s].h]
        /\ Saved(s)' = Saved(s)
  BY <1>2, <1>3, <1>6 DEF Saved
<1>8. NewIsUnused'
  BY <1>1, <1>2, <1>3, <1>6 DEF IInv, JInv, NewIsUnused, Saving
<1>9. SaveStartsAbove(debt)'
  BY <1>1, <1>2, <1>7 DEF IInv, JInv, SaveStartsAbove, Saving
<1>10. RevealsLast' /\ FileAhead(debt)' /\ UsedIsReserved' /\ OneTime'
  BY <1>1, <1>2 DEF IInv, JInv, RevealsLast, FileAhead, UsedIsReserved, OneTime
<1> QED BY <1>4, <1>5, <1>8, <1>9, <1>10 DEF JInv

LEMMA OpenStepJ ==
  ASSUME NEW debt, IInv(debt), NEW h \in Handles, Open(h) \/ OpenMemory(h)
  PROVE  JInv(debt)'
<1>1. /\ UNCHANGED <<file, durable, pc, job, reserved, uses>> /\ handle[h] = NoHandle
      /\ \A s \in Threads : Busy(s) => job[s].h # h
  BY ObjectOf, SlotAssumption DEF Open, OpenMemory, FreeSlot, ioVars, IInv
<1>2. \A s \in Threads : Busy(s)' <=> Busy(s)
  BY <1>1 DEF Busy
<1>3. PICK new \in Handle :
        /\ handle' = [handle EXCEPT ![h] = new]
        /\ \/ new.kind = "file" /\ file # NoFile /\ new.id = file.id /\ born' = born
           \/ new.kind = "memory" /\ new.id \in Ids \ born /\ born' = born \cup {new.id} /\ new.next = 0
  <2>1. 0 \in 0..LeafCount
    BY LeafAssumption
  <2>2. CASE Open(h)
    <3> DEFINE new == [id |-> file.id, next |-> file.next, kind |-> "file"]
    <3>1. file \in Key /\ file # NoFile
      BY <2>2 DEF Open, IInv, CInv, TypeOK, StateTypeOK
    <3>2. new \in Handle
      BY <3>1 DEF Key, Handle
    <3>3. handle' = [handle EXCEPT ![h] = new] /\ born' = born
      BY <2>2 DEF Open
    <3> QED BY <3>1, <3>2, <3>3
  <2>3. CASE OpenMemory(h)
    <3>1. PICK k \in Ids \ born :
            /\ born' = born \cup {k}
            /\ handle' = [handle EXCEPT ![h] = [id |-> k, next |-> 0, kind |-> "memory"]]
      BY <2>3 DEF OpenMemory
    <3> DEFINE new == [id |-> k, next |-> 0, kind |-> "memory"]
    <3>2. new \in Handle
      BY <2>1 DEF Handle
    <3> QED BY <3>1, <3>2
  <2> QED BY <2>2, <2>3
<1>4. /\ handle'[h] = new /\ handle'[h] # NoHandle
      /\ \A g \in Handles \ {h} : handle'[g] = handle[g]
  BY <1>3, SlotAssumption DEF IInv, CInv, TypeOK, StateTypeOK
<1>5. IdentitiesBorn'
  BY <1>1, <1>2, <1>3, <1>4 DEF IInv, JInv, IdentitiesBorn
<1>6. MemoryIsAlone'
  <2>1. CASE new.kind = "file"
    BY <1>1, <1>2, <1>3, <1>4, <2>1 DEF IInv, JInv, MemoryIsAlone
  <2>2. CASE new.kind = "memory"
    <3>1. reserved[new.id] = 0 /\ new.id \in Ids \ born /\ new.next = 0
      BY <1>3, <2>2 DEF IInv, JInv, IdentitiesBorn
    <3>2. \A s \in Threads : Busy(s) => job[s].id # new.id
      BY <3>1, ArgumentAssumption DEF IInv, JInv, IdentitiesBorn
    <3> QED BY <1>1, <1>2, <1>4, <2>2, <3>1, <3>2 DEF IInv, JInv, MemoryIsAlone, IdentitiesBorn
  <2> QED BY <1>3, <2>1, <2>2
<1>7. NewIsUnused'
  <2>1. \A s \in Threads : pc[s] \in {"temp", "replace"} => job[s].id \in born
    BY SavedIsAhead, ArgumentAssumption DEF Saving, Busy, IInv, JInv, IdentitiesBorn
  <2> QED BY <1>1, <1>3, <1>4, <2>1 DEF IInv, JInv, NewIsUnused
<1>8. SaveStartsAbove(debt)'
  <2>1. \A s \in Threads : pc[s] \in Saving => job[s].h \in Handles \ {h} /\ Saved(s)' = Saved(s)
    BY <1>1, <1>4, SavedIsAhead DEF Saved
  <2> QED BY <1>1, <1>4, <2>1 DEF IInv, JInv, SaveStartsAbove
<1>9. RevealsLast' /\ FileAhead(debt)' /\ UsedIsReserved' /\ OneTime'
  BY <1>1 DEF IInv, JInv, RevealsLast, FileAhead, UsedIsReserved, OneTime
<1> QED BY <1>5, <1>6, <1>7, <1>8, <1>9 DEF JInv

LEMMA KillStepJ ==
  ASSUME NEW debt, IInv(debt), (\E h \in Handles : Crash(h)) \/ PowerLoss
  PROVE  JInv(debt)'
<1>1. PICK hs \in SUBSET Handles, ts \in SUBSET Threads :
        /\ Forget(hs, ts)
        /\ \A t \in Threads : Busy(t) => (t \in ts <=> job[t].h \in hs)
        /\ file' # file => ts = Threads
  <2>1. CASE PowerLoss
    <3>1. \A t \in Threads : Busy(t) => job[t].h \in Handles
      BY ObjectOf DEF IInv
    <3> QED BY <2>1, <3>1, Zenon DEF PowerLoss
  <2>2. CASE \E h \in Handles : Crash(h)
    <3>1. PICK h \in Handles : Crash(h)
      BY <2>2
    <3>2. \A t \in Threads : Busy(t) => (t \in CallsOn(h) <=> job[t].h \in {h})
      BY SlotAssumption, ObjectOf DEF CallsOn, IInv
    <3>3. CallsOn(h) \subseteq Threads /\ {h} \subseteq Handles
      BY DEF CallsOn
    <3> QED BY <3>1, <3>2, <3>3 DEF Crash, KillIO
  <2> QED BY <2>1, <2>2
<1>2. file' \in {file, durable} /\ durable' \in {file, durable} /\ UNCHANGED <<born, reserved, uses>>
  BY DEF Crash, KillIO, PowerLoss, PowerLossIO
<1>3. /\ \A t \in ts : ~Busy(t)' /\ pc'[t] = "idle"
      /\ \A t \in Threads \ ts : pc'[t] = pc[t] /\ job'[t] = job[t] /\ (Busy(t)' <=> Busy(t))
      /\ \A h \in Handles : handle'[h] # NoHandle => handle'[h] = handle[h]
      /\ \A t \in Threads \ ts : Busy(t) => handle'[job[t].h] = handle[job[t].h]
  BY <1>1, ObjectOf DEF Forget, Busy, IInv
<1>4. IdentitiesBorn'
  BY <1>2, <1>3 DEF IInv, JInv, IdentitiesBorn
<1>5. MemoryIsAlone'
  BY <1>2, <1>3 DEF IInv, JInv, MemoryIsAlone
<1>6. NewIsUnused'
  <2>1. \A t \in Threads : pc'[t] \in {"temp", "replace"} => t \notin ts /\ file' = file
    BY <1>1, <1>3
  <2> QED BY <1>2, <1>3, <2>1 DEF IInv, JInv, NewIsUnused
<1>7. SaveStartsAbove(debt)'
  <2>1. \A t \in Threads : pc'[t] \in Saving =>
          /\ t \notin ts /\ file' = file /\ pc[t] = pc'[t] /\ job'[t] = job[t] /\ Busy(t)
          /\ handle'[job[t].h] = handle[job[t].h]
    BY <1>1, <1>3 DEF Saving, Busy
  <2>2. \A t \in Threads : pc'[t] \in Saving => Saved(t)' = Saved(t)
    BY <2>1 DEF Saved
  <2> QED BY <1>2, <2>1, <2>2 DEF IInv, JInv, SaveStartsAbove
<1>8. RevealsLast'
  BY <1>2, <1>3 DEF IInv, JInv, RevealsLast
<1>9. FileAhead(debt)' /\ UsedIsReserved' /\ OneTime'
  BY <1>2 DEF IInv, JInv, FileAhead, UsedIsReserved, OneTime
<1> QED BY <1>4, <1>5, <1>6, <1>7, <1>8, <1>9 DEF JInv

LEMMA OwnerStepJ ==
  ASSUME NEW debt, IInv(debt), Link \/ RemoveKey
  PROVE  JInv(debt)'
<1>1. /\ UNCHANGED <<durable, handle, pc, job, born, reserved, uses>>
      /\ file' \in {file, NoFile}
  BY DEF Link, RemoveKey, ioVars
<1>2. IdentitiesBorn' /\ MemoryIsAlone' /\ NewIsUnused' /\ FileAhead(debt)'
  BY <1>1 DEF IInv, JInv, IdentitiesBorn, MemoryIsAlone, NewIsUnused, FileAhead, Busy
<1>3. SaveStartsAbove(debt)' /\ RevealsLast' /\ UsedIsReserved' /\ OneTime'
  BY <1>1 DEF IInv, JInv, SaveStartsAbove, RevealsLast, UsedIsReserved, OneTime, Saving, Saved
<1> QED BY <1>2, <1>3 DEF JInv

LEMMA IStep ==
  ASSUME NEW debt, IInv(debt), [Next]_vars, NoSignOwing(debt)'
  PROVE  IInv(debt)'
<1>1. CInv'
  BY CStep DEF IInv
<1>2. CASE UNCHANGED vars
  <2>1. UNCHANGED <<file, durable, handle, pc, job, born, reserved, uses>>
    BY <1>2 DEF vars, ioVars, signerVars
  <2>2. IdentitiesBorn' /\ MemoryIsAlone' /\ NewIsUnused' /\ FileAhead(debt)'
    BY <2>1 DEF IInv, JInv, IdentitiesBorn, MemoryIsAlone, NewIsUnused, FileAhead, Busy
  <2>3. SaveStartsAbove(debt)' /\ RevealsLast' /\ UsedIsReserved' /\ OneTime'
    BY <2>1 DEF IInv, JInv, SaveStartsAbove, RevealsLast, UsedIsReserved, OneTime, Saving, Saved
  <2> QED BY <1>1, <2>2, <2>3 DEF IInv, JInv
<1>3. CASE \E t \in Threads, h \in Handles : Calls(t, h)
  BY <1>1, <1>3, StartStepJ DEF IInv
<1>4. CASE \E t \in Threads : Waits(t)
  BY <1>1, <1>4, WaitStepJ DEF IInv
<1>5. CASE \E t \in Threads : Runs(t)
  BY <1>1, <1>5, ReserveStepJ, RefuseStepJ, WaitStepJ, NewIdentityStepJ, ReplaceStepJ, SyncStepJ,
     RevealStepJ, GiveUpStepJ, ReturnGivesUp DEF IInv, Runs
<1>6. CASE Environment
  BY <1>1, <1>6, OpenStepJ, KillStepJ, OwnerStepJ DEF IInv, Environment
<1> QED BY <1>2, <1>3, <1>4, <1>5, <1>6 DEF Next

LEMMA IInvAlways == Spec => []IInv(0)
<1>1. IInv(0) /\ [Next]_vars => IInv(0)'
  BY IStep DEF NoSignOwing
<1> QED BY <1>1, IInit, PTL DEF Spec

(***************************************************************************)
(* Each one-time leaf of each identity signs at most once, for every       *)
(* number of threads, objects, identities and leaves, whatever calls       *)
(* interleave and wherever processes die (sign).                           *)
(***************************************************************************)
THEOREM LeavesAreOneTime == Spec => []OneTime
<1>1. IInv(0) => OneTime
  BY DEF IInv, JInv
<1> QED BY <1>1, IInvAlways, PTL

(***************************************************************************)
(* A leaf whose secret values are out is spent in the key file and in what *)
(* a power loss would leave of it (_sign_reserved).                        *)
(***************************************************************************)
THEOREM UsedLeavesAreSpent == Spec => []SpentOnDisk
<1>1. IInv(0) => SpentOnDisk
  <2> SUFFICES ASSUME IInv(0) PROVE SpentOnDisk
    OBVIOUS
  <2>1. ASSUME NEW f \in Key \cup {NoFile}, f # NoFile => reserved[f.id] <= f.next
        PROVE  SpentIn(f)
    <3> SUFFICES ASSUME f # NoFile, NEW i \in Leaves, uses[f.id][i] > 0 PROVE i < f.next
      BY DEF SpentIn
    <3>1. f.id \in Ids /\ f.next \in Nat /\ reserved[f.id] \in Nat /\ i \in Nat
      BY LeafAssumption DEF Key, IInv, CInv, TypeOK, StateTypeOK, Leaves
    <3>2. i < reserved[f.id]
      BY <3>1 DEF IInv, JInv, UsedIsReserved
    <3> QED BY <2>1, <3>1, <3>2
  <2>2. file \in Key \cup {NoFile} /\ durable \in Key \cup {NoFile}
    BY DEF IInv, CInv, TypeOK, StateTypeOK
  <2>3. /\ file # NoFile => reserved[file.id] <= file.next
        /\ durable # NoFile => reserved[durable.id] <= durable.next
    BY <2>2 DEF IInv, JInv, FileAhead, Key
  <2> QED BY <2>1, <2>2, <2>3 DEF SpentOnDisk
<1> QED BY <1>1, IInvAlways, PTL

-----------------------------------------------------------------------------
(***************************************************************************)
(* Refinement: a claim in memory and the fsync of a save map to Reserve or *)
(* to a stutter, Reveal maps to Sign, and every other step to a stutter.   *)
(***************************************************************************)
Quiet(t) ==
  \/ RefuseLeaf(t) \/ RefuseAdvance(t) \/ RefuseState(t) \/ NewIdentity(t)
  \/ SaveTemp(t) \/ SaveReplace(t) \/ SaveFails(t) \/ Interrupted(t) \/ Return(t)

LEMMA OtherStepsStutter ==
  ASSUME [Next]_vars, ~\E t \in Threads : \/ ReserveLeaf(t) \/ SpendLeaves(t)
                                         \/ SaveSync(t) \/ Reveal(t)
  PROVE  UNCHANGED <<reserved, uses>>
<1>1. CASE UNCHANGED vars
  BY <1>1 DEF vars, signerVars
<1>2. CASE \E t \in Threads, h \in Handles : Calls(t, h)
  BY <1>2 DEF Calls, SignCall, AdvanceCall, CreateCall, Start
<1>3. CASE \E t \in Threads : Waits(t)
  BY <1>3 DEF Waits, TakeThreadLock, TakeStateLock
<1>4. CASE \E t \in Threads : Quiet(t)
  BY <1>4 DEF Quiet, RefuseLeaf, RefuseAdvance, RefuseState, NewIdentity, SaveTemp, SaveReplace,
              SaveFails, Interrupted, Return
<1>5. CASE Environment
  BY <1>5 DEF Environment, Open, OpenMemory, Crash, PowerLoss, Link, RemoveKey
<1> QED BY <1>1, <1>2, <1>3, <1>4, <1>5 DEF Next, Runs, Quiet

\* A save, or a claim in memory, sets the saved index of one identity.
LEMMA ReservingStep ==
  ASSUME IInv(0), NEW t \in Threads, ReserveLeaf(t) \/ SpendLeaves(t) \/ SaveSync(t)
  PROVE  [OTK!Reserve(job[t].id)]_<<reserved, uses>> /\ job[t].id \in Ids /\ UNCHANGED uses
<1> DEFINE k == job[t].id
<1>1. Busy(t) /\ job[t] \in Job /\ reserved \in [Ids -> 0..LeafCount] /\ UNCHANGED uses
  BY ObjectOf DEF ReserveLeaf, SpendLeaves, Claim, SaveSync, Busy, IInv, CInv, TypeOK, StateTypeOK
<1>2. ASSUME k \in Ids, NEW n \in 0..LeafCount,
             \/ reserved' = reserved
             \/ reserved[k] < n /\ reserved' = [reserved EXCEPT ![k] = n]
      PROVE  [OTK!Reserve(k)]_<<reserved, uses>>
  <2>1. reserved[k] \in Nat /\ LeafCount \in Nat
    BY <1>1, <1>2, LeafAssumption
  <2>2. reserved[k] < n => n \in 1..LeafCount /\ n > reserved[k]
    BY <1>2, <2>1
  <2> QED BY <1>1, <1>2, <2>2 DEF OTK!Reserve
<1>3. CASE ReserveLeaf(t) \/ SpendLeaves(t)
  <2>1. pc[t] = "check" /\ job[t].op \in {"sign", "advance"} /\ AdvanceReads(job[t].h)
    BY <1>3 DEF ReserveLeaf, SpendLeaves, SignReads, AdvanceReads
  <2>2. /\ Latest(job[t].h) \in 0..LeafCount /\ reserved[k] <= Latest(job[t].h)
        /\ AdvanceFrom(job[t].h) \in 0..LeafCount /\ reserved[k] <= AdvanceFrom(job[t].h)
    BY <2>1, LatestIsAhead
  <2>3. k \in Ids /\ reserved[k] \in Nat
    BY <1>1, <2>1, ObjectOf DEF Handle, IInv
  <2>4. ReserveLeaf(t) => /\ Chosen(t) \in Nat /\ Chosen(t) + 1 \in 0..LeafCount
                          /\ reserved[k] < Chosen(t) + 1
    BY <1>1, <2>2, <2>3, LeafAssumption, ArgumentAssumption DEF ReserveLeaf, Usable, Chosen, Job
  <2>5. SpendLeaves(t) => /\ AdvanceFrom(job[t].h) + job[t].arg \in 0..LeafCount
                          /\ reserved[k] < AdvanceFrom(job[t].h) + job[t].arg
    <3>1. SpendLeaves(t) => job[t].arg \in 1..LeafCount
      BY <1>1, ObjectOf DEF SpendLeaves, IInv, CInv, CallHasObject
    <3> QED BY <2>2, <2>3, <3>1, LeafAssumption DEF SpendLeaves
  <2>6. PICK n \in 0..LeafCount : /\ reserved[k] < n
                                  /\ reserved' \in {reserved, [reserved EXCEPT ![k] = n]}
    <3>1. CASE ReserveLeaf(t)
      BY <2>4, <3>1 DEF ReserveLeaf, Claim
    <3>2. CASE SpendLeaves(t)
      BY <2>5, <3>2 DEF SpendLeaves, Claim
    <3> QED BY <1>3, <3>1, <3>2
  <2> QED BY <1>1, <1>2, <2>3, <2>6
<1>4. CASE SaveSync(t)
  <2>1. k \in Ids /\ Saved(t).next \in 0..LeafCount /\ reserved[k] \in Nat
    BY <1>1, <1>4, SavedIsAhead DEF SaveSync, Saving, Key
  <2>2. reserved' = [reserved EXCEPT ![k] = Larger(@, Saved(t).next)]
    BY <1>4 DEF SaveSync
  <2>3. CASE reserved[k] < Saved(t).next
    BY <1>1, <1>2, <2>1, <2>2, <2>3 DEF Larger
  <2>4. CASE ~(reserved[k] < Saved(t).next)
    <3>1. reserved' = reserved
      BY <1>1, <2>2, <2>4 DEF Larger
    <3> QED BY <1>1, <1>2, <2>1, <3>1
  <2> QED BY <1>1, <2>1, <2>3, <2>4
<1> QED BY <1>3, <1>4

\* Only the last leaf saved, never used before, goes out.
LEMMA RevealingStep ==
  ASSUME IInv(0), NEW t \in Threads, Reveal(t)
  PROVE  /\ OTK!Sign(job[t].id) /\ job[t].id \in Ids /\ job[t].leaf \in Leaves
         /\ reserved[job[t].id] = job[t].leaf + 1
         /\ uses' = [uses EXCEPT ![job[t].id][job[t].leaf] = 1]
<1> DEFINE k == job[t].id
           i == job[t].leaf
<1>1. k \in Ids /\ i \in Leaves /\ UNCHANGED reserved
  BY ObjectOf DEF Reveal, Busy, IInv, CInv, CallHoldsLocks, Job, Handle
<1>2. reserved[k] = i + 1 /\ uses[k][i] = 0
  BY DEF Reveal, IInv, JInv, RevealsLast
<1>3. uses' = [uses EXCEPT ![k][i] = 1]
  BY <1>1, <1>2 DEF Reveal, IInv, CInv, TypeOK, StateTypeOK
<1>4. i < reserved[k]
  BY <1>1, <1>2, LeafAssumption DEF Leaves
<1> QED BY <1>1, <1>2, <1>3, <1>4 DEF OTK!Sign, OTK!Leaves, Leaves

LEMMA StepIsOneTimeKey == IInv(0) /\ [Next]_vars => [OTK!Next]_<<reserved, uses>>
<1> SUFFICES ASSUME IInv(0), [Next]_vars PROVE [OTK!Next]_<<reserved, uses>>
  OBVIOUS
<1>1. CASE \E t \in Threads : ReserveLeaf(t) \/ SpendLeaves(t) \/ SaveSync(t)
  BY <1>1, ReservingStep DEF OTK!Next
<1>2. CASE \E t \in Threads : Reveal(t)
  BY <1>2, RevealingStep DEF OTK!Next
<1> QED BY <1>1, <1>2, OtherStepsStutter

(***************************************************************************)
(* The signer with its files, locks, failures and crashes does nothing the *)
(* abstract one-time key does not do.                                      *)
(***************************************************************************)
THEOREM SignerIsOneTimeKey == Spec => ImplementsOneTimeKey
<1>1. Init => OTK!Init
  BY DEF Init, OTK!Init, OTK!Leaves, Leaves
<1> QED BY <1>1, StepIsOneTimeKey, IInvAlways, PTL DEF Spec, ImplementsOneTimeKey, OTK!Spec

(***************************************************************************)
(* Signatures of one identity go out in leaf order.                        *)
(***************************************************************************)
THEOREM LeavesGoOutInOrder == Spec => LeafOrder
<1> DEFINE Ordered ==
      \A k \in Ids : \A i \in Leaves :
        uses'[k][i] > uses[k][i] => \A j \in Leaves : j > i => uses[k][j] = 0
<1>1. IInv(0) /\ [Next]_vars => [Ordered]_vars
  <2> SUFFICES ASSUME IInv(0), [Next]_vars PROVE Ordered
    OBVIOUS
  <2>1. uses \in [Ids -> [Leaves -> Nat]]
    BY DEF IInv, CInv, TypeOK, StateTypeOK
  <2>2. CASE UNCHANGED uses
    <3>1. \A k \in Ids, i \in Leaves : uses[k][i] \in Nat /\ ~(uses'[k][i] > uses[k][i])
      BY <2>1, <2>2
    <3> QED BY <3>1
  <2>3. CASE \E t \in Threads : Reveal(t)
    <3>1. PICK t \in Threads : Reveal(t)
      BY <2>3
    <3> DEFINE k == job[t].id
               i == job[t].leaf
    <3>2. /\ k \in Ids /\ i \in Leaves /\ reserved[k] = i + 1
          /\ uses' = [uses EXCEPT ![k][i] = 1]
      BY <3>1, RevealingStep
    <3>3. \A l \in Ids, j \in Leaves : uses'[l][j] > uses[l][j] => l = k /\ j = i
      BY <2>1, <3>2
    <3>4. \A j \in Leaves : j > i => ~(j < reserved[k]) /\ uses[k][j] \in Nat
      BY <2>1, <3>2, LeafAssumption DEF Leaves
    <3>5. \A j \in Leaves : j > i => uses[k][j] = 0
      BY <3>2, <3>4 DEF IInv, JInv, UsedIsReserved
    <3> QED BY <3>3, <3>5
  <2> QED BY <2>2, <2>3, ReservingStep, OtherStepsStutter
<1> QED BY <1>1, IInvAlways, PTL DEF Spec, LeafOrder

-----------------------------------------------------------------------------
(***************************************************************************)
(* What a save in progress finds when it comes to the rename: the key of   *)
(* its own identity, no further than the index it claimed from, or no key  *)
(* at all (SaveFollows); and its own temporary copy, alone unless removing *)
(* stale ones may fail (CopyIsOwn).                                        *)
(***************************************************************************)
SaveFollows ==
  \A t \in Threads : pc[t] \in {"temp", "replace"} /\ file # NoFile =>
    job[t].op # "create" /\ file.id = job[t].id /\ file.next <= job[t].old

CopyIsOwn ==
  \A t \in Threads : pc[t] = "replace" =>
    t \in temps /\ (~UnlinkFails => temps = {t})

SaveInv == SaveFollows /\ CopyIsOwn

\* The lock lets one save run at a time.
LEMMA SavesExclude ==
  ASSUME IInv(0), NEW t \in Threads, NEW s \in Threads, s # t, pc[t] \in Saving
  PROVE  pc[s] \notin Saving
<1>1. pc[t] \in Critical /\ OnFile(t)
  BY SavedIsAhead
<1>2. pc[s] \in Saving => pc[s] \in Critical /\ OnFile(s)
  BY SavedIsAhead
<1> QED BY <1>1, <1>2, Others

LEMMA SaverUntouched ==
  ASSUME SaveInv, UNCHANGED temps, file' \in {file, NoFile},
         \A s \in Threads : pc'[s] \in {"temp", "replace"} => pc'[s] = pc[s] /\ job'[s] = job[s]
  PROVE  SaveInv'
  BY DEF SaveInv, SaveFollows, CopyIsOwn

LEMMA ClaimStepS ==
  ASSUME IInv(0), SaveInv, NEW t \in Threads, ReserveLeaf(t) \/ SpendLeaves(t)
  PROVE  SaveInv'
<1> DEFINE h == job[t].h
<1>1. PICK n, from, leaf : Claim(t, n, from, leaf)
                           /\ from \in {Latest(h), AdvanceFrom(h)}
  BY DEF ReserveLeaf, SpendLeaves
<1>2. /\ pc[t] = "check" /\ job[t].op # "create" /\ Busy(t)
      /\ SignReads(h) \/ AdvanceReads(h)
  BY DEF ReserveLeaf, SpendLeaves, Busy
<1>3. AdvanceReads(h)
  BY <1>2 DEF SignReads, AdvanceReads
<1>4. /\ job[t] \in Job /\ h \in Handles /\ handle[h] \in Handle /\ job[t].id = handle[h].id
  BY <1>2, ObjectOf DEF IInv
<1>5. /\ UNCHANGED <<file, temps>>
      /\ pc'[t] = (IF InMemory(h) THEN AfterSave(t) ELSE "temp")
      /\ job'[t].op = job[t].op /\ job'[t].id = job[t].id /\ job'[t].old = from
      /\ \A s \in Threads \ {t} : pc'[s] = pc[s] /\ job'[s] = job[s]
  BY <1>1, <1>4 DEF Claim, Goto, ioVars, IInv, CInv, TypeOK, StateTypeOK, Job
<1>6. pc'[t] # "replace" /\ (pc'[t] = "temp" => ~InMemory(h))
  BY <1>5 DEF AfterSave
<1>7. ~InMemory(h) /\ file # NoFile => file.id = handle[h].id /\ file.next <= from
  <2>1. file # NoFile => file.next \in 0..LeafCount
    BY DEF IInv, CInv, TypeOK, StateTypeOK, Key
  <2>2. handle[h].next \in 0..LeafCount
    BY <1>4 DEF Handle
  <2> QED BY <1>1, <1>3, <2>1, <2>2 DEF AdvanceReads, SameIdentity, Latest, AdvanceFrom, Larger
<1>8. SaveFollows'
  BY <1>2, <1>4, <1>5, <1>6, <1>7 DEF SaveInv, SaveFollows
<1>9. CopyIsOwn'
  BY <1>5, <1>6 DEF SaveInv, CopyIsOwn
<1> QED BY <1>8, <1>9 DEF SaveInv

\* The steps of a save.
LEMMA SaveStepS ==
  ASSUME IInv(0), SaveInv, NEW t \in Threads,
         \/ NewIdentity(t) \/ SaveTemp(t) \/ SaveReplace(t) \/ SaveFails(t) \/ Interrupted(t)
  PROVE  SaveInv'
<1>1. /\ pc'[t] \in {"temp", "replace", "sync", "raise"}
      /\ \A s \in Threads \ {t} : pc'[s] = pc[s] /\ job'[s] = job[s]
  BY DEF NewIdentity, SaveTemp, SaveReplace, SaveFails, Interrupted, Goto, IInv, CInv, TypeOK, StateTypeOK
<1>2. CASE NewIdentity(t)
  <2>1. file' = NoFile /\ temps' = temps /\ pc'[t] = "temp"
    BY <1>2 DEF NewIdentity, Goto, ioVars, IInv, CInv, TypeOK
  <2> QED BY <1>1, <2>1 DEF SaveInv, SaveFollows, CopyIsOwn
<1>3. CASE SaveTemp(t)
  <2>1. /\ pc[t] = "temp" /\ pc'[t] = "replace" /\ UNCHANGED <<file, job>>
        /\ t \in temps' /\ (~UnlinkFails => temps' = {t})
    BY <1>3 DEF SaveTemp, WriteTemp, StaleLeft, Goto, IInv, CInv, TypeOK
  <2>2. \A s \in Threads \ {t} : pc'[s] # "replace"
    BY <1>1, <2>1, SavesExclude DEF Saving
  <2> QED BY <1>1, <2>1, <2>2 DEF SaveInv, SaveFollows, CopyIsOwn
<1>4. CASE SaveReplace(t)
  <2>1. pc[t] = "replace" /\ pc'[t] = "sync"
    BY <1>4 DEF SaveReplace, Goto, IInv, CInv, TypeOK
  <2>2. \A s \in Threads : pc'[s] \notin {"temp", "replace"}
    BY <1>1, <2>1, SavesExclude DEF Saving
  <2> QED BY <2>2 DEF SaveInv, SaveFollows, CopyIsOwn
<1>5. CASE SaveFails(t) \/ Interrupted(t)
  <2>1. pc'[t] = "raise" /\ UNCHANGED <<file, job>> /\ temps' = temps \ {t}
    BY <1>5 DEF SaveFails, Interrupted, DropTemp, Goto, IInv, CInv, TypeOK
  <2>2. \A s \in Threads : pc'[s] = "replace" => s # t /\ pc[s] = "replace"
    BY <1>1, <2>1
  <2>3. \A s \in Threads : pc'[s] = "replace" => s \in temps' /\ (~UnlinkFails => temps' = {s})
    BY <2>1, <2>2 DEF SaveInv, CopyIsOwn
  <2> QED BY <1>1, <2>1, <2>3 DEF SaveInv, SaveFollows, CopyIsOwn
<1> QED BY <1>2, <1>3, <1>4, <1>5

LEMMA KillStepS ==
  ASSUME IInv(0), SaveInv, (\E h \in Handles : Crash(h)) \/ PowerLoss
  PROVE  SaveInv'
<1>1. CASE PowerLoss
  <2>1. \A s \in Threads : pc'[s] = "idle"
    BY <1>1 DEF PowerLoss, Forget
  <2> QED BY <2>1 DEF SaveInv, SaveFollows, CopyIsOwn
<1>2. CASE \E h \in Handles : Crash(h)
  <2>1. PICK h \in Handles : Crash(h)
    BY <1>2
  <2>2. /\ UNCHANGED file /\ temps' = Orphaned(CallsOn(h))
        /\ \A s \in Threads : pc'[s] # "idle" => s \notin CallsOn(h) /\ pc'[s] = pc[s] /\ job'[s] = job[s]
    BY <2>1 DEF Crash, KillIO, Forget
  <2>3. SaveFollows'
    BY <2>2 DEF SaveInv, SaveFollows
  <2>4. \A s \in Threads : pc'[s] = "replace" => s \in temps' /\ (~UnlinkFails => temps' = {s})
    BY <2>2 DEF SaveInv, CopyIsOwn, Orphaned
  <2> QED BY <2>3, <2>4 DEF SaveInv, CopyIsOwn
<1> QED BY <1>1, <1>2

LEMMA SaveInvStep == IInv(0) /\ SaveInv /\ [Next]_vars => SaveInv'
<1> SUFFICES ASSUME IInv(0), SaveInv, [Next]_vars PROVE SaveInv'
  OBVIOUS
<1> DEFINE Untouched == /\ UNCHANGED temps /\ file' \in {file, NoFile}
                        /\ \A s \in Threads : pc'[s] \in {"temp", "replace"} =>
                             pc'[s] = pc[s] /\ job'[s] = job[s]
<1>1. CASE UNCHANGED vars
  <2>1. Untouched
    BY <1>1 DEF vars, ioVars, signerVars
  <2> QED BY <2>1, SaverUntouched
<1>2. CASE \E t \in Threads, h \in Handles : Calls(t, h)
  <2>1. Untouched
    BY <1>2 DEF Calls, SignCall, AdvanceCall, CreateCall, Start, Goto, ioVars, IInv, CInv, TypeOK, StateTypeOK
  <2> QED BY <2>1, SaverUntouched
<1>3. CASE \E t \in Threads : Waits(t)
  <2>1. Untouched
    BY <1>3 DEF Waits, TakeThreadLock, TakeStateLock, Goto, ioVars, IInv, CInv, TypeOK, StateTypeOK
  <2> QED BY <2>1, SaverUntouched
<1>4. CASE \E t \in Threads : \/ RefuseLeaf(t) \/ RefuseAdvance(t) \/ RefuseState(t)
                              \/ SaveSync(t) \/ Reveal(t) \/ Return(t)
  <2>1. Untouched
    BY <1>4 DEF RefuseLeaf, RefuseAdvance, RefuseState, SaveSync, AfterSave, Reveal, Return, Goto, ioVars,
                IInv, CInv, TypeOK, StateTypeOK
  <2> QED BY <2>1, SaverUntouched
<1>5. CASE (\E h \in Handles : Open(h) \/ OpenMemory(h)) \/ Link \/ RemoveKey
  <2>1. Untouched
    BY <1>5 DEF Open, OpenMemory, Link, RemoveKey, ioVars
  <2> QED BY <2>1, SaverUntouched
<1> QED BY <1>1, <1>2, <1>3, <1>4, <1>5, ClaimStepS, SaveStepS, KillStepS DEF Next, Runs, Environment

LEMMA SaveInvAlways == Spec => []SaveInv
<1>1. Init => SaveInv
  BY DEF Init, SaveInv, SaveFollows, CopyIsOwn
<1> QED BY <1>1, SaveInvStep, IInvAlways, PTL DEF Spec

(***************************************************************************)
(* No writer removes the temporary copy of a live one (remove_stale_temps: *)
(* "no live writer can own one then").                                     *)
(***************************************************************************)
THEOREM LiveCopiesAreKept == Spec => []LiveTempKept
<1>1. SaveInv => LiveTempKept
  BY DEF SaveInv, CopyIsOwn, LiveTempKept
<1> QED BY <1>1, SaveInvAlways, PTL

(***************************************************************************)
(* The copies of the seed that killed signers left behind are gone by the  *)
(* time a later save replaces the key file (docs/SIGNING.md: "removed the  *)
(* next time the key signs").                                              *)
(***************************************************************************)
THEOREM DeadCopiesAreCleared == Spec => SeedCopiesCleared
<1>1. SaveInv => [(\E t \in Threads : SaveReplace(t)) /\ ~UnlinkFails => temps' = {}]_vars
  BY DEF SaveInv, CopyIsOwn, SaveReplace, Replace
<1> QED BY <1>1, SaveInvAlways, PTL DEF Spec, SeedCopiesCleared

\* A rename puts the key of the same identity, further on, in the place of a key.
LEMMA ReplaceFollows ==
  ASSUME IInv(0), SaveInv, NEW t \in Threads, SaveReplace(t), file # NoFile
  PROVE  Follows(file, file')
<1>1. pc[t] = "replace" /\ file' = Saved(t)
  BY DEF SaveReplace, Replace
<1>2. job[t].op # "create" /\ file.id = job[t].id /\ file.next <= job[t].old
  BY <1>1 DEF SaveInv, SaveFollows
<1>3. Saved(t).id = job[t].id /\ Saved(t).next = handle[job[t].h].next /\ Saved(t) \in Key /\ Busy(t)
  BY <1>1, <1>2, SavedIsAhead DEF Saving
<1>4. job[t].old < handle[job[t].h].next
  BY <1>1, <1>2 DEF IInv, JInv, SaveStartsAbove, Saving
<1>5. file.next \in Nat /\ job[t].old \in Nat /\ Saved(t).next \in Nat
  BY <1>3, ObjectOf DEF IInv, CInv, TypeOK, StateTypeOK, Key, Job
<1> QED BY <1>1, <1>2, <1>3, <1>4, <1>5 DEF Follows

(***************************************************************************)
(* A key file is never replaced by another identity nor by a lower index   *)
(* of its own, but for a power loss that undoes an unsynced rename         *)
(* (create: "refusing to overwrite a signing key").                        *)
(***************************************************************************)
THEOREM KeyFileGoesForward == Spec => FileForward
<1> DEFINE Forward == file # NoFile /\ file' \notin {NoFile, durable} => Follows(file, file')
<1>1. IInv(0) /\ SaveInv /\ [Next]_vars => [Forward]_vars
  <2> SUFFICES ASSUME IInv(0), SaveInv, [Next]_vars, ~UNCHANGED vars PROVE Forward
    OBVIOUS
  <2>1. CASE \E t \in Threads : SaveReplace(t)
    BY <2>1, ReplaceFollows
  <2>2. CASE PowerLoss \/ RemoveKey
    <3>1. file' \in {file, durable, NoFile}
      BY <2>2 DEF PowerLoss, PowerLossIO, RemoveKey
    <3>2. file # NoFile => file.next \in Nat
      BY DEF IInv, CInv, TypeOK, StateTypeOK, Key
    <3> QED BY <3>1, <3>2 DEF Follows
  <2>3. CASE UNCHANGED file
    <3>1. file # NoFile => file.next \in Nat
      BY DEF IInv, CInv, TypeOK, StateTypeOK, Key
    <3> QED BY <2>3, <3>1 DEF Follows
  <2>4. \/ \E t \in Threads : SaveReplace(t)
        \/ PowerLoss \/ RemoveKey
        \/ UNCHANGED file
    <3>1. CASE \E t \in Threads, h \in Handles : Calls(t, h)
      BY <3>1 DEF Calls, SignCall, AdvanceCall, CreateCall, Start, ioVars
    <3>2. CASE \E t \in Threads : Waits(t)
      BY <3>2 DEF Waits, TakeThreadLock, TakeStateLock, ioVars
    <3>3. CASE \E t \in Threads : Runs(t)
      BY <3>3 DEF Runs, ReserveLeaf, SpendLeaves, Claim, RefuseLeaf, RefuseAdvance, RefuseState, NewIdentity,
                  SaveTemp, SaveSync, SaveFails, Interrupted, Reveal, Return, ioVars
    <3>4. CASE Environment
      BY <3>4 DEF Environment, Open, OpenMemory, Crash, KillIO, Link, ioVars
    <3> QED BY <3>1, <3>2, <3>3, <3>4 DEF Next
  <2> QED BY <2>1, <2>2, <2>3, <2>4
<1> QED BY <1>1, IInvAlways, SaveInvAlways, PTL DEF Spec, FileForward
-----------------------------------------------------------------------------
(***************************************************************************)
(* What a signer that computes its signatures outside the locks (LmsState) *)
(* needs of the protocol inside them.                                      *)
(***************************************************************************)
\* A saved index never falls.
LEMMA ReservedRises ==
  ASSUME IInv(0), [Next]_vars, NEW k \in Ids
  PROVE  reserved[k] \in Nat /\ reserved'[k] \in Nat /\ reserved[k] <= reserved'[k]
<1>1. reserved \in [Ids -> 0..LeafCount] /\ reserved[k] \in Nat
  BY LeafAssumption DEF IInv, CInv, TypeOK, StateTypeOK
<1>2. CASE UNCHANGED reserved
  BY <1>1, <1>2
<1>3. CASE \E j \in Ids : OTK!Reserve(j)
  <2>1. PICK j \in Ids, n \in 1..LeafCount : n > reserved[j] /\ reserved' = [reserved EXCEPT ![j] = n]
    BY <1>3 DEF OTK!Reserve
  <2>2. n \in Nat
    BY LeafAssumption
  <2>3. reserved'[k] = IF k = j THEN n ELSE reserved[k]
    BY <1>1, <2>1
  <2> QED BY <1>1, <2>1, <2>2, <2>3
<1> QED BY <1>2, <1>3, StepIsOneTimeKey DEF OTK!Next, OTK!Sign

\* A leaf that is about to go out lies above all that were saved before it.
LEMMA RevealsAfresh ==
  ASSUME IInv(0), NEW t \in Threads, ReserveLeaf(t) \/ SaveSync(t), pc'[t] = "reveal"
  PROVE  /\ job'[t].id = job[t].id /\ job[t].id \in Ids /\ job'[t].leaf \in Leaves
         /\ reserved[job[t].id] <= job'[t].leaf
<1>1. CASE ReserveLeaf(t)
  <2>1. pc[t] = "check" /\ job[t].op # "create" /\ AdvanceReads(job[t].h) /\ Busy(t) /\ Usable(t)
    BY <1>1 DEF ReserveLeaf, SignReads, AdvanceReads, Busy
  <2>2. job[t] \in Job /\ job[t].id \in Ids
    BY <2>1, ObjectOf DEF IInv, Handle
  <2>3. job' = [job EXCEPT ![t].leaf = Chosen(t), ![t].old = Latest(job[t].h)]
    BY <1>1 DEF ReserveLeaf, Claim
  <2>4. job'[t].id = job[t].id /\ job'[t].leaf = Chosen(t)
    BY <2>2, <2>3 DEF IInv, CInv, TypeOK, StateTypeOK, Job
  <2>5. reserved[job[t].id] <= Latest(job[t].h) /\ Latest(job[t].h) \in 0..LeafCount
    BY <2>1, LatestIsAhead
  <2>6. reserved[job[t].id] \in Nat
    BY <2>2 DEF IInv, CInv, TypeOK, StateTypeOK
  <2>7. Chosen(t) \in Leaves /\ Latest(job[t].h) <= Chosen(t)
    BY <2>1, <2>2, <2>5, LeafAssumption, ArgumentAssumption DEF Usable, Chosen, Leaves, Job
  <2> QED BY <2>2, <2>4, <2>5, <2>6, <2>7, LeafAssumption DEF Leaves
<1>2. CASE SaveSync(t)
  <2>1. pc[t] = "sync" /\ job' = job /\ job[t].op = "sign"
    BY <1>2 DEF SaveSync, AfterSave, Goto, IInv, CInv, TypeOK
  <2>2. job[t] \in Job /\ job[t].id \in Ids /\ handle[job[t].h] \in Handle
    BY <2>1, ObjectOf, SavedIsAhead DEF Saving, IInv
  <2>3. /\ reserved[job[t].id] <= job[t].old + 0 /\ job[t].old < handle[job[t].h].next
        /\ handle[job[t].h].next = job[t].leaf + 1
    BY <2>1 DEF IInv, JInv, SaveStartsAbove, Saving
  <2>4. reserved[job[t].id] \in Nat /\ job[t].old \in Nat /\ job[t].leaf \in Nat
    BY <2>2, LeafAssumption DEF IInv, CInv, TypeOK, StateTypeOK, Job, Leaves
  <2> QED BY <2>1, <2>2, <2>3, <2>4 DEF Job
<1> QED BY <1>1, <1>2

\* A saved leaf nobody has used, and nobody is about to reveal, may be used.
LEMMA UsedOutside ==
  ASSUME IInv(0), NEW k \in Ids, NEW i \in Leaves, i < reserved[k], uses[k][i] = 0,
         \A s \in Threads : pc[s] = "reveal" /\ job[s].id = k => job[s].leaf # i,
         uses' = [uses EXCEPT ![k][i] = @ + 1],
         UNCHANGED <<ioVars, handle, tlock, pc, job, linked, born, reserved>>
  PROVE  IInv(0)' /\ OTK!Sign(k)
<1>1. \A j \in Ids, l \in Leaves : uses'[j][l] = IF j = k /\ l = i THEN 1 ELSE uses[j][l]
  BY DEF IInv, CInv, TypeOK, StateTypeOK
<1>2. uses' = [uses EXCEPT ![k][i] = 1]
  BY DEF IInv, CInv, TypeOK, StateTypeOK
<1>3. [uses[k] EXCEPT ![i] = 1] \in [Leaves -> Nat]
  BY DEF IInv, CInv, TypeOK, StateTypeOK
<1>4. TypeOK'
  BY <1>2, <1>3 DEF IInv, CInv, TypeOK, StateTypeOK, ioVars
<1>5. CallHasObject' /\ CreateIsAlone' /\ CallHoldsLocks'
  BY DEF IInv, CInv, CallHasObject, CreateIsAlone, CallHoldsLocks, Busy, OnFile, ioVars
<1>6. IdentitiesBorn' /\ MemoryIsAlone' /\ NewIsUnused' /\ FileAhead(0)' /\ SaveStartsAbove(0)'
  BY DEF IInv, JInv, IdentitiesBorn, MemoryIsAlone, NewIsUnused, FileAhead, SaveStartsAbove, Saving, Saved,
         Busy, ioVars
<1>7. RevealsLast'
  <2> SUFFICES ASSUME NEW s \in Threads, pc[s] = "reveal"
               PROVE  reserved[job[s].id] = job[s].leaf + 1 /\ uses'[job[s].id][job[s].leaf] = 0
    BY DEF RevealsLast
  <2>1. job[s].id \in Ids /\ job[s].leaf \in Leaves
    BY ObjectOf DEF Busy, IInv, CInv, CallHoldsLocks, Job, Handle
  <2> QED BY <1>1, <2>1 DEF IInv, JInv, RevealsLast
<1>8. UsedIsReserved' /\ OneTime'
  BY <1>1 DEF IInv, JInv, UsedIsReserved, OneTime
<1>9. OTK!Sign(k)
  BY <1>2 DEF OTK!Sign, OTK!Leaves, Leaves
<1> QED BY <1>4, <1>5, <1>6, <1>7, <1>8, <1>9 DEF IInv, CInv, JInv, NoSignOwing
=============================================================================
