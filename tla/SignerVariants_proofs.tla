----------------------- MODULE SignerVariants_proofs -----------------------
(***************************************************************************)
(* Theorems about the two systems built on SignerState: the LMS key, which *)
(* signs outside its locks (LmsState), and the key file of which a copy is *)
(* put back (RestoredSigner).  Both run the protocol of SignerState, and   *)
(* both arguments use its invariant, IInv.                                 *)
(***************************************************************************)
EXTENDS LmsState, RestoredSigner, SignerState_proofs

-----------------------------------------------------------------------------
(***************************************************************************)
(* LmsState, for every number of threads, objects and leaves.  Inside its  *)
(* locks an LMS key runs MerkleSigner's protocol: with the calls that have *)
(* left their locks taken out, every step is one of SignerState (Locked),  *)
(* and what SignerState_proofs shows holds of it.                          *)
(*                                                                         *)
(* The theorems are about a key file that only ever holds one identity     *)
(* (OneIdentity): advance goes by whatever key it finds.                   *)
(***************************************************************************)
OneIdentity == \A j, k \in Ids : j = k

\* A call that has left its locks behind: it computes its signature, or has.
Outside(t) ==
  \/ pc[t] = "compute"
  \/ pc[t] \in {"done", "raise"} /\ job[t].op = "sign" /\ tlock[job[t].h] # t

LockedPc == [t \in Threads |-> IF Outside(t) THEN "idle" ELSE pc[t]]
LockedJob == [t \in Threads |-> IF Outside(t) THEN NoJob ELSE job[t]]

Locked == INSTANCE SignerState_proofs WITH pc <- LockedPc, job <- LockedJob

(***************************************************************************)
(* The inductive invariant: MerkleSigner's, of the calls inside their      *)
(* locks; a call outside holds nothing but its leaf, saved, unused, and    *)
(* like no other leaf on its way out.                                      *)
(***************************************************************************)
LmsTypeOK ==
  /\ pc \in [Threads -> InFlight \cup {"idle", "compute"}]
  /\ job \in [Threads -> Job \cup {NoJob}]

OutsideHoldsNothing ==
  \A t \in Threads : Outside(t) =>
    /\ job[t] \in Job /\ job[t].op = "sign"
    /\ handle[job[t].h] # NoHandle
    /\ lock # t /\ \A h \in Handles : tlock[h] # t

CopiesAreOwned == \A t \in Threads : t \in temps => pc[t] = "replace"

LeafIsHeld ==
  \A t \in Threads : pc[t] = "compute" =>
    /\ job[t].id \in Ids /\ job[t].leaf < reserved[job[t].id]
    /\ uses[job[t].id][job[t].leaf] = 0
    /\ \A s \in Threads \ {t} :
         pc[s] \in {"compute", "reveal"} /\ job[s].id = job[t].id => job[s].leaf # job[t].leaf

LInv == LmsTypeOK /\ Locked!IInv(0) /\ OutsideHoldsNothing /\ CopiesAreOwned /\ LeafIsHeld

-----------------------------------------------------------------------------
LEMMA LockedAssumptions ==
  /\ NoFile \notin Locked!Key /\ NoHandle \notin Locked!Handle /\ NoJob \notin Locked!Job
  /\ Asked \subseteq 0..LeafCount \cup {NextUnused} /\ Counts \subseteq 1..LeafCount
  /\ NextUnused \notin Nat /\ NoId \notin Ids
  /\ LeafCount \in Nat \ {0}
  /\ UnlinkFails \in BOOLEAN
  /\ Nobody \notin Threads
  BY SlotAssumption, RequestAssumption, ArgumentAssumption, LeafAssumption, UnlinkAssumption,
     NobodyAssumption
  DEF Key, Handle, Job, Leaves, Locked!Key, Locked!Handle, Locked!Job, Locked!Leaves

LEMMA LockedStep == Locked!IInv(0) /\ [Locked!Next]_(Locked!vars) => Locked!IInv(0)'
  BY Locked!IStep, LockedAssumptions DEF Locked!NoSignOwing

LEMMA LockedRises ==
  ASSUME Locked!IInv(0), [Locked!Next]_(Locked!vars), NEW k \in Ids
  PROVE  reserved[k] \in Nat /\ reserved'[k] \in Nat /\ reserved[k] <= reserved'[k]
  BY Locked!ReservedRises, LockedAssumptions

LEMMA LockedAfresh ==
  ASSUME Locked!IInv(0), NEW t \in Threads, Locked!ReserveLeaf(t) \/ Locked!SaveSync(t),
         LockedPc'[t] = "reveal"
  PROVE  /\ LockedJob'[t].id = LockedJob[t].id /\ LockedJob[t].id \in Ids
         /\ LockedJob'[t].leaf \in Leaves
         /\ reserved[LockedJob[t].id] <= LockedJob'[t].leaf
  BY Locked!RevealsAfresh, LockedAssumptions DEF Leaves, Locked!Leaves

LEMMA LockedGiveUp ==
  ASSUME Locked!IInv(0), NEW t \in Threads, Locked!GiveUp(t)
  PROVE  Locked!IInv(0)'
<1>1. Locked!CInv'
  BY Locked!GiveUpStep, LockedAssumptions DEF Locked!IInv
<1>2. Locked!JInv(0)'
  BY Locked!GiveUpStepJ, LockedAssumptions
<1> QED BY <1>1, <1>2 DEF Locked!IInv, Locked!NoSignOwing

LEMMA LockedUsed ==
  ASSUME Locked!IInv(0), NEW k \in Ids, NEW i \in Leaves, i < reserved[k], uses[k][i] = 0,
         \A s \in Threads : LockedPc[s] = "reveal" /\ LockedJob[s].id = k => LockedJob[s].leaf # i,
         uses' = [uses EXCEPT ![k][i] = @ + 1],
         UNCHANGED <<ioVars, handle, tlock, LockedPc, LockedJob, linked, born, reserved>>
  PROVE  Locked!IInv(0)' /\ Locked!OTK!Sign(k)
<1>1. i \in Locked!Leaves /\ UNCHANGED Locked!ioVars
  BY DEF Leaves, Locked!Leaves, ioVars, Locked!ioVars
<1> QED BY <1>1, Locked!UsedOutside, LockedAssumptions

-----------------------------------------------------------------------------
(***************************************************************************)
(* A step of a call inside its locks.                                      *)
(***************************************************************************)
OthersStay(t) == \A s \in Threads \ {t} : /\ pc'[s] = pc[s] /\ job'[s] = job[s]
                                          /\ Outside(s)' <=> Outside(s)

LEMMA InsideStep ==
  ASSUME LInv, NEW t \in Threads, [Locked!Next]_(Locked!vars),
         OthersStay(t), ~Outside(t)',
         NEW label \in InFlight \cup {"idle"}, pc' = [pc EXCEPT ![t] = label],
         NEW new, job' = [job EXCEPT ![t] = new],
         \A h \in Handles : handle[h] # NoHandle => handle'[h] # NoHandle,
         lock' \in {lock, t, Nobody},
         \A h \in Handles : tlock'[h] \in {tlock[h], t, Nobody},
         \A s \in temps' : \/ s \in temps /\ s # t
                           \/ s = t /\ label = "replace"
                           \/ s = Nobody,
         UNCHANGED uses,
         label = "reveal" => Locked!ReserveLeaf(t) \/ Locked!SaveSync(t)
  PROVE  LInv'
<1> USE DEF OthersStay
<1>1. Locked!IInv(0)'
  BY LockedStep DEF LInv
<1>2. /\ pc'[t] = label /\ job'[t] = new
      /\ LockedPc'[t] = label /\ LockedJob'[t] = new
  BY DEF LInv, LmsTypeOK, LockedPc, LockedJob
<1>3. LmsTypeOK'
  <2>1. new \in Job \cup {NoJob}
    BY <1>1, <1>2
    DEF Locked!IInv, Locked!CInv, Locked!TypeOK, Locked!StateTypeOK, Job, Locked!Job, Leaves, Locked!Leaves
  <2> QED BY <2>1 DEF LInv, LmsTypeOK
<1>4. OutsideHoldsNothing'
  <2> SUFFICES ASSUME NEW s \in Threads, Outside(s)'
               PROVE  /\ job'[s] \in Job /\ job'[s].op = "sign"
                      /\ handle'[job'[s].h] # NoHandle
                      /\ lock' # s /\ \A h \in Handles : tlock'[h] # s
    BY DEF OutsideHoldsNothing
  <2>1. s # t /\ Outside(s) /\ job'[s] = job[s]
    OBVIOUS
  <2>2. job[s].h \in Handles
    BY <2>1 DEF LInv, OutsideHoldsNothing, Job
  <2> QED BY <2>1, <2>2, NobodyAssumption DEF LInv, OutsideHoldsNothing
<1>5. CopiesAreOwned'
  BY <1>2, NobodyAssumption DEF LInv, CopiesAreOwned
<1>6. LeafIsHeld'
  <2> SUFFICES ASSUME NEW s \in Threads, pc'[s] = "compute"
               PROVE  /\ job'[s].id \in Ids /\ job'[s].leaf < reserved'[job'[s].id]
                      /\ uses'[job'[s].id][job'[s].leaf] = 0
                      /\ \A r \in Threads \ {s} :
                           pc'[r] \in {"compute", "reveal"} /\ job'[r].id = job'[s].id =>
                             job'[r].leaf # job'[s].leaf
    BY DEF LeafIsHeld
  <2> DEFINE k == job[s].id
  <2>1. s # t /\ pc[s] = "compute" /\ job'[s] = job[s] /\ Outside(s)
    BY DEF Outside
  <2>2. k \in Ids /\ job[s].leaf < reserved[k] /\ uses[k][job[s].leaf] = 0 /\ job[s].leaf \in Nat
    BY <2>1, LeafAssumption DEF LInv, LeafIsHeld, OutsideHoldsNothing, Job, Leaves
  <2>3. reserved[k] \in Nat /\ reserved'[k] \in Nat /\ reserved[k] <= reserved'[k]
    BY <2>2, LockedRises DEF LInv
  <2>4. ASSUME NEW r \in Threads \ {s}, pc'[r] \in {"compute", "reveal"}, job'[r].id = k
        PROVE  job'[r].leaf # job[s].leaf
    <3>1. CASE r # t
      BY <2>1, <2>4, <3>1 DEF LInv, LeafIsHeld
    <3>2. CASE r = t
      <4>1. label = "reveal"
        BY <1>2, <2>4, <3>2 DEF InFlight
      <4>2. /\ LockedJob'[t].id = LockedJob[t].id /\ LockedJob'[t].leaf \in Leaves
            /\ reserved[LockedJob[t].id] <= LockedJob'[t].leaf
        BY <1>2, <4>1, LockedAfresh DEF LInv
      <4> QED BY <1>2, <2>2, <2>3, <2>4, <3>2, <4>2, LeafAssumption DEF Leaves
    <3> QED BY <3>1, <3>2
  <2> QED BY <2>1, <2>2, <2>3, <2>4
<1> QED BY <1>1, <1>3, <1>4, <1>5, <1>6 DEF LInv

LEMMA StaysInside ==
  ASSUME LInv, NEW t \in Threads, pc[t] \notin {"compute", "done", "raise"},
         UNCHANGED tlock,
         NEW label \in InFlight, Goto(t, label),
         NEW new, job' = [job EXCEPT ![t] = new],
         label \in {"done", "raise"} /\ new.op = "sign" => tlock[new.h] = t
  PROVE  /\ OthersStay(t) /\ ~Outside(t) /\ ~Outside(t)'
         /\ LockedPc[t] = pc[t] /\ LockedJob[t] = job[t]
         /\ pc' = [pc EXCEPT ![t] = label]
         /\ LockedPc' = [LockedPc EXCEPT ![t] = label]
         /\ LockedJob' = [LockedJob EXCEPT ![t] = new]
<1>1. pc'[t] = label /\ job'[t] = new /\ \A s \in Threads \ {t} : pc'[s] = pc[s] /\ job'[s] = job[s]
  BY DEF LInv, LmsTypeOK, Goto
<1>2. ~Outside(t) /\ ~Outside(t)' /\ \A s \in Threads \ {t} : Outside(s)' <=> Outside(s)
  BY <1>1 DEF Outside, InFlight
<1>3. LockedPc[t] = pc[t] /\ LockedJob[t] = job[t]
  BY <1>2 DEF LockedPc, LockedJob
<1>4. LockedPc' = [LockedPc EXCEPT ![t] = label]
  BY <1>1, <1>2 DEF LockedPc
<1>5. LockedJob' = [LockedJob EXCEPT ![t] = new]
  <2>1. \A s \in Threads : LockedJob'[s] = IF s = t THEN new ELSE LockedJob[s]
    BY <1>1, <1>2 DEF LockedJob
  <2>2. /\ LockedJob = [s \in Threads |-> LockedJob[s]]
        /\ LockedJob' = [s \in Threads |-> LockedJob'[s]]
    BY DEF LockedJob
  <2> QED BY <2>1, <2>2
<1> QED BY <1>1, <1>2, <1>3, <1>4, <1>5 DEF OthersStay, Goto

\* A free slot is free of the calls inside.
LEMMA FreeInside == ASSUME NEW h \in Handles, FreeSlot(h) PROVE Locked!FreeSlot(h)
  BY DEF FreeSlot, Locked!FreeSlot, LockedJob

\* The objects do not go away while a call moves.
LEMMA ObjectsStay ==
  ASSUME LInv, NEW t \in Threads, ~Outside(t), job[t] \in Job, handle[job[t].h] # NoHandle,
         NEW n \in 0..LeafCount, handle' = [handle EXCEPT ![job[t].h].next = n]
  PROVE  \A h \in Handles : handle[h] # NoHandle => handle'[h] # NoHandle
<1>1. handle \in [Handles -> Handle \cup {NoHandle}]
  BY DEF LInv, Locked!IInv, Locked!CInv, Locked!TypeOK, Locked!StateTypeOK, Locked!Handle, Handle
<1>2. job[t].h \in Handles
  BY DEF Job
<1>3. [handle[job[t].h] EXCEPT !.next = n] \in Handle
  BY <1>1, <1>2 DEF Handle
<1> QED BY <1>1, <1>2, <1>3, SlotAssumption

LEMMA CallsInside ==
  ASSUME LInv, NEW t \in Threads, NEW h \in Handles, Calls(t, h)
  PROVE  LInv' /\ [Locked!Next]_(Locked!vars)
<1>1. PICK op \in {"sign", "advance", "create"}, label \in {"thread", "state"},
           arg \in Asked \cup Counts \cup {NextUnused}, id \in {handle[h].id, NoId} :
        /\ Start(t, op, h, arg, id, label)
        /\ \/ op = "sign" /\ arg \in Asked /\ SignCall(t, h, arg) /\ id = handle[h].id /\ label = "thread"
           \/ op = "advance" /\ arg \in Counts /\ AdvanceCall(t, h, arg) /\ id = handle[h].id /\ label = "thread"
           \/ op = "create" /\ CreateCall(t, h) /\ arg = NextUnused /\ id = NoId /\ label = "state"
  BY DEF Calls, SignCall, AdvanceCall, CreateCall
<1> DEFINE new == [op |-> op, h |-> h, arg |-> arg, id |-> id, leaf |-> 0, old |-> 0]
<1>2. /\ pc[t] = "idle" /\ job' = [job EXCEPT ![t] = new] /\ Goto(t, label)
      /\ UNCHANGED <<ioVars, handle, tlock, linked, born, reserved, uses>>
      /\ label \in InFlight /\ label # "reveal"
  BY <1>1 DEF Start, InFlight
<1>3. /\ OthersStay(t) /\ ~Outside(t) /\ ~Outside(t)'
      /\ LockedPc[t] = pc[t] /\ LockedJob[t] = job[t]
      /\ pc' = [pc EXCEPT ![t] = label]
      /\ LockedPc' = [LockedPc EXCEPT ![t] = label]
      /\ LockedJob' = [LockedJob EXCEPT ![t] = new]
  <2> HIDE DEF new
  <2> QED BY <1>1, <1>2, StaysInside
<1>4. Locked!Start(t, op, h, arg, id, label)
  BY <1>2, <1>3 DEF Locked!Start, Locked!Goto, ioVars, Locked!ioVars
<1>5. Locked!Calls(t, h)
  BY <1>1, <1>4, FreeInside
  DEF SignCall, AdvanceCall, CreateCall, Locked!Calls, Locked!SignCall, Locked!AdvanceCall, Locked!CreateCall
<1>6. [Locked!Next]_(Locked!vars)
  BY <1>5 DEF Locked!Next
<1>7. \A s \in temps' : \/ s \in temps /\ s # t
                        \/ s = t /\ label = "replace"
                        \/ s = Nobody
  <2>1. t \notin temps
    BY <1>2 DEF LInv, CopiesAreOwned
  <2> QED BY <1>2, <2>1 DEF ioVars
<1>8. LInv'
  <2> HIDE DEF new
  <2> QED BY <1>2, <1>3, <1>6, <1>7, InsideStep DEF ioVars
<1> QED BY <1>6, <1>8

(***************************************************************************)
(* What a call inside its locks works on is the same for both.             *)
(***************************************************************************)
LEMMA SameState ==
  ASSUME NEW h \in Handles
  PROVE  /\ Locked!InMemory(h) <=> InMemory(h)
         /\ Locked!Latest(h) = Latest(h) /\ Locked!AdvanceFrom(h) = AdvanceFrom(h)
         /\ Locked!SignReads(h) <=> SignReads(h)
         /\ Locked!AdvanceReads(h) <=> AdvanceReads(h)
  BY DEF Locked!InMemory, InMemory, Locked!Latest, Latest, Locked!AdvanceFrom, AdvanceFrom,
         Locked!Larger, Larger, Locked!SignReads, SignReads, Locked!AdvanceReads, AdvanceReads,
         Locked!SameIdentity, SameIdentity

LEMMA SameRequests ==
  ASSUME NEW t \in Threads, LockedJob[t] = job[t], job[t].h \in Handles
  PROVE  /\ Locked!Chosen(t) = Chosen(t) /\ (Locked!Usable(t) <=> Usable(t))
         /\ Locked!Saved(t) = Saved(t) /\ Locked!AfterSave(t) = AfterSave(t)
         /\ Locked!Undone(t) = Undone(t)
  BY SameState DEF Locked!Chosen, Chosen, Locked!Usable, Usable, Locked!Saved, Saved,
     Locked!AfterSave, AfterSave, Locked!Undone, Undone

LEMMA ObjectInside ==
  ASSUME LInv, NEW t \in Threads, ~Outside(t), pc[t] # "idle"
  PROVE  /\ job[t] \in Job /\ job[t].h \in Handles
         /\ LockedPc[t] = pc[t] /\ LockedJob[t] = job[t]
         /\ job[t].op # "create" => /\ handle[job[t].h] \in Handle
                                    /\ handle[job[t].h] # NoHandle
                                    /\ job[t].id = handle[job[t].h].id
                                    /\ pc[t] # "thread" => tlock[job[t].h] = t
         /\ job[t].op = "create" => handle[job[t].h] = NoHandle
         /\ pc[t] \in {"temp", "replace", "sync", "done"} => job[t].id \in Ids
         /\ handle \in [Handles -> Handle \cup {NoHandle}]
         /\ tlock \in [Handles -> Threads \cup {Nobody}]
<1>1. LockedPc[t] = pc[t] /\ LockedJob[t] = job[t]
  BY DEF LockedPc, LockedJob
<1>2. /\ job[t] \in Job
      /\ job[t].op # "create" => handle[job[t].h] \in Handle /\ job[t].id = handle[job[t].h].id
      /\ job[t].op = "create" => handle[job[t].h] = NoHandle
      /\ pc[t] \in {"temp", "replace", "sync", "done"} => job[t].id \in Ids
  BY <1>1 DEF LInv, Locked!IInv, Locked!CInv, Locked!CallHasObject, Locked!Busy, Locked!Handle, Handle,
              Locked!Job, Job, Locked!Leaves, Leaves, Locked!Saving
<1>3. job[t].op # "create" /\ pc[t] # "thread" => tlock[job[t].h] = t
  BY <1>1 DEF LInv, Locked!IInv, Locked!CInv, Locked!CallHoldsLocks, Locked!Busy
<1>4. handle \in [Handles -> Handle \cup {NoHandle}] /\ tlock \in [Handles -> Threads \cup {Nobody}]
  BY DEF LInv, Locked!IInv, Locked!CInv, Locked!TypeOK, Locked!StateTypeOK, Locked!Handle, Handle
<1> QED BY <1>1, <1>2, <1>3, <1>4, SlotAssumption DEF Job

LEMMA WaitsInside ==
  ASSUME LInv, NEW t \in Threads, Waits(t)
  PROVE  LInv' /\ [Locked!Next]_(Locked!vars)
<1>1. pc[t] \in {"thread", "state"} /\ ~Outside(t) /\ pc[t] # "idle" /\ UNCHANGED <<handle, job, temps, uses>>
  BY DEF Waits, TakeThreadLock, TakeStateLock, Outside, ioVars
<1>2. /\ job[t] \in Job /\ job[t].h \in Handles /\ LockedPc[t] = pc[t] /\ LockedJob[t] = job[t]
      /\ job' = [job EXCEPT ![t] = job[t]]
      /\ tlock \in [Handles -> Threads \cup {Nobody}]
  BY <1>1, ObjectInside DEF LInv, LmsTypeOK
<1>3. PICK label \in {"state", "check"} : Goto(t, label)
  BY DEF Waits, TakeThreadLock, TakeStateLock
<1>4. \A s \in Threads \ {t} : pc'[s] = pc[s] /\ job'[s] = job[s] /\ (Outside(s)' <=> Outside(s))
  <2>1. \A s \in Threads \ {t} : pc'[s] = pc[s] /\ job'[s] = job[s]
    BY <1>1, <1>3 DEF Goto, LInv, LmsTypeOK
  <2>2. \A s \in Threads \ {t}, h \in Handles : tlock'[h] = s <=> tlock[h] = s
    BY <1>2, NobodyAssumption DEF Waits, TakeThreadLock, TakeStateLock
  <2>3. \A s \in Threads \ {t} : pc[s] \in {"done", "raise"} /\ job[s].op = "sign" => job[s].h \in Handles
    <3> SUFFICES ASSUME NEW s \in Threads \ {t}, pc[s] \in {"done", "raise"}, job[s].op = "sign"
                 PROVE  job[s].h \in Handles
      OBVIOUS
    <3>1. CASE Outside(s)
      BY <3>1 DEF LInv, OutsideHoldsNothing, Job
    <3>2. CASE ~Outside(s)
      BY <3>2, ObjectInside
    <3> QED BY <3>1, <3>2
  <2> QED BY <2>1, <2>2, <2>3 DEF Outside
<1>5. OthersStay(t) /\ ~Outside(t)'
  BY <1>3, <1>4 DEF OthersStay, Outside, Goto, LInv, LmsTypeOK
<1>6. LockedPc' = [LockedPc EXCEPT ![t] = label]
  <2>1. pc'[t] = label
    BY <1>3 DEF Goto, LInv, LmsTypeOK
  <2> QED BY <1>1, <1>4, <1>5, <2>1 DEF LockedPc
<1>7. LockedJob' = LockedJob
  BY <1>1, <1>4, <1>5 DEF LockedJob
<1>8. Locked!Waits(t)
  <2>1. CASE TakeThreadLock(t)
    <3>1. label = IF InMemory(job[t].h) THEN "check" ELSE "state"
      BY <1>3, <2>1 DEF TakeThreadLock, Goto, LInv, LmsTypeOK
    <3> QED BY <1>2, <1>6, <1>7, <2>1, <3>1, SameState
        DEF TakeThreadLock, Locked!Waits, Locked!TakeThreadLock, Locked!Goto, ioVars, Locked!ioVars
  <2>2. CASE TakeStateLock(t)
    <3>1. label = "check"
      BY <1>3, <2>2 DEF TakeStateLock, Goto, LInv, LmsTypeOK
    <3> QED BY <1>2, <1>6, <1>7, <2>2, <3>1
        DEF TakeStateLock, TakeLock, Locked!Waits, Locked!TakeStateLock, Locked!TakeLock, Locked!Goto
  <2> QED BY <2>1, <2>2 DEF Waits
<1>9. [Locked!Next]_(Locked!vars)
  BY <1>8 DEF Locked!Next
<1>10. lock' \in {lock, t, Nobody} /\ \A h \in Handles : tlock'[h] \in {tlock[h], t, Nobody}
  BY <1>2 DEF Waits, TakeThreadLock, TakeStateLock, TakeLock, ioVars
<1>11. t \notin temps
  BY <1>1 DEF LInv, CopiesAreOwned
<1> QED BY <1>1, <1>2, <1>3, <1>5, <1>9, <1>10, <1>11, InsideStep DEF Goto, InFlight

(***************************************************************************)
(* The steps between the locks, each of them a step of MerkleSigner.  An   *)
(* advance that loads any key it finds loads its own, there being one.     *)
(***************************************************************************)
LEMMA LoadsOwnKey ==
  ASSUME OneIdentity, LInv, NEW t \in Threads, ~Outside(t), pc[t] # "idle", job[t].op = "advance"
  PROVE  LoadsAnyKey(job[t].h) <=> AdvanceReads(job[t].h)
<1>1. handle[job[t].h].id \in Ids
  BY ObjectInside DEF Handle
<1>2. file # NoFile => file.id \in Ids
  BY DEF LInv, Locked!IInv, Locked!CInv, Locked!TypeOK, Locked!StateTypeOK, Locked!Key
<1> QED BY <1>1, <1>2 DEF OneIdentity, LoadsAnyKey, AdvanceReads, SameIdentity

\* The step of the locked protocol that a step between the locks is.
LEMMA RunIsLocked ==
  ASSUME OneIdentity, LInv, NEW t \in Threads, NEW label \in InFlight, Goto(t, label),
         NEW new, job' = [job EXCEPT ![t] = new], pc[t] # "idle",
         OthersStay(t), ~Outside(t), ~Outside(t)',
         LockedPc' = [LockedPc EXCEPT ![t] = label],
         LockedJob' = [LockedJob EXCEPT ![t] = new]
  PROVE  /\ ReserveLeaf(t) => Locked!ReserveLeaf(t)
         /\ RefuseLeaf(t) => Locked!RefuseLeaf(t)
         /\ LmsSpendLeaves(t) => Locked!SpendLeaves(t)
         /\ LmsRefuseAdvance(t) => Locked!RefuseAdvance(t)
         /\ LmsRefuseState(t) => Locked!RefuseState(t)
<1>1. /\ job[t] \in Job /\ job[t].h \in Handles
      /\ LockedPc[t] = pc[t] /\ LockedJob[t] = job[t]
  BY ObjectInside
<1>2. pc'[t] = label /\ job'[t] = new
  BY DEF Goto, LInv, LmsTypeOK
<1>3. ASSUME NEW n, NEW from, NEW leaf, Claim(t, n, from, leaf)
      PROVE  Locked!Claim(t, n, from, leaf)
  <2>1. label = IF InMemory(job[t].h) THEN AfterSave(t) ELSE "temp"
    BY <1>2, <1>3 DEF Claim, Goto, LInv, LmsTypeOK
  <2>2. new = [[job[t] EXCEPT !.leaf = leaf] EXCEPT !.old = from]
    BY <1>2, <1>3 DEF Claim, LInv, LmsTypeOK
  <2>3. LockedJob' = [LockedJob EXCEPT ![t].leaf = leaf, ![t].old = from]
    BY <1>1, <2>2 DEF LockedJob
  <2>4. Locked!Goto(t, IF InMemory(job[t].h) THEN AfterSave(t) ELSE "temp")
    BY <2>1 DEF Locked!Goto
  <2> QED BY <1>1, <1>3, <2>3, <2>4, SameState, SameRequests
      DEF Claim, Locked!Claim, ioVars, Locked!ioVars
<1>4. ReserveLeaf(t) => Locked!ReserveLeaf(t)
  BY <1>1, <1>3, SameState, SameRequests DEF ReserveLeaf, Locked!ReserveLeaf
<1>5. LmsSpendLeaves(t) => Locked!SpendLeaves(t)
  <2>1. LmsSpendLeaves(t) => AdvanceReads(job[t].h)
    BY LoadsOwnKey DEF LmsSpendLeaves
  <2> QED BY <1>1, <1>3, <2>1, SameState DEF LmsSpendLeaves, Locked!SpendLeaves
<1>6. label = "raise" /\ UNCHANGED job => Locked!Goto(t, "raise") /\ UNCHANGED LockedJob
  BY <1>1, <1>2 DEF Locked!Goto, LockedJob, LInv, LmsTypeOK
<1>7. RefuseLeaf(t) => Locked!RefuseLeaf(t)
  <2>1. RefuseLeaf(t) => label = "raise" /\ UNCHANGED job
    BY <1>2 DEF RefuseLeaf, Goto, LInv, LmsTypeOK
  <2> QED BY <1>1, <1>6, <2>1, SameState, SameRequests
      DEF RefuseLeaf, Locked!RefuseLeaf, ioVars, Locked!ioVars
<1>8. LmsRefuseAdvance(t) => Locked!RefuseAdvance(t)
  <2>1. LmsRefuseAdvance(t) => label = "raise" /\ UNCHANGED job /\ AdvanceReads(job[t].h)
    BY <1>2, LoadsOwnKey DEF LmsRefuseAdvance, Goto, LInv, LmsTypeOK
  <2> QED BY <1>1, <1>6, <2>1, SameState
      DEF LmsRefuseAdvance, Locked!RefuseAdvance, ioVars, Locked!ioVars
<1>9. LmsRefuseState(t) => Locked!RefuseState(t)
  <2>1. LmsRefuseState(t) => /\ label = "raise" /\ UNCHANGED job
                             /\ job[t].op = "advance" => ~AdvanceReads(job[t].h)
    BY <1>2, LoadsOwnKey DEF LmsRefuseState, Goto, LInv, LmsTypeOK
  <2> QED BY <1>1, <1>6, <2>1, SameState
      DEF LmsRefuseState, Locked!RefuseState, NoSeedLeft, Locked!NoSeedLeft, ioVars, Locked!ioVars
<1> QED BY <1>4, <1>5, <1>7, <1>8, <1>9

LEMMA SaveIsLocked ==
  ASSUME LInv, NEW t \in Threads, NEW label \in InFlight, Goto(t, label),
         NEW new, job' = [job EXCEPT ![t] = new], pc[t] # "idle",
         OthersStay(t), ~Outside(t), ~Outside(t)',
         LockedPc' = [LockedPc EXCEPT ![t] = label],
         LockedJob' = [LockedJob EXCEPT ![t] = new]
  PROVE  /\ NewIdentity(t) => Locked!NewIdentity(t)
         /\ SaveTemp(t) => Locked!SaveTemp(t)
         /\ SaveReplace(t) => Locked!SaveReplace(t)
         /\ SaveSync(t) => Locked!SaveSync(t)
         /\ SaveFails(t) => Locked!SaveFails(t)
         /\ Interrupted(t) => Locked!Interrupted(t)
<1>1. /\ job[t] \in Job /\ job[t].h \in Handles
      /\ LockedPc[t] = pc[t] /\ LockedJob[t] = job[t]
  BY ObjectInside
<1>2. pc'[t] = label /\ job'[t] = new
  BY DEF Goto, LInv, LmsTypeOK
<1>3. /\ Locked!Goto(t, label)
      /\ UNCHANGED job => UNCHANGED LockedJob
  BY <1>1, <1>2 DEF Locked!Goto, LockedJob, LInv, LmsTypeOK
<1>4. NewIdentity(t) => Locked!NewIdentity(t)
  <2> SUFFICES ASSUME NewIdentity(t) PROVE Locked!NewIdentity(t)
    OBVIOUS
  <2>1. label = "temp"
    BY <1>2 DEF NewIdentity, Goto, LInv, LmsTypeOK
  <2>2. PICK k \in Ids \ born : born' = born \cup {k} /\ job' = [job EXCEPT ![t].id = k]
    BY DEF NewIdentity
  <2>3. new = [job[t] EXCEPT !.id = k]
    BY <1>2, <2>2 DEF LInv, LmsTypeOK
  <2>4. LockedJob' = [LockedJob EXCEPT ![t].id = k]
    BY <1>1, <2>3 DEF LockedJob
  <2> QED BY <1>1, <1>3, <2>1, <2>2, <2>4 DEF NewIdentity, Locked!NewIdentity, ioVars, Locked!ioVars
<1>5. SaveTemp(t) => Locked!SaveTemp(t)
  <2>1. SaveTemp(t) => label = "replace"
    BY <1>2 DEF SaveTemp, Goto, LInv, LmsTypeOK
  <2> QED BY <1>1, <1>3, <2>1
      DEF SaveTemp, Locked!SaveTemp, WriteTemp, Locked!WriteTemp, StaleLeft, Locked!StaleLeft
<1>6. SaveReplace(t) => Locked!SaveReplace(t)
  <2>1. SaveReplace(t) => label = "sync"
    BY <1>2 DEF SaveReplace, Goto, LInv, LmsTypeOK
  <2> QED BY <1>1, <1>3, <2>1, SameRequests DEF SaveReplace, Locked!SaveReplace, Replace, Locked!Replace
<1>7. SaveSync(t) => Locked!SaveSync(t)
  <2>1. SaveSync(t) => label = AfterSave(t)
    BY <1>2 DEF SaveSync, Goto, LInv, LmsTypeOK
  <2> QED BY <1>1, <1>3, <2>1, SameRequests
      DEF SaveSync, Locked!SaveSync, SyncDirectory, Locked!SyncDirectory, Larger, Locked!Larger
<1>8. SaveFails(t) => Locked!SaveFails(t)
  <2>1. SaveFails(t) => label = "raise"
    BY <1>2 DEF SaveFails, Goto, LInv, LmsTypeOK
  <2> QED BY <1>1, <1>3, <2>1, SameRequests DEF SaveFails, Locked!SaveFails, DropTemp, Locked!DropTemp
<1>9. Interrupted(t) => Locked!Interrupted(t)
  <2>1. Interrupted(t) => label = "raise"
    BY <1>2 DEF Interrupted, Goto, LInv, LmsTypeOK
  <2> QED BY <1>1, <1>3, <2>1 DEF Interrupted, Locked!Interrupted, DropTemp, Locked!DropTemp
<1> QED BY <1>4, <1>5, <1>6, <1>7, <1>8, <1>9

\* The index a call goes by, whichever key it reads it from.
LEMMA IndexType ==
  ASSUME LInv, NEW t \in Threads, ~Outside(t), pc[t] # "idle", job[t].op # "create",
         InMemory(job[t].h) \/ file # NoFile
  PROVE  Latest(job[t].h) \in 0..LeafCount /\ AdvanceFrom(job[t].h) \in 0..LeafCount
<1>1. handle[job[t].h].next \in 0..LeafCount
  BY ObjectInside DEF Handle
<1>2. file # NoFile => file.next \in 0..LeafCount
  BY DEF LInv, Locked!IInv, Locked!CInv, Locked!TypeOK, Locked!StateTypeOK, Locked!Key
<1> QED BY <1>1, <1>2 DEF Latest, InMemory, AdvanceFrom, Larger

InsideLocks(t) ==
  \/ ReserveLeaf(t) \/ RefuseLeaf(t)
  \/ LmsSpendLeaves(t) \/ LmsRefuseAdvance(t)
  \/ LmsRefuseState(t) \/ NewIdentity(t)
  \/ SaveTemp(t) \/ SaveReplace(t) \/ SaveSync(t)
  \/ SaveFails(t) \/ Interrupted(t)

\* What a step between the locks leaves alone.
LEMMA InsideLeaves ==
  ASSUME LInv, NEW t \in Threads, InsideLocks(t)
  PROVE  /\ pc[t] \in {"check", "temp", "replace", "sync", "reveal"}
         /\ UNCHANGED <<lock, tlock, uses>>
         /\ \E label \in InFlight : /\ Goto(t, label)
                                    /\ label = "done" => job[t].op # "sign"
                                    /\ label = "reveal" => ReserveLeaf(t) \/ SaveSync(t)
         /\ job' = [job EXCEPT ![t] = job'[t]]
         /\ job'[t].op = job[t].op /\ job'[t].h = job[t].h
         /\ \A h \in Handles : handle[h] # NoHandle => handle'[h] # NoHandle
         /\ t \in temps' => SaveTemp(t)
         /\ \A s \in temps' : s \in temps \/ s = t
<1> USE DEF InsideLocks
<1>1. pc[t] \in {"check", "temp", "replace", "sync", "reveal"}
  BY DEF ReserveLeaf, RefuseLeaf, LmsSpendLeaves, LmsRefuseAdvance, LmsRefuseState, NewIdentity,
         SaveTemp, SaveReplace, SaveSync, SaveFails, Interrupted
<1>2. UNCHANGED <<lock, tlock, uses>>
  BY DEF ReserveLeaf, RefuseLeaf, LmsSpendLeaves, LmsRefuseAdvance, Claim, LmsRefuseState, NewIdentity,
         SaveTemp, SaveReplace, SaveSync, SaveFails, Interrupted, ioVars
<1>3. /\ job[t] \in Job /\ job[t].h \in Handles /\ handle \in [Handles -> Handle \cup {NoHandle}]
      /\ job[t].op # "create" => handle[job[t].h] \in Handle
      /\ job[t].op = "create" => handle[job[t].h] = NoHandle
  BY <1>1, ObjectInside DEF Outside
<1>4. \E label \in InFlight : /\ Goto(t, label)
                              /\ label = "done" => job[t].op # "sign"
                              /\ label = "reveal" => ReserveLeaf(t) \/ SaveSync(t)
  BY DEF ReserveLeaf, RefuseLeaf, LmsSpendLeaves, LmsRefuseAdvance, Claim, LmsRefuseState, NewIdentity,
         SaveTemp, SaveReplace, SaveSync, SaveFails, Interrupted, AfterSave, InFlight
<1>5. job' = [job EXCEPT ![t] = job'[t]] /\ job'[t].op = job[t].op /\ job'[t].h = job[t].h
  <2>1. CASE ReserveLeaf(t) \/ LmsSpendLeaves(t)
    <3>1. PICK n, from, leaf : Claim(t, n, from, leaf)
      BY <2>1 DEF ReserveLeaf, LmsSpendLeaves
    <3>2. job'[t] = [[job[t] EXCEPT !.leaf = leaf] EXCEPT !.old = from]
      BY <3>1 DEF Claim, LInv, LmsTypeOK
    <3> QED BY <1>3, <3>1, <3>2 DEF Claim, LInv, LmsTypeOK, Job
  <2>2. CASE NewIdentity(t)
    <3>1. PICK k \in Ids \ born : job' = [job EXCEPT ![t].id = k]
      BY <2>2 DEF NewIdentity
    <3> QED BY <1>3, <3>1 DEF LInv, LmsTypeOK, Job
  <2>3. CASE UNCHANGED job
    BY <2>3 DEF LInv, LmsTypeOK
  <2> QED BY <2>1, <2>2, <2>3 DEF RefuseLeaf, LmsRefuseAdvance, LmsRefuseState, SaveTemp, SaveReplace,
          SaveSync, SaveFails, Interrupted
<1>6. \A h \in Handles : handle[h] # NoHandle => handle'[h] # NoHandle
  <2>1. CASE UNCHANGED handle
    BY <2>1
  <2>2. ASSUME NEW n \in 0..LeafCount, handle' = [handle EXCEPT ![job[t].h].next = n], job[t].op # "create"
        PROVE  \A h \in Handles : handle[h] # NoHandle => handle'[h] # NoHandle
    BY <1>1, <1>3, <2>2, SlotAssumption, ObjectsStay DEF Outside
  <2>3. ~Outside(t) /\ pc[t] # "idle"
    BY <1>1 DEF Outside
  <2>4. CASE RefuseLeaf(t)
    BY <2>2, <2>3, <2>4, IndexType DEF RefuseLeaf, SignReads, SameIdentity
  <2>5. CASE LmsRefuseAdvance(t)
    BY <2>2, <2>3, <2>5, IndexType DEF LmsRefuseAdvance, LoadsAnyKey
  <2>6. CASE ReserveLeaf(t)
    <3>1. Chosen(t) + 1 \in 0..LeafCount
      BY <1>3, <2>3, <2>6, IndexType, LeafAssumption, ArgumentAssumption
      DEF ReserveLeaf, Usable, Chosen, SignReads, SameIdentity, Job
    <3> QED BY <2>2, <2>6, <3>1 DEF ReserveLeaf, Claim
  <2>7. CASE LmsSpendLeaves(t)
    <3>1. AdvanceFrom(job[t].h) \in 0..LeafCount
      BY <2>3, <2>7, IndexType DEF LmsSpendLeaves, LoadsAnyKey
    <3>2. job[t].arg \in 1..LeafCount
      BY <2>3, <2>7, ObjectInside
      DEF LmsSpendLeaves, LInv, Locked!IInv, Locked!CInv, Locked!CallHasObject, Locked!Busy
    <3>3. AdvanceFrom(job[t].h) + job[t].arg \in 0..LeafCount
      BY <2>7, <3>1, <3>2, LeafAssumption DEF LmsSpendLeaves
    <3> QED BY <2>2, <2>7, <3>3 DEF LmsSpendLeaves, Claim
  <2>8. CASE SaveFails(t)
    <3>1. job[t].old \in 0..LeafCount
      BY <1>3 DEF Job
    <3> QED BY <2>1, <2>2, <2>8, <3>1 DEF SaveFails, Undone
  <2> QED BY <2>1, <2>4, <2>5, <2>6, <2>7, <2>8 DEF LmsRefuseState, NewIdentity, SaveTemp, SaveReplace, SaveSync,
          Interrupted
<1>7. (t \in temps' => SaveTemp(t)) /\ \A s \in temps' : s \in temps \/ s = t
  <2>1. t \in temps => pc[t] = "replace"
    BY DEF LInv, CopiesAreOwned
  <2> QED BY <2>1 DEF ReserveLeaf, RefuseLeaf, LmsSpendLeaves, LmsRefuseAdvance, Claim, LmsRefuseState,
          NewIdentity, SaveTemp, WriteTemp, StaleLeft, SaveReplace, Replace, SaveSync, SaveFails,
          Interrupted, DropTemp, ioVars
<1> QED BY <1>1, <1>2, <1>4, <1>5, <1>6, <1>7

LEMMA RunsInside ==
  ASSUME OneIdentity, LInv, NEW t \in Threads, InsideLocks(t)
  PROVE  LInv' /\ [Locked!Next]_(Locked!vars)
<1>1. /\ pc[t] \in {"check", "temp", "replace", "sync", "reveal"}
      /\ UNCHANGED <<lock, tlock, uses>>
      /\ job' = [job EXCEPT ![t] = job'[t]]
      /\ job'[t].op = job[t].op /\ job'[t].h = job[t].h
      /\ \A h \in Handles : handle[h] # NoHandle => handle'[h] # NoHandle
      /\ t \in temps' => SaveTemp(t)
      /\ \A s \in temps' : s \in temps \/ s = t
  BY InsideLeaves
<1>2. PICK label \in InFlight : /\ Goto(t, label)
                                /\ label = "done" => job[t].op # "sign"
                                /\ label = "reveal" => ReserveLeaf(t) \/ SaveSync(t)
  BY InsideLeaves
<1>3. job[t].op = "sign" => tlock[job[t].h] = t
  BY <1>1, ObjectInside DEF Outside
<1>4. /\ OthersStay(t) /\ ~Outside(t) /\ ~Outside(t)'
      /\ pc' = [pc EXCEPT ![t] = label]
      /\ LockedPc' = [LockedPc EXCEPT ![t] = label]
      /\ LockedJob' = [LockedJob EXCEPT ![t] = job'[t]]
  BY <1>1, <1>2, <1>3, StaysInside
<1>5. /\ pc[t] # "idle"
      /\ Locked!Runs(t)
      /\ label = "reveal" => Locked!ReserveLeaf(t) \/ Locked!SaveSync(t)
  BY <1>1, <1>2, <1>4, RunIsLocked, SaveIsLocked DEF InsideLocks, Locked!Runs
<1>6. [Locked!Next]_(Locked!vars)
  BY <1>5 DEF Locked!Next
<1>7. SaveTemp(t) => label = "replace"
  BY <1>2 DEF SaveTemp, Goto, LInv, LmsTypeOK
<1>8. /\ lock' \in {lock, t, Nobody} /\ \A h \in Handles : tlock'[h] \in {tlock[h], t, Nobody}
      /\ \A s \in temps' : \/ s \in temps /\ s # t
                           \/ s = t /\ label = "replace"
                           \/ s = Nobody
  BY <1>1, <1>7
<1>9. LInv'
  BY <1>1, <1>4, <1>5, <1>6, <1>8, InsideStep
<1> QED BY <1>6, <1>9

(***************************************************************************)
(* The locks are given back, by a call that returns or by one that goes on *)
(* to compute its signature.                                               *)
(***************************************************************************)
LEMMA OthersKeepLocks ==
  ASSUME LInv, NEW t \in Threads, tlock' = FreedThreadLock(t),
         NEW label, Goto(t, label), \A s \in Threads \ {t} : job'[s] = job[s]
  PROVE  OthersStay(t)
<1>1. \A s \in Threads \ {t} : pc'[s] = pc[s]
  BY DEF Goto, LInv, LmsTypeOK
<1>2. \A s \in Threads \ {t}, h \in Handles : tlock'[h] = s <=> tlock[h] = s
  BY NobodyAssumption DEF FreedThreadLock
<1>3. \A s \in Threads \ {t} : pc[s] \in {"done", "raise"} /\ job[s].op = "sign" => job[s].h \in Handles
  <2> SUFFICES ASSUME NEW s \in Threads \ {t}, pc[s] \in {"done", "raise"}, job[s].op = "sign"
               PROVE  job[s].h \in Handles
    OBVIOUS
  <2>1. CASE Outside(s)
    BY <2>1 DEF LInv, OutsideHoldsNothing, Job
  <2>2. CASE ~Outside(s)
    BY <2>2, ObjectInside
  <2> QED BY <2>1, <2>2
<1> QED BY <1>1, <1>2, <1>3 DEF OthersStay, Outside

LEMMA ReturnInside ==
  ASSUME LInv, NEW t \in Threads, Return(t), ~Outside(t)
  PROVE  LInv' /\ [Locked!Next]_(Locked!vars)
<1>1. /\ pc[t] \in {"done", "raise"} /\ UNCHANGED <<temps, uses>>
      /\ job' = [job EXCEPT ![t] = NoJob] /\ Goto(t, "idle") /\ tlock' = FreedThreadLock(t)
  BY DEF Return
<1>2. /\ job[t] \in Job /\ job[t].h \in Handles
      /\ LockedPc[t] = pc[t] /\ LockedJob[t] = job[t]
      /\ handle \in [Handles -> Handle \cup {NoHandle}]
      /\ tlock \in [Handles -> Threads \cup {Nobody}]
      /\ job[t].op = "create" => handle[job[t].h] = NoHandle
      /\ pc[t] = "done" => job[t].id \in Ids
  BY <1>1, ObjectInside
<1>3. /\ pc' = [pc EXCEPT ![t] = "idle"] /\ pc'[t] = "idle" /\ job'[t] = NoJob
      /\ \A s \in Threads \ {t} : pc'[s] = pc[s] /\ job'[s] = job[s]
  BY <1>1 DEF Goto, LInv, LmsTypeOK
<1>4. OthersStay(t) /\ ~Outside(t)'
  BY <1>1, <1>3, OthersKeepLocks DEF Outside
<1>5. LockedPc' = [LockedPc EXCEPT ![t] = "idle"]
  BY <1>3, <1>4 DEF LockedPc, OthersStay
<1>6. LockedJob' = [LockedJob EXCEPT ![t] = NoJob]
  <2>1. \A s \in Threads : LockedJob'[s] = IF s = t THEN NoJob ELSE LockedJob[s]
    BY <1>3, <1>4 DEF LockedJob, OthersStay
  <2>2. /\ LockedJob = [s \in Threads |-> LockedJob[s]]
        /\ LockedJob' = [s \in Threads |-> LockedJob'[s]]
    BY DEF LockedJob
  <2> QED BY <2>1, <2>2
<1>7. Locked!Created(t) = Created(t)
  BY <1>2 DEF Locked!Created, Created
<1>8. Locked!Return(t)
  BY <1>1, <1>2, <1>5, <1>6, <1>7
  DEF Return, Locked!Return, ReleaseLock, Locked!ReleaseLock, FreedThreadLock, Locked!FreedThreadLock,
      Locked!Goto
<1>9. [Locked!Next]_(Locked!vars)
  BY <1>8 DEF Locked!Next, Locked!Runs
<1>10. \A h \in Handles : handle[h] # NoHandle => handle'[h] # NoHandle
  BY <1>2 DEF Return, Created
<1>11. /\ lock' \in {lock, t, Nobody} /\ \A h \in Handles : tlock'[h] \in {tlock[h], t, Nobody}
       /\ t \notin temps'
  BY <1>1, <1>2 DEF Return, ReleaseLock, FreedThreadLock, LInv, CopiesAreOwned
<1>12. LInv'
  BY <1>1, <1>3, <1>4, <1>9, <1>10, <1>11, InsideStep
<1> QED BY <1>9, <1>12

LEMMA LeaveLocksStep ==
  ASSUME LInv, NEW t \in Threads, LeaveLocks(t)
  PROVE  LInv' /\ UNCHANGED <<reserved, uses>>
<1> DEFINE k == job[t].id
           i == job[t].leaf
<1>1. /\ pc[t] = "reveal" /\ ~Outside(t) /\ UNCHANGED <<handle, job, temps, reserved, uses>>
      /\ Goto(t, "compute") /\ tlock' = FreedThreadLock(t)
  BY DEF LeaveLocks, Outside
<1>2. /\ job[t] \in Job /\ job[t].h \in Handles
      /\ LockedPc[t] = "reveal" /\ LockedJob[t] = job[t]
      /\ job[t].op # "create" => handle[job[t].h] \in Handle /\ handle[job[t].h] # NoHandle /\ k = handle[job[t].h].id
      /\ tlock \in [Handles -> Threads \cup {Nobody}]
  BY <1>1, ObjectInside
<1>3. job[t].op = "sign" /\ reserved[k] = i + 1 /\ uses[k][i] = 0
  BY <1>2 DEF LInv, Locked!IInv, Locked!CInv, Locked!CallHoldsLocks, Locked!Busy, Locked!JInv, Locked!RevealsLast
<1>4. k \in Ids /\ i \in Nat /\ i < reserved[k]
  BY <1>2, <1>3, LeafAssumption DEF Handle, Job, Leaves
<1>5. pc'[t] = "compute" /\ \A s \in Threads \ {t} : pc'[s] = pc[s]
  BY <1>1 DEF Goto, LInv, LmsTypeOK
<1>6. OthersStay(t) /\ Outside(t)'
  BY <1>1, <1>5, OthersKeepLocks DEF Outside
<1>7. LockedPc' = [LockedPc EXCEPT ![t] = "idle"]
  BY <1>5, <1>6 DEF LockedPc, OthersStay
<1>8. LockedJob' = [LockedJob EXCEPT ![t] = NoJob]
  <2>1. \A s \in Threads : LockedJob'[s] = IF s = t THEN NoJob ELSE LockedJob[s]
    BY <1>1, <1>6 DEF LockedJob, OthersStay
  <2>2. /\ LockedJob = [s \in Threads |-> LockedJob[s]]
        /\ LockedJob' = [s \in Threads |-> LockedJob'[s]]
    BY DEF LockedJob
  <2> QED BY <2>1, <2>2
<1>9. Locked!GiveUp(t)
  BY <1>1, <1>2, <1>7, <1>8
  DEF LeaveLocks, Locked!GiveUp, ReleaseLock, Locked!ReleaseLock, FreedThreadLock, Locked!FreedThreadLock,
      Locked!Created, Locked!Goto
<1>10. Locked!IInv(0)'
  BY <1>9, LockedGiveUp DEF LInv
<1>11. LmsTypeOK'
  BY <1>1 DEF LInv, LmsTypeOK, Goto
<1>12. OutsideHoldsNothing'
  <2> SUFFICES ASSUME NEW s \in Threads, Outside(s)'
               PROVE  /\ job[s] \in Job /\ job[s].op = "sign"
                      /\ handle[job[s].h] # NoHandle
                      /\ lock' # s /\ \A h \in Handles : tlock'[h] # s
    BY <1>1 DEF OutsideHoldsNothing
  <2>1. CASE s = t
    BY <1>1, <1>2, <1>3, <2>1, NobodyAssumption DEF LeaveLocks, ReleaseLock, FreedThreadLock
  <2>2. CASE s # t
    BY <1>1, <1>2, <1>6, <2>2, NobodyAssumption
    DEF OthersStay, LInv, OutsideHoldsNothing, LeaveLocks, ReleaseLock, FreedThreadLock
  <2> QED BY <2>1, <2>2
<1>13. CopiesAreOwned'
  BY <1>1, <1>5 DEF LInv, CopiesAreOwned
<1>14. \A s \in Threads \ {t} : pc[s] \in {"compute", "reveal"} /\ job[s].id = k => job[s].leaf # i
  <2> SUFFICES ASSUME NEW s \in Threads \ {t}, pc[s] \in {"compute", "reveal"}, job[s].id = k
               PROVE  job[s].leaf # i
    OBVIOUS
  <2>1. CASE pc[s] = "compute"
    BY <1>1, <2>1 DEF LInv, LeafIsHeld
  <2>2. CASE pc[s] = "reveal"
    <3>1. LockedPc[s] = "reveal" /\ LockedJob[s] = job[s]
      BY <2>2, ObjectInside DEF Outside
    <3>2. Locked!CInv /\ Locked!MemoryIsAlone /\ LockedPc[s] \in Locked!Critical /\ LockedPc[t] \in Locked!Critical
      BY <1>2, <3>1 DEF LInv, Locked!IInv, Locked!JInv, Locked!Critical
    <3>3. LockedJob[s].id # LockedJob[t].id
      BY <3>2, Locked!IdentityExclusive, LockedAssumptions
    <3> QED BY <1>2, <3>1, <3>3
  <2> QED BY <2>1, <2>2
<1>15. LeafIsHeld'
  <2> SUFFICES ASSUME NEW s \in Threads, pc'[s] = "compute"
               PROVE  /\ job[s].id \in Ids /\ job[s].leaf < reserved[job[s].id]
                      /\ uses[job[s].id][job[s].leaf] = 0
                      /\ \A r \in Threads \ {s} :
                           pc'[r] \in {"compute", "reveal"} /\ job[r].id = job[s].id =>
                             job[r].leaf # job[s].leaf
    BY <1>1 DEF LeafIsHeld
  <2>1. CASE s = t
    BY <1>3, <1>4, <1>5, <1>14, <2>1
  <2>2. CASE s # t
    BY <1>1, <1>5, <1>14, <2>2 DEF LInv, LeafIsHeld
  <2> QED BY <2>1, <2>2
<1> QED BY <1>1, <1>10, <1>11, <1>12, <1>13, <1>15 DEF LInv

(***************************************************************************)
(* Outside the locks: the leaf is signed with, or burnt, and the call      *)
(* returns.                                                                *)
(***************************************************************************)
LEMMA LockedStutter ==
  ASSUME LInv, UNCHANGED <<ioVars, handle, tlock, LockedPc, LockedJob, linked, born, reserved, uses>>
  PROVE  Locked!IInv(0)' /\ UNCHANGED Locked!vars
<1>1. UNCHANGED Locked!vars
  BY DEF Locked!vars, Locked!ioVars, Locked!signerVars, ioVars
<1> QED BY <1>1, LockedStep DEF LInv

LEMMA OutsideStep ==
  ASSUME LInv, NEW t \in Threads,
         SignAt(t) \/ SignAtFails(t) \/ (Return(t) /\ Outside(t))
  PROVE  LInv' /\ UNCHANGED reserved /\ (UNCHANGED uses \/ \E k \in Ids : Locked!OTK!Sign(k))
<1> DEFINE k == job[t].id
           i == job[t].leaf
<1>1. /\ Outside(t) /\ pc[t] \in {"compute", "done", "raise"}
      /\ UNCHANGED <<file, durable, temps, linked, born, reserved>>
  BY DEF SignAt, SignAtFails, Return, Outside, ioVars
<1>2. /\ job[t] \in Job /\ job[t].op = "sign" /\ handle[job[t].h] # NoHandle /\ job[t].h \in Handles
      /\ lock # t /\ \A h \in Handles : tlock[h] # t
      /\ tlock \in [Handles -> Threads \cup {Nobody}]
  BY <1>1 DEF LInv, OutsideHoldsNothing, Job, Locked!IInv, Locked!CInv, Locked!TypeOK, Locked!StateTypeOK
<1>3. UNCHANGED <<lock, tlock, handle>>
  BY <1>2 DEF SignAt, SignAtFails, Return, ioVars, ReleaseLock, FreedThreadLock, Created
<1>4. /\ \A s \in Threads \ {t} : pc'[s] = pc[s] /\ job'[s] = job[s]
      /\ \/ pc'[t] \in {"done", "raise"} /\ job'[t] = job[t]
         \/ pc'[t] = "idle" /\ job'[t] = NoJob /\ Return(t)
      /\ LmsTypeOK'
  BY DEF SignAt, SignAtFails, Return, Goto, LInv, LmsTypeOK, InFlight
<1>5. \A s \in Threads \ {t} : Outside(s)' <=> Outside(s)
  BY <1>3, <1>4 DEF Outside
<1>6. LockedPc' = LockedPc /\ LockedJob' = LockedJob
  <2>1. Outside(t)' \/ (pc'[t] = "idle" /\ job'[t] = NoJob)
    BY <1>2, <1>3, <1>4 DEF Outside
  <2> QED BY <1>1, <1>4, <1>5, <2>1 DEF LockedPc, LockedJob
<1>7. OutsideHoldsNothing' /\ CopiesAreOwned'
  <2>1. ASSUME NEW s \in Threads, Outside(s)'
        PROVE  Outside(s) /\ job'[s] = job[s]
    BY <1>1, <1>4, <1>5, <2>1 DEF Outside
  <2>2. OutsideHoldsNothing'
    BY <1>3, <2>1 DEF LInv, OutsideHoldsNothing
  <2>3. CopiesAreOwned'
    BY <1>1, <1>4 DEF LInv, CopiesAreOwned
  <2> QED BY <2>2, <2>3
<1>8. CASE UNCHANGED uses
  <2>1. Locked!IInv(0)'
    BY <1>1, <1>3, <1>6, <1>8, LockedStutter DEF ioVars
  <2>2. LeafIsHeld'
    BY <1>1, <1>4, <1>8 DEF LInv, LeafIsHeld
  <2> QED BY <1>1, <1>4, <1>7, <1>8, <2>1, <2>2 DEF LInv
<1>9. CASE SignAt(t)
  <2>1. pc[t] = "compute" /\ uses' = [uses EXCEPT ![k][i] = @ + 1]
    BY <1>9 DEF SignAt
  <2>2. k \in Ids /\ i \in Leaves /\ i < reserved[k] /\ uses[k][i] = 0
    BY <1>2, <2>1 DEF LInv, LeafIsHeld, Job
  <2>3. \A s \in Threads : LockedPc[s] = "reveal" /\ LockedJob[s].id = k => LockedJob[s].leaf # i
    BY <2>1 DEF LInv, LeafIsHeld, LockedPc, LockedJob
  <2>4. Locked!IInv(0)' /\ Locked!OTK!Sign(k)
    <3> HIDE DEF k, i
    <3> QED BY <1>1, <1>3, <1>6, <2>1, <2>2, <2>3, LockedUsed DEF LInv, ioVars
  <2>5. \A l \in Ids, j \in Leaves : l # k \/ j # i => uses'[l][j] = uses[l][j]
    BY <2>1, <2>2 DEF LInv, Locked!IInv, Locked!CInv, Locked!TypeOK, Locked!StateTypeOK, Leaves, Locked!Leaves
  <2>6. LeafIsHeld'
    <3> SUFFICES ASSUME NEW s \in Threads, pc'[s] = "compute"
                 PROVE  /\ job'[s].id \in Ids /\ job'[s].leaf < reserved'[job'[s].id]
                        /\ uses'[job'[s].id][job'[s].leaf] = 0
                        /\ \A r \in Threads \ {s} :
                             pc'[r] \in {"compute", "reveal"} /\ job'[r].id = job'[s].id =>
                               job'[r].leaf # job'[s].leaf
      BY DEF LeafIsHeld
    <3>1. s # t /\ pc[s] = "compute" /\ job'[s] = job[s] /\ job[s].leaf \in Leaves
      BY <1>4 DEF LInv, OutsideHoldsNothing, Outside, Job
    <3>2. job[s].id # k \/ job[s].leaf # i
      BY <2>1, <3>1 DEF LInv, LeafIsHeld
    <3> QED BY <1>1, <1>4, <2>5, <3>1, <3>2 DEF LInv, LeafIsHeld
  <2> QED BY <1>1, <1>4, <1>7, <2>2, <2>4, <2>6 DEF LInv
<1> QED BY <1>8, <1>9 DEF SignAtFails, Return

(***************************************************************************)
(* What happens around the calls happens to those inside their locks too.  *)
(***************************************************************************)
LEMMA OwnersInside ==
  ASSUME LInv, (\E h \in Handles : Open(h) \/ OpenMemory(h)) \/ Link \/ RemoveKey
  PROVE  LInv' /\ [Locked!Next]_(Locked!vars)
<1>1. UNCHANGED <<temps, lock, tlock, pc, job, reserved, uses>>
  BY DEF Open, OpenMemory, Link, RemoveKey, ioVars
<1>2. /\ \A s \in Threads : Outside(s)' <=> Outside(s)
      /\ LockedPc' = LockedPc /\ LockedJob' = LockedJob
  BY <1>1 DEF Outside, LockedPc, LockedJob
<1>3. Locked!Environment
  BY <1>1, <1>2, FreeInside
  DEF Open, OpenMemory, Link, RemoveKey, Locked!Open, Locked!OpenMemory, Locked!Link, Locked!RemoveKey,
      Locked!Environment, ioVars, Locked!ioVars
<1>4. [Locked!Next]_(Locked!vars) /\ Locked!IInv(0)'
  BY <1>3, LockedStep DEF Locked!Next, LInv
<1>5. \A s \in Threads : Outside(s) => handle'[job[s].h] # NoHandle
  <2> SUFFICES ASSUME NEW s \in Threads, Outside(s) PROVE handle'[job[s].h] # NoHandle
    OBVIOUS
  <2>1. job[s] \in Job /\ job[s] # NoJob /\ handle[job[s].h] # NoHandle /\ job[s].h \in Handles
    BY SlotAssumption DEF LInv, OutsideHoldsNothing, Job
  <2>2. \/ handle' = handle
        \/ \E h \in Handles : FreeSlot(h) /\ \E new : handle' = [handle EXCEPT ![h] = new]
    BY DEF Open, OpenMemory, Link, RemoveKey
  <2>3. handle \in [Handles -> Handle \cup {NoHandle}]
    BY DEF LInv, Locked!IInv, Locked!CInv, Locked!TypeOK, Locked!StateTypeOK, Locked!Handle, Handle
  <2> QED BY <2>1, <2>2, <2>3 DEF FreeSlot
<1>6. LmsTypeOK' /\ OutsideHoldsNothing' /\ CopiesAreOwned' /\ LeafIsHeld'
  BY <1>1, <1>2, <1>5 DEF LInv, LmsTypeOK, OutsideHoldsNothing, CopiesAreOwned, LeafIsHeld
<1> QED BY <1>4, <1>6 DEF LInv

\* A killed process takes its calls with it, inside and outside.
LEMMA CrashInside ==
  ASSUME LInv, NEW h \in Handles, Crash(h)
  PROVE  LInv' /\ [Locked!Next]_(Locked!vars)
<1> DEFINE dead == CallsOn(h)
           dies == Locked!CallsOn(h)
<1>1. /\ UNCHANGED <<file, durable, linked, born, reserved, uses>>
      /\ \A s \in dead : pc'[s] = "idle" /\ job'[s] = NoJob
      /\ \A s \in Threads \ dead : pc'[s] = pc[s] /\ job'[s] = job[s]
      /\ handle' = [g \in Handles |-> IF g \in {h} THEN NoHandle ELSE handle[g]]
      /\ tlock' = [g \in Handles |-> IF g \in {h} THEN Nobody ELSE tlock[g]]
      /\ lock' = IF lock \in dead THEN Nobody ELSE lock
      /\ temps' = Orphaned(dead)
  BY DEF Crash, Forget, KillIO, CallsOn
<1>2. \A s \in Threads : s \in dead <=> job[s] # NoJob /\ job[s].h = h
  BY DEF CallsOn
<1>3. \A s \in Threads : s \in dies <=> s \in dead /\ ~Outside(s)
  BY <1>2 DEF Locked!CallsOn, LockedJob
<1>4. \A s \in dead : Outside(s) => lock # s /\ s \notin temps
  <2> SUFFICES ASSUME NEW s \in Threads, Outside(s) PROVE lock # s /\ s \notin temps
    BY DEF CallsOn
  <2>1. lock # s
    BY DEF LInv, OutsideHoldsNothing
  <2> QED BY <2>1 DEF LInv, CopiesAreOwned, Outside
<1>5. \A s \in Threads \ dead : Outside(s)' <=> Outside(s)
  <2> SUFFICES ASSUME NEW s \in Threads \ dead PROVE Outside(s)' <=> Outside(s)
    OBVIOUS
  <2>1. ASSUME pc[s] \in {"done", "raise"}, job[s].op = "sign"
        PROVE  job[s].h \in Handles \ {h}
    <3>1. job[s] \in Job
      BY <2>1, ObjectInside DEF LInv, OutsideHoldsNothing
    <3> QED BY <1>2, <3>1, SlotAssumption DEF Job
  <2> QED BY <1>1, <2>1 DEF Outside
<1>6. \A s \in dead : ~Outside(s)'
  BY <1>1 DEF Outside
<1>7. LockedPc' = [s \in Threads |-> IF s \in dies THEN "idle" ELSE LockedPc[s]]
  BY <1>1, <1>3, <1>5, <1>6 DEF LockedPc
<1>8. LockedJob' = [s \in Threads |-> IF s \in dies THEN NoJob ELSE LockedJob[s]]
  BY <1>1, <1>3, <1>5, <1>6 DEF LockedJob
<1>9. dead \subseteq Threads /\ dies \subseteq Threads
  BY DEF CallsOn, Locked!CallsOn
<1>10. /\ lock' = IF lock \in dies THEN Nobody ELSE lock
       /\ temps' = Locked!Orphaned(dies)
  <2>1. lock \in dead <=> lock \in dies
    BY <1>3, <1>4, <1>9
  <2>2. temps \ dead = temps \ dies /\ (temps \cap dead = {} <=> temps \cap dies = {})
    BY <1>3, <1>4, <1>9
  <2> QED BY <1>1, <2>1, <2>2 DEF Orphaned, Locked!Orphaned
<1>11. ~Locked!FreeSlot(h)
  <2>1. CASE handle[h] # NoHandle
    BY <2>1 DEF Locked!FreeSlot
  <2>2. CASE handle[h] = NoHandle
    <3>1. PICK s \in Threads : job[s] # NoJob /\ job[s].h = h
      BY <2>2 DEF Crash, FreeSlot
    <3>2. ~Outside(s)
      BY <2>2, <3>1 DEF LInv, OutsideHoldsNothing
    <3> QED BY <3>1, <3>2 DEF Locked!FreeSlot, LockedJob
  <2> QED BY <2>1, <2>2
<1>12. Locked!Crash(h)
  <2> HIDE DEF dead, dies
  <2>1. Locked!Forget({h}, dies) /\ Locked!KillIO(dies)
    BY <1>1, <1>7, <1>8, <1>10 DEF Locked!Forget, Locked!KillIO
  <2> QED BY <1>1, <1>11, <2>1 DEF Locked!Crash, dies
<1>13. [Locked!Next]_(Locked!vars) /\ Locked!IInv(0)'
  BY <1>12, LockedStep DEF Locked!Next, Locked!Environment, LInv
<1>14. LmsTypeOK'
  BY DEF LInv, LmsTypeOK, Crash, Forget
<1>15. \A s \in Threads : Outside(s)' => s \notin dead /\ Outside(s) /\ job'[s] = job[s]
  BY <1>1, <1>5, <1>6
<1>16. OutsideHoldsNothing'
  <2> SUFFICES ASSUME NEW s \in Threads, Outside(s)'
               PROVE  /\ job'[s] \in Job /\ job'[s].op = "sign"
                      /\ handle'[job'[s].h] # NoHandle
                      /\ lock' # s /\ \A g \in Handles : tlock'[g] # s
    BY DEF OutsideHoldsNothing
  <2>1. s \notin dead /\ Outside(s) /\ job'[s] = job[s]
    BY <1>15
  <2>2. job[s] \in Job /\ job[s] # NoJob /\ job[s].h \in Handles \ {h}
    BY <1>2, <2>1, SlotAssumption DEF LInv, OutsideHoldsNothing, Job
  <2> QED BY <1>1, <2>1, <2>2, NobodyAssumption DEF LInv, OutsideHoldsNothing
<1>17. CopiesAreOwned'
  BY <1>1, <1>9, NobodyAssumption DEF LInv, CopiesAreOwned, Orphaned
<1>18. LeafIsHeld'
  <2>1. \A s \in Threads : pc'[s] \in {"compute", "reveal"} => pc[s] = pc'[s] /\ job'[s] = job[s]
    BY <1>1, <1>9
  <2> QED BY <1>1, <2>1 DEF LInv, LeafIsHeld
<1> QED BY <1>13, <1>14, <1>16, <1>17, <1>18 DEF LInv

LEMMA PowerLossInside ==
  ASSUME LInv, PowerLoss
  PROVE  LInv' /\ [Locked!Next]_(Locked!vars)
<1>1. /\ pc' = [s \in Threads |-> "idle"] /\ job' = [s \in Threads |-> NoJob]
      /\ \A s \in Threads : ~Outside(s)'
  BY DEF PowerLoss, Forget, Outside
<1>2. /\ LockedPc' = [s \in Threads |-> IF s \in Threads THEN "idle" ELSE LockedPc[s]]
      /\ LockedJob' = [s \in Threads |-> IF s \in Threads THEN NoJob ELSE LockedJob[s]]
  BY <1>1 DEF LockedPc, LockedJob
<1>3. Locked!PowerLoss
  BY <1>2
  DEF PowerLoss, Forget, PowerLossIO, Orphaned, Locked!PowerLoss, Locked!Forget, Locked!PowerLossIO,
      Locked!Orphaned
<1>4. [Locked!Next]_(Locked!vars) /\ Locked!IInv(0)'
  BY <1>3, LockedStep DEF Locked!Next, Locked!Environment, LInv
<1>5. LmsTypeOK' /\ OutsideHoldsNothing' /\ LeafIsHeld'
  BY <1>1 DEF LmsTypeOK, OutsideHoldsNothing, LeafIsHeld
<1>6. CopiesAreOwned'
  BY NobodyAssumption DEF CopiesAreOwned, PowerLoss, PowerLossIO, Orphaned
<1> QED BY <1>4, <1>5, <1>6 DEF LInv

-----------------------------------------------------------------------------
LEMMA LInit == Init => LInv
<1> SUFFICES ASSUME Init PROVE LInv
  OBVIOUS
<1>1. \A s \in Threads : pc[s] = "idle" /\ job[s] = NoJob /\ ~Outside(s)
  BY DEF Init, Outside
<1>2. LockedPc = [s \in Threads |-> "idle"] /\ LockedJob = [s \in Threads |-> NoJob]
  BY <1>1 DEF LockedPc, LockedJob
<1>3. Locked!Init
  BY <1>2 DEF Init, Locked!Init, Leaves, Locked!Leaves
<1>4. Locked!IInv(0)
  BY <1>3, Locked!IInit, LockedAssumptions
<1> QED BY <1>1, <1>4 DEF LInv, LmsTypeOK, OutsideHoldsNothing, CopiesAreOwned, LeafIsHeld, Init

\* A step inside the locks does to the abstract key what MerkleSigner's does.
LEMMA LockedIsOneTimeKey ==
  ASSUME Locked!IInv(0), [Locked!Next]_(Locked!vars)
  PROVE  [OTK!Next]_<<reserved, uses>>
<1>1. [Locked!OTK!Next]_<<reserved, uses>>
  BY Locked!StepIsOneTimeKey, LockedAssumptions
<1> QED BY <1>1 DEF OTK!Next, OTK!Reserve, OTK!Sign, OTK!Leaves,
                    Locked!OTK!Next, Locked!OTK!Reserve, Locked!OTK!Sign, Locked!OTK!Leaves

LEMMA LStep ==
  ASSUME OneIdentity, LInv, [LmsNext]_vars
  PROVE  LInv' /\ [OTK!Next]_<<reserved, uses>>
<1>1. CASE UNCHANGED vars
  <2>1. /\ UNCHANGED <<ioVars, handle, tlock, pc, job, linked, born, reserved, uses>>
        /\ \A s \in Threads : Outside(s)' <=> Outside(s)
    BY <1>1 DEF vars, signerVars, Outside
  <2>2. UNCHANGED <<LockedPc, LockedJob>>
    BY <2>1 DEF LockedPc, LockedJob
  <2>3. Locked!IInv(0)'
    BY <2>1, <2>2, LockedStutter
  <2>4. LmsTypeOK' /\ OutsideHoldsNothing' /\ CopiesAreOwned' /\ LeafIsHeld'
    BY <2>1 DEF LInv, LmsTypeOK, OutsideHoldsNothing, CopiesAreOwned, LeafIsHeld, ioVars
  <2> QED BY <2>1, <2>3, <2>4 DEF LInv
<1>2. CASE \E t \in Threads : LeaveLocks(t)
  BY <1>2, LeaveLocksStep
<1>3. CASE \E t \in Threads : SignAt(t) \/ SignAtFails(t) \/ (Return(t) /\ Outside(t))
  <2>1. PICK t \in Threads : SignAt(t) \/ SignAtFails(t) \/ (Return(t) /\ Outside(t))
    BY <1>3
  <2>2. LInv' /\ UNCHANGED reserved /\ (UNCHANGED uses \/ \E k \in Ids : Locked!OTK!Sign(k))
    BY <2>1, OutsideStep
  <2> QED BY <2>2 DEF OTK!Next, OTK!Sign, OTK!Leaves, Locked!OTK!Sign, Locked!OTK!Leaves
<1>4. ASSUME LInv' /\ [Locked!Next]_(Locked!vars)
      PROVE  LInv' /\ [OTK!Next]_<<reserved, uses>>
  BY <1>4, LockedIsOneTimeKey DEF LInv
<1>5. CASE \E t \in Threads, h \in Handles : Calls(t, h)
  BY <1>4, <1>5, CallsInside
<1>6. CASE \E t \in Threads : Waits(t)
  BY <1>4, <1>6, WaitsInside
<1>7. CASE \E t \in Threads : InsideLocks(t)
  BY <1>4, <1>7, RunsInside
<1>8. CASE \E t \in Threads : Return(t) /\ ~Outside(t)
  BY <1>4, <1>8, ReturnInside
<1>9. CASE Environment
  <2>1. CASE PowerLoss
    BY <1>4, <2>1, PowerLossInside
  <2>2. CASE \E h \in Handles : Crash(h)
    BY <1>4, <2>2, CrashInside
  <2>3. CASE (\E h \in Handles : Open(h) \/ OpenMemory(h)) \/ Link \/ RemoveKey
    BY <1>4, <2>3, OwnersInside
  <2> QED BY <1>9, <2>1, <2>2, <2>3 DEF Environment
<1> QED BY <1>1, <1>2, <1>3, <1>5, <1>6, <1>7, <1>8, <1>9 DEF LmsNext, LmsRuns, InsideLocks

-----------------------------------------------------------------------------
LEMMA LInvAlways ==
  ASSUME OneIdentity
  PROVE  LmsSpec => []LInv
<1>1. LInv /\ [LmsNext]_vars => LInv'
  BY LStep
<1> QED BY <1>1, LInit, PTL DEF LmsSpec

(***************************************************************************)
(* No LMS leaf signs twice (RFC 8554: "each q used once"), though the      *)
(* signatures are computed after both locks are given back.                *)
(***************************************************************************)
THEOREM LmsLeavesAreOneTime ==
  ASSUME OneIdentity
  PROVE  LmsSpec => []OneTime
<1>1. LInv => OneTime
  BY DEF LInv, Locked!IInv, Locked!JInv, Locked!OneTime, Locked!Leaves, OneTime, Leaves
<1> QED BY <1>1, LInvAlways, PTL

(***************************************************************************)
(* While a signature is computed outside the locks (LmsKey.sign), its leaf *)
(* is unused, spent in the key file, and no other call's.                  *)
(***************************************************************************)
THEOREM LmsLeafIsKept ==
  ASSUME OneIdentity
  PROVE  LmsSpec => []ReservedLeafKept
<1>1. LInv => ReservedLeafKept
  <2> SUFFICES ASSUME LInv, NEW t \in Threads, Computing(t)
               PROVE  /\ uses[job[t].id][job[t].leaf] = 0
                      /\ file # NoFile /\ file.id = job[t].id => job[t].leaf < file.next
                      /\ \A s \in Threads \ {t} :
                           Computing(s) /\ job[s].id = job[t].id => job[s].leaf # job[t].leaf
    BY DEF ReservedLeafKept
  <2>1. /\ pc[t] = "compute" /\ job[t].id \in Ids /\ job[t].leaf < reserved[job[t].id]
        /\ uses[job[t].id][job[t].leaf] = 0
        /\ \A s \in Threads \ {t} :
             Computing(s) /\ job[s].id = job[t].id => job[s].leaf # job[t].leaf
    BY DEF LInv, LeafIsHeld, Computing
  <2>2. ASSUME file # NoFile, file.id = job[t].id
        PROVE  job[t].leaf < file.next
    <3>1. reserved[job[t].id] <= file.next + 0
      BY <2>1, <2>2 DEF LInv, Locked!IInv, Locked!JInv, Locked!FileAhead
    <3>2. file.next \in Nat /\ reserved[job[t].id] \in Nat
      BY <2>1, <2>2, LeafAssumption
      DEF LInv, Locked!IInv, Locked!CInv, Locked!TypeOK, Locked!StateTypeOK, Locked!Key
    <3>3. job[t].leaf \in Nat
      BY <2>1, LeafAssumption DEF LInv, OutsideHoldsNothing, Outside, Job, Leaves
    <3> QED BY <2>1, <3>1, <3>2, <3>3
  <2> QED BY <2>1, <2>2
<1> QED BY <1>1, LInvAlways, PTL

(***************************************************************************)
(* LmsKey is a one-time key: whatever its calls, crashes and power losses  *)
(* do, what is seen outside is leaves reserved in order and each signed    *)
(* with at most once.                                                      *)
(***************************************************************************)
THEOREM LmsIsOneTimeKey ==
  ASSUME OneIdentity
  PROVE  LmsSpec => ImplementsOneTimeKey
<1>1. Init => OTK!Init
  BY DEF Init, OTK!Init, OTK!Leaves, Leaves
<1>2. LInv /\ [LmsNext]_vars => [OTK!Next]_<<reserved, uses>>
  BY LStep
<1> QED BY <1>1, <1>2, LInvAlways, PTL DEF LmsSpec, ImplementsOneTimeKey, OTK!Spec
-----------------------------------------------------------------------------
(***************************************************************************)
(* RestoredSigner: what restoring a copy of the key file can and cannot    *)
(* do, for every number of threads, objects, identities, leaves and        *)
(* restores.                                                               *)
(***************************************************************************)

(***************************************************************************)
(* With the procedure of docs/SIGNING.md the signer's invariant survives   *)
(* a restore when it is read with a debt: the file is behind by at most    *)
(* what is owed (IInv(owed)).  The copy is a key of this program's, and of *)
(* no object in memory.                                                    *)
(***************************************************************************)
InMemoryObject(h) == handle[h] # NoHandle /\ handle[h].kind = "memory"

CopyIsKey ==
  /\ copy \in Key \cup {NoFile}
  /\ copy # NoFile => /\ copy.id \in born
                      /\ \A h \in Handles : InMemoryObject(h) => handle[h].id # copy.id

RInv == IInv(owed) /\ CopyIsKey

(***************************************************************************)
(* Without it, what an object has signed stays below its index             *)
(* (ObjectIsAfter), and a call in progress claimed from there (ClaimIsAfter). *)
(***************************************************************************)
ObjectIsAfter ==
  \A h \in Handles :
    /\ signed[h] \in 0..LeafCount
    /\ handle[h] = NoHandle => signed[h] = 0
    /\ handle[h] # NoHandle => signed[h] <= handle[h].next

ClaimIsAfter ==
  \A t \in Threads : pc[t] \in Saving \cup {"reveal"} /\ job[t].op # "create" =>
    /\ signed[job[t].h] <= job[t].old
    /\ job[t].op = "sign" => /\ job[t].old <= job[t].leaf
                             /\ handle[job[t].h].next = job[t].leaf + 1

SInv == CInv /\ signed \in [Handles -> 0..LeafCount] /\ ObjectIsAfter /\ ClaimIsAfter

-----------------------------------------------------------------------------
\* Two calls past their locks work on two objects.
LEMMA OtherObject ==
  ASSUME CInv, NEW t \in Threads, NEW s \in Threads, s # t, pc[s] \in Critical, pc[t] \in Critical
  PROVE  job[s].h # job[t].h
BY DEF CInv, CallHoldsLocks, CreateIsAlone, Busy, Critical

\* Outside Reveal nothing goes out, and the history of an object only ends with it.
Unsigned == \A h \in Handles : signed'[h] = IF handle'[h] = NoHandle THEN 0 ELSE signed[h]

LEMMA SignedStays ==
  ASSUME CInv, ProgramStep, \A t \in Threads : ~(pc[t] = "reveal" /\ pc'[t] = "done")
  PROVE  Unsigned
<1>1. \A h \in Handles : CallsOn(h) \subseteq Threads
  BY DEF CallsOn
<1> QED BY <1>1 DEF ProgramStep, SignedAfter, Unsigned

(***************************************************************************)
(* A step that signs nothing keeps the invariant when no object falls      *)
(* below its history and every call in a save claimed above it.            *)
(***************************************************************************)
LEMMA KeepsSigned ==
  ASSUME SInv, CInv', Unsigned, signed' \in [Handles -> Nat],
         \A h \in Handles : handle'[h] # NoHandle => signed[h] <= handle'[h].next,
         \A t \in Threads : pc'[t] \in Saving \cup {"reveal"} /\ job'[t].op # "create" =>
           /\ signed[job'[t].h] <= job'[t].old
           /\ job'[t].op = "sign" => /\ job'[t].old <= job'[t].leaf
                                     /\ handle'[job'[t].h].next = job'[t].leaf + 1
  PROVE  SInv'
<1>1. \A h \in Handles : signed'[h] \in 0..LeafCount
  BY LeafAssumption DEF Unsigned, SInv
<1>2. signed' \in [Handles -> 0..LeafCount] /\ ObjectIsAfter'
  BY <1>1 DEF Unsigned, ObjectIsAfter, SInv
<1>3. \A t \in Threads : pc'[t] \in Saving \cup {"reveal"} /\ job'[t].op # "create" =>
        job'[t].h \in Handles /\ handle'[job'[t].h] # NoHandle
  BY SlotAssumption DEF CInv, CallHasObject, Busy, Saving, Job
<1>4. ClaimIsAfter'
  BY <1>3 DEF ClaimIsAfter, Unsigned
<1> QED BY <1>2, <1>4 DEF SInv

\* The calls that do not move keep their claims: a step of t touches no object but its own.
LEMMA MoveKeepsSigned ==
  ASSUME SInv, CInv', Unsigned, signed' \in [Handles -> Nat],
         NEW t \in Threads, Busy(t),
         \A s \in Threads \ {t} : pc'[s] = pc[s] /\ job'[s] = job[s],
         job[t].op # "create",
         pc[t] \in Critical,
         \A g \in Handles \ {job[t].h} : handle'[g] = handle[g],
         handle'[job[t].h] # NoHandle => signed[job[t].h] <= handle'[job[t].h].next,
         pc'[t] \in Saving \cup {"reveal"} =>
           /\ job'[t].h = job[t].h /\ job'[t].op = job[t].op
           /\ signed[job[t].h] <= job'[t].old
           /\ job[t].op = "sign" => /\ job'[t].old <= job'[t].leaf
                                    /\ handle'[job[t].h].next = job'[t].leaf + 1
  PROVE  SInv'
<1>1. \A g \in Handles : handle'[g] # NoHandle => signed[g] <= handle'[g].next
  BY DEF SInv, ObjectIsAfter
<1>2. ASSUME NEW s \in Threads, pc'[s] \in Saving \cup {"reveal"}, job'[s].op # "create"
      PROVE  /\ signed[job'[s].h] <= job'[s].old
             /\ job'[s].op = "sign" => /\ job'[s].old <= job'[s].leaf
                                       /\ handle'[job'[s].h].next = job'[s].leaf + 1
  <2>1. CASE s = t
    BY <1>2, <2>1
  <2>2. CASE s # t
    <3>1. pc[s] \in Critical /\ Busy(s)
      BY <1>2, <2>2 DEF Saving, Critical, Busy
    <3>2. job[s].h # job[t].h /\ job[s].h \in Handles
      BY <2>2, <3>1, OtherObject, ObjectOf DEF SInv
    <3> QED BY <1>2, <2>2, <3>2 DEF SInv, ClaimIsAfter
  <2> QED BY <2>1, <2>2
<1> QED BY <1>1, <1>2, KeepsSigned


LEMMA ClaimKeepsSigned ==
  ASSUME SInv, CInv', Unsigned, signed' \in [Handles -> Nat], NEW t \in Threads,
         ReserveLeaf(t) \/ SpendLeaves(t)
  PROVE  SInv'
<1> DEFINE h == job[t].h
<1>1. /\ Busy(t) /\ pc[t] = "check" /\ pc[t] \in Critical /\ job[t].op # "create"
      /\ SignReads(h) \/ AdvanceReads(h)
  BY DEF ReserveLeaf, SpendLeaves, Busy, Critical
<1>2. AdvanceReads(h)
  BY <1>1 DEF SignReads, AdvanceReads
<1>3. /\ job[t] \in Job /\ h \in Handles /\ handle[h] \in Handle /\ handle[h] # NoHandle
      /\ handle[h].next \in Nat /\ Latest(h) \in Nat /\ AdvanceFrom(h) \in Nat
      /\ signed[h] \in Nat /\ signed[h] <= handle[h].next
  BY <1>1, <1>2, ObjectOf, LatestType, SlotAssumption, LeafAssumption DEF SInv, Handle, ObjectIsAfter
<1>4. PICK n, from, leaf : /\ Claim(t, n, from, leaf)
                           /\ from \in Nat /\ n \in Nat
                           /\ signed[h] <= from /\ from <= n
                           /\ job[t].op = "sign" => from <= leaf /\ n = leaf + 1
  <2>1. CASE ReserveLeaf(t)
    <3>1. handle[h].next <= Latest(h)
      BY <1>3, <2>1 DEF ReserveLeaf, SignReads, Latest, InMemory
    <3>2. Chosen(t) \in Nat
      BY <1>3, <2>1, ArgumentAssumption DEF ReserveLeaf, Chosen, Job
    <3> QED BY <1>3, <2>1, <3>1, <3>2 DEF ReserveLeaf, Usable
  <2>2. CASE SpendLeaves(t)
    <3>1. handle[h].next <= AdvanceFrom(h)
      BY <1>3 DEF AdvanceFrom, Larger
    <3>2. job[t].arg \in Nat /\ job[t].op = "advance"
      BY <1>1, <2>2, ObjectOf DEF SpendLeaves, SInv
    <3> QED BY <1>3, <2>2, <3>1, <3>2 DEF SpendLeaves
  <2> QED BY <2>1, <2>2
<1>5. /\ \A s \in Threads \ {t} : pc'[s] = pc[s] /\ job'[s] = job[s]
      /\ job'[t].h = h /\ job'[t].op = job[t].op
      /\ job'[t].leaf = leaf /\ job'[t].old = from
  BY <1>3, <1>4 DEF Claim, Goto, SInv, CInv, TypeOK, StateTypeOK, Job
<1>6. /\ handle'[h].next = n /\ \A g \in Handles \ {h} : handle'[g] = handle[g]
  BY <1>3, <1>4 DEF Claim, SInv, CInv, TypeOK, StateTypeOK, Handle
<1>7. signed[h] <= n
  BY <1>3, <1>4
<1> QED BY <1>1, <1>3, <1>4, <1>5, <1>6, <1>7, MoveKeepsSigned

LEMMA RaiseKeepsSigned ==
  ASSUME SInv, CInv', Unsigned, signed' \in [Handles -> Nat], NEW t \in Threads,
         RefuseLeaf(t) \/ RefuseAdvance(t) \/ RefuseState(t) \/ SaveFails(t) \/ Interrupted(t)
  PROVE  SInv'
<1> DEFINE h == job[t].h
<1>1. /\ Busy(t) /\ pc[t] \in Critical /\ pc'[t] = "raise" /\ UNCHANGED job
      /\ \A s \in Threads \ {t} : pc'[s] = pc[s]
  BY DEF RefuseLeaf, RefuseAdvance, RefuseState, SaveFails, Interrupted, Goto, Busy, Critical,
         SInv, CInv, TypeOK
<1>2. job[t] \in Job /\ h \in Handles
  BY <1>1, ObjectOf DEF SInv
<1>3. CASE UNCHANGED handle
  BY <1>1, <1>3, KeepsSigned DEF SInv, ObjectIsAfter, ClaimIsAfter, Saving
<1>4. CASE RefuseLeaf(t) \/ RefuseAdvance(t)
  <2>1. /\ job[t].op # "create" /\ pc[t] = "check" /\ AdvanceReads(h)
    BY <1>4 DEF RefuseLeaf, RefuseAdvance, SignReads, AdvanceReads
  <2>2. /\ handle[h] \in Handle /\ handle[h] # NoHandle /\ handle[h].next \in Nat
        /\ Latest(h) \in Nat /\ AdvanceFrom(h) \in Nat
        /\ signed[h] \in Nat /\ signed[h] <= handle[h].next
    BY <1>1, <1>2, <2>1, ObjectOf, LatestType, SlotAssumption, LeafAssumption
    DEF SInv, Handle, ObjectIsAfter
  <2>3. PICK n \in Nat : /\ handle' = [handle EXCEPT ![h].next = n]
                         /\ handle[h].next <= n
    <3>1. CASE RefuseLeaf(t)
      <4>1. handle[h].next <= Latest(h)
        BY <2>2, <3>1 DEF RefuseLeaf, SignReads, Latest, InMemory
      <4>2. handle' = [handle EXCEPT ![h].next = Latest(h)]
        BY <3>1 DEF RefuseLeaf
      <4> QED BY <2>2, <4>1, <4>2, Zenon
    <3>2. CASE RefuseAdvance(t)
      <4>1. handle[h].next <= AdvanceFrom(h)
        BY <2>2 DEF AdvanceFrom, Larger
      <4>2. handle' = [handle EXCEPT ![h].next = AdvanceFrom(h)]
        BY <3>2 DEF RefuseAdvance
      <4> QED BY <2>2, <4>1, <4>2, Zenon
    <3> QED BY <1>4, <3>1, <3>2
  <2>4. handle'[h].next = n /\ \A g \in Handles \ {h} : handle'[g] = handle[g]
    BY <1>2, <2>2, <2>3 DEF SInv, CInv, TypeOK, StateTypeOK, Handle
  <2>5. signed[h] <= n
    BY <2>2, <2>3
  <2> QED BY <1>1, <1>2, <2>1, <2>4, <2>5, MoveKeepsSigned DEF Saving
<1>5. CASE SaveFails(t) /\ job[t].op # "create"
  <2>1. pc[t] \in Saving /\ handle' = [handle EXCEPT ![h].next = job[t].old]
    BY <1>5 DEF SaveFails, Undone, Saving
  <2>2. signed[h] <= job[t].old
    BY <1>5, <2>1 DEF SInv, ClaimIsAfter
  <2>3. handle[h] \in Handle
    BY <1>1, <1>5, ObjectOf DEF SInv
  <2>4. handle'[h].next = job[t].old /\ \A g \in Handles \ {h} : handle'[g] = handle[g]
    BY <1>2, <2>1, <2>3 DEF SInv, CInv, TypeOK, StateTypeOK, Handle
  <2> QED BY <1>1, <1>2, <1>5, <2>2, <2>4, MoveKeepsSigned DEF Saving
<1>6. UNCHANGED handle \/ RefuseLeaf(t) \/ RefuseAdvance(t) \/ (SaveFails(t) /\ job[t].op # "create")
  BY DEF RefuseState, SaveFails, Interrupted, Undone
<1> QED BY <1>3, <1>4, <1>5, <1>6


\* A step that starts, waits, saves or ends no object's claim.
LEMMA QuietKeepsSigned ==
  ASSUME SInv, CInv', Unsigned, signed' \in [Handles -> Nat], UNCHANGED handle,
         \A t \in Threads : pc'[t] \in Saving \cup {"reveal"} /\ job'[t].op # "create" =>
           pc[t] \in Saving \cup {"reveal"} /\ job'[t] = job[t]
  PROVE  SInv'
BY KeepsSigned DEF SInv, ObjectIsAfter, ClaimIsAfter

LEMMA RevealKeepsSigned ==
  ASSUME SInv, CInv', ProgramStep, NEW t \in Threads, Reveal(t)
  PROVE  SInv'
<1> DEFINE h == job[t].h
<1>1. /\ pc[t] = "reveal" /\ pc'[t] = "done" /\ Busy(t) /\ pc[t] \in Critical /\ UNCHANGED <<handle, job>>
      /\ \A s \in Threads \ {t} : pc'[s] = pc[s]
  BY DEF Reveal, Goto, Busy, Critical, SInv, CInv, TypeOK
<1>2. job[t].op = "sign"
  BY <1>1 DEF SInv, CInv, CallHoldsLocks
<1>3. /\ job[t] \in Job /\ job[t] # NoJob /\ h \in Handles /\ job[t].leaf \in Leaves
      /\ handle[h] \in Handle /\ handle[h] # NoHandle
  BY <1>1, <1>2, ObjectOf, SlotAssumption DEF SInv, Job
<1>4. handle[h].next = job[t].leaf + 1
  BY <1>1, <1>2 DEF SInv, ClaimIsAfter
<1>5. \A s \in Threads : pc[s] = "reveal" /\ pc'[s] = "done" => s = t
  BY <1>1
<1>6. t \in CallsOn(h)
  BY <1>3 DEF CallsOn
<1>7. (CHOOSE s \in CallsOn(h) : pc[s] = "reveal" /\ pc'[s] = "done") = t
  BY <1>1, <1>5, <1>6 DEF CallsOn
<1>8. SignedAfter(h) = 1 + job[t].leaf
  BY <1>1, <1>3, <1>6, <1>7 DEF SignedAfter
<1>9. \A g \in Handles \ {h} : SignedAfter(g) = IF handle'[g] = NoHandle THEN 0 ELSE signed[g]
  BY <1>5 DEF SignedAfter, CallsOn
<1>10. signed' = [g \in Handles |-> SignedAfter(g)]
  BY DEF ProgramStep
<1>11. /\ signed'[h] = handle[h].next /\ signed'[h] \in 0..LeafCount
  BY <1>3, <1>4, <1>8, <1>10, LeafAssumption DEF Leaves
<1>12. \A g \in Handles \ {h} : signed'[g] = signed[g]
  BY <1>1, <1>9, <1>10 DEF SInv, ObjectIsAfter
<1>13. signed' \in [Handles -> 0..LeafCount] /\ ObjectIsAfter'
  BY <1>1, <1>3, <1>10, <1>11, <1>12 DEF SInv, ObjectIsAfter, Handle
<1>14. ClaimIsAfter'
  <2> SUFFICES ASSUME NEW s \in Threads, pc'[s] \in Saving \cup {"reveal"}, job'[s].op # "create"
               PROVE  /\ signed'[job'[s].h] <= job'[s].old
                      /\ job'[s].op = "sign" => /\ job'[s].old <= job'[s].leaf
                                                /\ handle'[job'[s].h].next = job'[s].leaf + 1
    BY DEF ClaimIsAfter
  <2>1. s # t /\ pc'[s] = pc[s] /\ pc[s] \in Critical /\ Busy(s)
    BY <1>1 DEF Saving, Critical, Busy
  <2>2. job[s].h # h /\ job[s].h \in Handles
    BY <1>1, <2>1, OtherObject, ObjectOf DEF SInv
  <2> QED BY <1>1, <1>12, <2>1, <2>2 DEF SInv, ClaimIsAfter
<1> QED BY <1>13, <1>14 DEF SInv

\* A call ends: the slot create fills has a new object, which has signed nothing.
LEMMA ReturnKeepsSigned ==
  ASSUME SInv, CInv', Unsigned, signed' \in [Handles -> Nat], NEW t \in Threads, Return(t)
  PROVE  SInv'
<1>1. GiveUp(t) /\ Busy(t) /\ job[t] \in Job /\ job[t].h \in Handles
  BY ReturnGivesUp, ObjectOf DEF Return, Busy, SInv
<1>2. /\ pc'[t] = "idle" /\ \A s \in Threads \ {t} : pc'[s] = pc[s] /\ job'[s] = job[s]
  BY DEF Return, Goto, SInv, CInv, TypeOK, StateTypeOK
<1>3. \A s \in Threads \ {t} : Busy(s) => handle'[job[s].h] = handle[job[s].h]
  BY <1>1 DEF GiveUp, Created, SInv, CInv, TypeOK, StateTypeOK, CallHasObject, CreateIsAlone, Busy, Job
<1>4. \A h \in Handles : handle'[h] = handle[h] \/ (handle[h] = NoHandle /\ handle'[h].next = 0)
  BY <1>1, ObjectOf DEF GiveUp, Created, SInv, CInv, TypeOK, StateTypeOK
<1>5. \A h \in Handles : handle'[h] # NoHandle => signed[h] <= handle'[h].next
  BY <1>4 DEF SInv, ObjectIsAfter
<1> QED BY <1>2, <1>3, <1>5, KeepsSigned DEF SInv, ClaimIsAfter, Saving, Busy

LEMMA EnvironmentKeepsSigned ==
  ASSUME SInv, CInv', Unsigned, signed' \in [Handles -> Nat], Environment
  PROVE  SInv'
<1>1. CASE Link \/ RemoveKey
  BY <1>1, QuietKeepsSigned DEF Link, RemoveKey, Saving
<1>2. CASE (\E h \in Handles : Crash(h)) \/ PowerLoss
  <2>1. PICK hs \in SUBSET Handles, ts \in SUBSET Threads :
          Forget(hs, ts) /\ \A t \in Threads : Busy(t) => (t \in ts <=> job[t].h \in hs)
    <3>1. CASE PowerLoss
      BY <3>1, ObjectOf, Zenon DEF PowerLoss, SInv
    <3>2. CASE \E h \in Handles : Crash(h)
      <4>1. PICK h \in Handles : Crash(h)
        BY <3>2
      <4>2. \A t \in Threads : Busy(t) => (t \in CallsOn(h) <=> job[t].h \in {h})
        BY SlotAssumption, ObjectOf DEF CallsOn, SInv
      <4>3. CallsOn(h) \subseteq Threads /\ {h} \subseteq Handles
        BY DEF CallsOn
      <4> QED BY <4>1, <4>2, <4>3 DEF Crash
    <3> QED BY <1>2, <3>1, <3>2
  <2>2. \A h \in Handles : handle'[h] \in {NoHandle, handle[h]}
    BY <2>1 DEF Forget
  <2>3. \A t \in Threads : pc'[t] # "idle" =>
          pc'[t] = pc[t] /\ job'[t] = job[t] /\ handle'[job[t].h] = handle[job[t].h]
    BY <2>1, ObjectOf DEF Forget, Busy, SInv
  <2> QED BY <2>2, <2>3, KeepsSigned DEF SInv, ObjectIsAfter, ClaimIsAfter, Saving
<1>3. CASE \E h \in Handles : Open(h) \/ OpenMemory(h)
  <2>1. PICK h \in Handles : Open(h) \/ OpenMemory(h)
    BY <1>3
  <2>2. FreeSlot(h) /\ UNCHANGED <<pc, job>>
    BY <2>1 DEF Open, OpenMemory
  <2>3. \A g \in Handles \ {h} : handle'[g] = handle[g]
    BY <2>1 DEF Open, OpenMemory, SInv, CInv, TypeOK, StateTypeOK
  <2>4. signed[h] = 0 /\ (handle'[h] # NoHandle => handle'[h].next \in Nat)
    BY <2>2, LeafAssumption DEF SInv, ObjectIsAfter, FreeSlot, CInv, TypeOK, StateTypeOK, Handle
  <2>5. \A t \in Threads : Busy(t) => job[t].h # h /\ job[t].h \in Handles
    BY <2>2, SlotAssumption, ObjectOf DEF FreeSlot, SInv
  <2> QED BY <2>2, <2>3, <2>4, <2>5, KeepsSigned DEF SInv, ObjectIsAfter, ClaimIsAfter, Saving, Busy
<1> QED BY <1>1, <1>2, <1>3 DEF Environment

LEMMA ProgramKeepsSigned == ASSUME SInv, ProgramStep PROVE SInv'
<1>1. CInv' /\ Next
  BY CStep DEF SInv, ProgramStep
<1>2. CASE \E t \in Threads : Reveal(t)
  BY <1>1, <1>2, RevealKeepsSigned
<1>3. CASE ~(\E t \in Threads : Reveal(t))
  <2>1. \A t \in Threads : ~(pc[t] = "reveal" /\ pc'[t] = "done")
    <3> SUFFICES ASSUME NEW t \in Threads, pc[t] = "reveal", pc'[t] = "done" PROVE FALSE
      OBVIOUS
    <3>1. CASE \E s \in Threads, h \in Handles : Calls(s, h)
      BY <3>1 DEF Calls, SignCall, AdvanceCall, CreateCall, Start, Goto, SInv, CInv, TypeOK
    <3>2. CASE \E s \in Threads : Waits(s)
      BY <3>2 DEF Waits, TakeThreadLock, TakeStateLock, Goto, SInv, CInv, TypeOK
    <3>3. CASE \E s \in Threads : Runs(s)
      BY <1>3, <3>3 DEF Runs, ReserveLeaf, SpendLeaves, Claim, RefuseLeaf, RefuseAdvance, RefuseState,
         NewIdentity, SaveTemp, SaveReplace, SaveSync, SaveFails, Interrupted, Return, Goto,
         SInv, CInv, TypeOK
    <3>4. CASE Environment
      BY <3>4 DEF Environment, Open, OpenMemory, Crash, PowerLoss, Link, RemoveKey, Forget
    <3> QED BY <1>1, <3>1, <3>2, <3>3, <3>4 DEF Next
  <2>2. Unsigned
    BY <2>1, SignedStays DEF SInv
  <2>3. signed' \in [Handles -> Nat]
    <3>1. \A h \in Handles : signed'[h] \in Nat
      BY <2>2, LeafAssumption DEF Unsigned, SInv, ObjectIsAfter
    <3> QED BY <3>1 DEF ProgramStep
  <2>4. CASE \E t \in Threads, h \in Handles : Calls(t, h)
    <3>1. UNCHANGED handle /\ \A t \in Threads :
            pc'[t] \in Saving \cup {"reveal"} => pc'[t] = pc[t] /\ job'[t] = job[t]
      BY <2>4 DEF Calls, SignCall, AdvanceCall, CreateCall, Start, Goto, Saving,
                  SInv, CInv, TypeOK, StateTypeOK
    <3> QED BY <1>1, <2>2, <2>3, <3>1, QuietKeepsSigned
  <2>5. CASE \E t \in Threads : Waits(t)
    <3>1. UNCHANGED handle /\ \A t \in Threads :
            pc'[t] \in Saving \cup {"reveal"} => pc'[t] = pc[t] /\ job'[t] = job[t]
      BY <2>5 DEF Waits, TakeThreadLock, TakeStateLock, Goto, Saving, SInv, CInv, TypeOK
    <3> QED BY <1>1, <2>2, <2>3, <3>1, QuietKeepsSigned
  <2>6. CASE \E t \in Threads : NewIdentity(t) \/ SaveTemp(t) \/ SaveReplace(t) \/ SaveSync(t)
    <3>1. UNCHANGED handle /\ \A t \in Threads :
            pc'[t] \in Saving \cup {"reveal"} /\ job'[t].op # "create" =>
              pc[t] \in Saving \cup {"reveal"} /\ job'[t] = job[t]
      <4>1. PICK t \in Threads : NewIdentity(t) \/ SaveTemp(t) \/ SaveReplace(t) \/ SaveSync(t)
        BY <2>6
      <4>2. \A s \in Threads \ {t} : pc'[s] = pc[s] /\ job'[s] = job[s]
        BY <4>1 DEF NewIdentity, SaveTemp, SaveReplace, SaveSync, Goto, SInv, CInv, TypeOK, StateTypeOK
      <4>3. CASE NewIdentity(t)
        <5>1. job[t].op = "create" /\ job[t] \in Job
          BY <4>3, ObjectOf DEF NewIdentity, Busy, SInv
        <5>2. job'[t].op = "create"
          BY <4>3, <5>1 DEF NewIdentity, SInv, CInv, TypeOK, StateTypeOK, Job
        <5> QED BY <4>2, <4>3, <5>2 DEF NewIdentity
      <4>4. CASE SaveTemp(t) \/ SaveReplace(t) \/ SaveSync(t)
        BY <4>2, <4>4 DEF SaveTemp, SaveReplace, SaveSync, Saving
      <4> QED BY <4>1, <4>3, <4>4
    <3> QED BY <1>1, <2>2, <2>3, <3>1, QuietKeepsSigned
  <2>7. CASE \E t \in Threads : ReserveLeaf(t) \/ SpendLeaves(t)
    BY <1>1, <2>2, <2>3, <2>7, ClaimKeepsSigned
  <2>8. CASE \E t \in Threads : \/ RefuseLeaf(t) \/ RefuseAdvance(t) \/ RefuseState(t)
                                \/ SaveFails(t) \/ Interrupted(t)
    BY <1>1, <2>2, <2>3, <2>8, RaiseKeepsSigned
  <2>9. CASE \E t \in Threads : Return(t)
    BY <1>1, <2>2, <2>3, <2>9, ReturnKeepsSigned
  <2>10. CASE Environment
    BY <1>1, <2>2, <2>3, <2>10, EnvironmentKeepsSigned
  <2> QED BY <1>1, <1>3, <2>4, <2>5, <2>6, <2>7, <2>8, <2>9, <2>10 DEF Next, Runs
<1> QED BY <1>2, <1>3

RolledInv == SInv /\ copy \in Key \cup {NoFile}

LEMMA RolledInvStep == RolledInv /\ [RestoredNext]_rvars => RolledInv'
<1> SUFFICES ASSUME SInv, copy \in Key \cup {NoFile}, [RestoredNext]_rvars
             PROVE  SInv' /\ copy' \in Key \cup {NoFile}
  BY DEF RolledInv
<1>1. CASE ProgramStep
  <2>1. copy' \in Key \cup {NoFile}
    BY <1>1 DEF ProgramStep, CopyAfter, SInv, CInv, TypeOK, StateTypeOK
  <2> QED BY <1>1, <2>1, ProgramKeepsSigned
<1>2. CASE TakeCopy \/ Restore \/ UNCHANGED rvars
  <2>1. /\ UNCHANGED <<temps, lock, handle, tlock, pc, job, born, reserved, uses, signed>>
        /\ file' \in Key \cup {NoFile} /\ durable' \in Key \cup {NoFile}
        /\ copy' \in Key \cup {NoFile} /\ linked' \in BOOLEAN
    BY <1>2 DEF TakeCopy, Restore, rvars, restoreVars, vars, ioVars, signerVars,
                SInv, CInv, TypeOK, StateTypeOK
  <2>2. CInv'
    BY <2>1 DEF SInv, CInv, TypeOK, StateTypeOK, CallHasObject, CreateIsAlone, CallHoldsLocks, Busy, OnFile
  <2>3. ObjectIsAfter' /\ ClaimIsAfter'
    BY <2>1 DEF SInv, ObjectIsAfter, ClaimIsAfter
  <2> QED BY <2>1, <2>2, <2>3 DEF SInv
<1> QED BY <1>1, <1>2 DEF RestoredNext

LEMMA RolledInvAlways == RestoredSpec => []RolledInv
<1>1. RestoredInit => RolledInv
  <2> SUFFICES ASSUME RestoredInit PROVE SInv /\ copy \in Key \cup {NoFile}
    BY DEF RolledInv
  <2>1. CInv
    BY CInit DEF RestoredInit
  <2> QED BY <2>1, LeafAssumption DEF RestoredInit, Init, SInv, ObjectIsAfter, ClaimIsAfter, Saving
<1> QED BY <1>1, RolledInvStep, PTL DEF RestoredSpec

(***************************************************************************)
(* Whatever is put back under a live object, and whether or not the owner  *)
(* does as documented, that object never signs with a leaf it, or one      *)
(* before it that it saw, has used (sign: "signing state rolled back since *)
(* this handle loaded").                                                   *)
(***************************************************************************)
THEOREM RolledBackObjectSignsForward == RestoredSpec => ObjectNeverReuses
<1>1. RolledInv /\ [RestoredNext]_rvars => [SignsForward]_rvars
  <2> SUFFICES ASSUME SInv, NEW t \in Threads, pc[t] = "reveal", pc'[t] = "done"
               PROVE  job[t].leaf >= signed[job[t].h]
    BY DEF SignsForward, RolledInv
  <2>1. job[t].op = "sign" /\ job[t].h \in Handles /\ job[t] \in Job
    BY ObjectOf DEF SInv, CInv, CallHoldsLocks, Busy
  <2>2. signed[job[t].h] <= job[t].old /\ job[t].old <= job[t].leaf
    BY <2>1 DEF SInv, ClaimIsAfter
  <2>3. signed[job[t].h] \in Nat /\ job[t].old \in Nat /\ job[t].leaf \in Nat
    BY <2>1, LeafAssumption DEF SInv, Job, Leaves
  <2> QED BY <2>2, <2>3
<1> QED BY <1>1, RolledInvAlways, PTL DEF RestoredSpec, ObjectNeverReuses


-----------------------------------------------------------------------------
(***************************************************************************)
(* Now with the documented procedure.  A running call keeps its request,   *)
(* an object in memory its identity, and an identity once generated stays. *)
(***************************************************************************)
LEMMA CallKeepsOp ==
  ASSUME CInv, Next, NEW t \in Threads, Busy(t), Busy(t)'
  PROVE  job'[t].op = job[t].op
<1>1. job[t] \in Job
  BY ObjectOf
<1>2. CASE \E s \in Threads, h \in Handles : Calls(s, h)
  BY <1>2 DEF Calls, SignCall, AdvanceCall, CreateCall, Start, Busy, CInv, TypeOK, StateTypeOK
<1>3. CASE \E s \in Threads : Waits(s)
  BY <1>3 DEF Waits, TakeThreadLock, TakeStateLock
<1>4. CASE \E s \in Threads : Runs(s)
  <2>1. PICK s \in Threads : Runs(s)
    BY <1>4
  <2>2. CASE ReserveLeaf(s) \/ SpendLeaves(s)
    <3>1. PICK n, from, leaf : Claim(s, n, from, leaf)
      BY <2>2 DEF ReserveLeaf, SpendLeaves
    <3> QED BY <1>1, <3>1 DEF Claim, CInv, TypeOK, StateTypeOK, Job
  <2>3. CASE NewIdentity(s)
    BY <1>1, <2>3 DEF NewIdentity, CInv, TypeOK, StateTypeOK, Job
  <2>4. CASE Return(s)
    BY <2>4 DEF Return, Goto, Busy, CInv, TypeOK, StateTypeOK
  <2> QED BY <2>1, <2>2, <2>3, <2>4 DEF Runs, RefuseLeaf, RefuseAdvance, RefuseState, SaveTemp,
     SaveReplace, SaveSync, SaveFails, Interrupted, Reveal
<1>5. CASE Environment
  BY <1>5 DEF Environment, Open, OpenMemory, Crash, PowerLoss, Link, RemoveKey, Forget, Busy
<1> QED BY <1>2, <1>3, <1>4, <1>5 DEF Next

\* An object in memory after a step was there before it, or has a new identity.
MemoryComesNew ==
  /\ born \subseteq born'
  /\ \A h \in Handles : InMemoryObject(h)' =>
       \/ InMemoryObject(h) /\ handle'[h].id = handle[h].id
       \/ handle'[h].id \notin born

LEMMA MemoryStep == ASSUME CInv, Next PROVE MemoryComesNew
<1> USE DEF MemoryComesNew, InMemoryObject
<1>1. CASE UNCHANGED <<handle, born>>
  BY <1>1
<1>2. CASE \E t \in Threads : \/ ReserveLeaf(t) \/ SpendLeaves(t) \/ RefuseLeaf(t) \/ RefuseAdvance(t)
                              \/ SaveFails(t)
  <2>1. PICK t \in Threads : \/ ReserveLeaf(t) \/ SpendLeaves(t) \/ RefuseLeaf(t) \/ RefuseAdvance(t)
                             \/ SaveFails(t)
    BY <1>2
  <2>2. job[t].h \in Handles /\ UNCHANGED born
    BY <2>1, ObjectOf DEF ReserveLeaf, SpendLeaves, Claim, RefuseLeaf, RefuseAdvance, SaveFails, Busy
  <2>3. (\E n : handle' = [handle EXCEPT ![job[t].h].next = n]) \/ UNCHANGED handle
    BY <2>1, Zenon DEF ReserveLeaf, SpendLeaves, Claim, RefuseLeaf, RefuseAdvance, SaveFails, Undone
  <2>4. job[t].op # "create" => handle[job[t].h] \in Handle
    BY <2>1, ObjectOf DEF ReserveLeaf, SpendLeaves, RefuseLeaf, RefuseAdvance, SaveFails, Busy
  <2>5. job[t].op = "create" => UNCHANGED handle
    BY <2>1 DEF ReserveLeaf, SpendLeaves, RefuseLeaf, RefuseAdvance, SaveFails, Undone
  <2>6. \A n, h : handle' = [handle EXCEPT ![job[t].h].next = n] /\ handle[job[t].h] \in Handle
                    /\ h \in Handles /\ InMemoryObject(h)' =>
                  InMemoryObject(h) /\ handle'[h].id = handle[h].id
    BY <2>2, SlotAssumption DEF CInv, TypeOK, StateTypeOK, Handle
  <2> QED BY <2>2, <2>3, <2>4, <2>5, <2>6
<1>3. CASE \E t \in Threads : NewIdentity(t) \/ Return(t)
  BY <1>3 DEF NewIdentity, Return, Created, CInv, TypeOK, StateTypeOK
<1>4. CASE \E h \in Handles : Open(h) \/ OpenMemory(h)
  BY <1>4 DEF Open, OpenMemory, CInv, TypeOK, StateTypeOK
<1>5. CASE (\E h \in Handles : Crash(h)) \/ PowerLoss
  BY <1>5 DEF Crash, PowerLoss, Forget
<1>6. \/ UNCHANGED <<handle, born>>
      \/ \E t \in Threads : \/ ReserveLeaf(t) \/ SpendLeaves(t) \/ RefuseLeaf(t) \/ RefuseAdvance(t)
                            \/ SaveFails(t) \/ NewIdentity(t) \/ Return(t)
      \/ \E h \in Handles : Open(h) \/ OpenMemory(h)
      \/ (\E h \in Handles : Crash(h)) \/ PowerLoss
  BY DEF Next, Calls, SignCall, AdvanceCall, CreateCall, Start, Waits, TakeThreadLock, TakeStateLock, Runs,
     RefuseState, SaveTemp, SaveReplace, SaveSync, Interrupted, Reveal, Environment, Link, RemoveKey
<1> QED BY <1>1, <1>2, <1>3, <1>4, <1>5, <1>6

LEMMA CopyStep == ASSUME RInv, [RestoredNext]_rvars PROVE CopyIsKey'
<1>1. CASE ProgramStep
  <2>1. MemoryComesNew
    BY <1>1, MemoryStep DEF ProgramStep, RInv, IInv
  <2>2. copy' \in {copy, file}
    BY <1>1 DEF ProgramStep, CopyAfter
  <2>3. /\ file \in Key \cup {NoFile}
        /\ file # NoFile => /\ file.id \in born
                            /\ \A h \in Handles : InMemoryObject(h) => handle[h].id # file.id
    BY DEF RInv, IInv, CInv, TypeOK, StateTypeOK, JInv, IdentitiesBorn, MemoryIsAlone, InMemoryObject
  <2> QED BY <2>1, <2>2, <2>3 DEF MemoryComesNew, CopyIsKey, RInv
<1>2. CASE TakeCopy \/ Restore \/ UNCHANGED rvars
  <2>1. copy' \in {copy, file} /\ UNCHANGED <<handle, born>>
    BY <1>2 DEF TakeCopy, Restore, rvars, restoreVars, vars, ioVars, signerVars
  <2>2. /\ file \in Key \cup {NoFile}
        /\ file # NoFile => /\ file.id \in born
                            /\ \A h \in Handles : InMemoryObject(h) => handle[h].id # file.id
    BY DEF RInv, IInv, CInv, TypeOK, StateTypeOK, JInv, IdentitiesBorn, MemoryIsAlone, InMemoryObject
  <2>3. \A h \in Handles : InMemoryObject(h)' <=> InMemoryObject(h)
    BY <2>1 DEF InMemoryObject
  <2> QED BY <2>1, <2>2, <2>3 DEF CopyIsKey, RInv
<1> QED BY <1>1, <1>2 DEF RestoredNext

\* The invariant read with a debt that did not change in this step.
LEMMA SameDebt ==
  ASSUME NEW debt, IInv(debt)', owed' = debt
  PROVE  IInv(owed)'
BY DEF IInv, JInv, FileAhead, SaveStartsAbove, NoSignOwing

LEMMA OwedIsDebt == ASSUME IInv(owed) PROVE \E debt : debt = owed /\ IInv(debt)
  BY DEF IInv, JInv, FileAhead, SaveStartsAbove, NoSignOwing

(***************************************************************************)
(* The advance that returns has moved the file past all that was owed: it  *)
(* started no lower than the file and went at least that far.              *)
(***************************************************************************)
LEMMA SettlingStep ==
  ASSUME NEW debt, IInv(debt), IInv(debt)', NEW t \in Threads, SaveSync(t),
         job[t].op = "advance", job[t].arg >= debt
  PROVE  IInv(0)'
<1> DEFINE k == job[t].id
<1>1. /\ pc[t] = "sync" /\ pc[t] \in Saving /\ durable' = file /\ file \in {NoFile, Saved(t)}
      /\ reserved' = [reserved EXCEPT ![k] = Larger(@, Saved(t).next)]
      /\ UNCHANGED <<file, handle, job>>
      /\ \A s \in Threads \ {t} : pc'[s] = pc[s]
      /\ pc'[t] \notin Saving
  BY DEF SaveSync, AfterSave, Goto, SyncDirectory, IInv, CInv, TypeOK, JInv, SaveStartsAbove, Saving
<1>2. /\ Busy(t) /\ pc[t] \in Critical /\ OnFile(t) /\ k \in Ids /\ Saved(t) # NoFile /\ Saved(t).id = k
      /\ Saved(t).next = handle[job[t].h].next
  BY <1>1, SavedIsAhead
<1>3. /\ reserved[k] <= job[t].old + debt
      /\ handle[job[t].h].next = job[t].old + job[t].arg
  BY <1>1 DEF IInv, JInv, SaveStartsAbove
<1>4. /\ debt \in Nat /\ job[t].old \in Nat /\ job[t].arg \in Nat /\ reserved[k] \in Nat
  BY <1>2, ObjectOf, LeafAssumption DEF IInv, CInv, TypeOK, StateTypeOK, Job
<1>5. reserved'[k] = Larger(reserved[k], Saved(t).next)
  BY <1>1, <1>2 DEF IInv, CInv, TypeOK, StateTypeOK
<1>6. reserved'[k] <= Saved(t).next + 0
  BY <1>2, <1>3, <1>4, <1>5 DEF Larger
<1>7. FileAhead(0)'
  BY <1>1, <1>2, <1>6 DEF FileAhead
<1>8. \A s \in Threads \ {t} : pc[s] \notin Saving
  BY <1>2, SavedIsAhead, Others
<1>9. SaveStartsAbove(0)' /\ NoSignOwing(0)'
  BY <1>1, <1>8 DEF SaveStartsAbove, NoSignOwing
<1> QED BY <1>7, <1>9 DEF IInv, JInv

\* Only the save of that advance leaves "sync" for "done".
LEMMA SettlesIsSync ==
  ASSUME CInv, Next, NEW t \in Threads, pc[t] = "sync", pc'[t] = "done"
  PROVE  SaveSync(t)
<1>1. CASE \E s \in Threads, h \in Handles : Calls(s, h)
  BY <1>1 DEF Calls, SignCall, AdvanceCall, CreateCall, Start, Goto, CInv, TypeOK
<1>2. CASE \E s \in Threads : Waits(s)
  BY <1>2 DEF Waits, TakeThreadLock, TakeStateLock, Goto, CInv, TypeOK
<1>3. CASE \E s \in Threads : Runs(s)
  BY <1>3 DEF Runs, ReserveLeaf, SpendLeaves, Claim, RefuseLeaf, RefuseAdvance, RefuseState,
     NewIdentity, SaveTemp, SaveReplace, SaveSync, SaveFails, Interrupted, Reveal, Return, Goto, CInv, TypeOK
<1>4. CASE Environment
  BY <1>4 DEF Environment, Open, OpenMemory, Crash, PowerLoss, Link, RemoveKey, Forget
<1> QED BY <1>1, <1>2, <1>3, <1>4 DEF Next

LEMMA ProgramStepR ==
  ASSUME Disciplined, RInv, ProgramStep
  PROVE  IInv(owed)'
<1>1. PICK debt : debt = owed /\ IInv(debt)
  BY OwedIsDebt DEF RInv
<1>2. CInv /\ Next /\ [Next]_vars
  BY <1>1 DEF ProgramStep, IInv
<1>3. NoSignOwing(debt)'
  <2> SUFFICES ASSUME debt > 0, NEW t \in Threads, Busy(t)' PROVE job'[t].op # "sign"
    BY DEF NoSignOwing
  <2>1. CASE Busy(t)
    BY <1>1, <1>2, <2>1, CallKeepsOp DEF IInv, NoSignOwing
  <2>2. CASE ~Busy(t)
    BY <1>1, <2>2 DEF ProgramStep, Obeys, Busy
  <2> QED BY <2>1, <2>2
<1>4. IInv(debt)'
  BY <1>1, <1>2, <1>3, IStep
<1>5. CASE \E t \in Threads : Settles(t)
  <2>1. PICK t \in Threads : Settles(t)
    BY <1>5
  <2>2. SaveSync(t) /\ job[t].op = "advance" /\ job[t].arg >= debt
    BY <1>1, <1>2, <2>1, SettlesIsSync DEF Settles
  <2>3. IInv(0)' /\ owed' = 0
    BY <1>1, <1>4, <1>5, <2>2, SettlingStep DEF ProgramStep, OwedAfter
  <2> QED BY <2>3, SameDebt
<1>6. CASE ~(\E t \in Threads : Settles(t))
  <2>1. owed' = debt
    BY <1>1, <1>6 DEF ProgramStep, OwedAfter
  <2> QED BY <1>4, <2>1, SameDebt
<1> QED BY <1>5, <1>6

\* The copy is behind by what it missed, and nothing is running that would not know.
LEMMA RestoreStepR ==
  ASSUME Disciplined, RInv, Restore
  PROVE  IInv(owed)'
<1> DEFINE debt == MissedBy(copy)
<1>1. /\ copy \in Key /\ copy # NoFile /\ file' = copy /\ durable' = copy /\ linked' = FALSE
      /\ owed' = debt
      /\ UNCHANGED <<temps, lock, handle, tlock, pc, job, born, reserved, uses>>
      /\ \A t \in Threads : ~Busy(t) /\ ~Busy(t)'
  BY DEF Restore, RInv, CopyIsKey, Busy
<1>2. /\ copy.id \in Ids /\ copy.next \in Nat /\ reserved[copy.id] \in Nat
  BY <1>1, LeafAssumption DEF Key, RInv, IInv, CInv, TypeOK, StateTypeOK
<1>3. debt \in Nat /\ reserved[copy.id] <= copy.next + debt
  BY <1>2 DEF MissedBy
<1>4. CInv'
  BY <1>1 DEF RInv, IInv, CInv, TypeOK, StateTypeOK, CallHasObject, CreateIsAlone, CallHoldsLocks
<1>5. IdentitiesBorn' /\ MemoryIsAlone'
  BY <1>1 DEF RInv, IInv, JInv, IdentitiesBorn, MemoryIsAlone, CopyIsKey, InMemoryObject
<1>6. UsedIsReserved' /\ OneTime'
  BY <1>1 DEF RInv, IInv, JInv, UsedIsReserved, OneTime
<1>7. NewIsUnused' /\ RevealsLast'
  BY <1>1 DEF NewIsUnused, RevealsLast, Busy
<1> HIDE DEF debt
<1>8. FileAhead(owed)' /\ SaveStartsAbove(owed)' /\ NoSignOwing(owed)'
  BY <1>1, <1>3 DEF FileAhead, SaveStartsAbove, NoSignOwing, Saving, Busy
<1> QED BY <1>1, <1>3, <1>4, <1>5, <1>6, <1>7, <1>8 DEF IInv, JInv

LEMMA RInvStep == ASSUME Disciplined PROVE RInv /\ [RestoredNext]_rvars => RInv'
<1> SUFFICES ASSUME RInv, [RestoredNext]_rvars PROVE IInv(owed)'
  BY CopyStep DEF RInv
<1>1. CASE TakeCopy \/ UNCHANGED rvars
  <2>1. PICK debt : debt = owed /\ IInv(debt)
    BY OwedIsDebt DEF RInv
  <2>2. UNCHANGED vars /\ owed' = debt
    BY <1>1, <2>1 DEF TakeCopy, rvars, restoreVars
  <2>3. NoSignOwing(debt)'
    BY <2>1, <2>2 DEF IInv, NoSignOwing, Busy, vars, signerVars
  <2>4. IInv(debt)'
    BY <2>1, <2>2, <2>3, IStep
  <2> QED BY <2>2, <2>4, SameDebt
<1> QED BY <1>1, ProgramStepR, RestoreStepR DEF RestoredNext

LEMMA RInvAlways == ASSUME Disciplined PROVE RestoredSpec => []RInv
<1>1. RestoredInit => RInv
  <2> SUFFICES ASSUME RestoredInit PROVE RInv
    OBVIOUS
  <2>1. IInv(0) /\ owed = 0 /\ copy = NoFile
    BY IInit DEF RestoredInit
  <2> QED BY <2>1 DEF RInv, CopyIsKey, IInv, JInv, FileAhead, SaveStartsAbove, NoSignOwing
<1> QED BY <1>1, RInvStep, PTL DEF RestoredSpec

(***************************************************************************)
(* An owner who does as docs/SIGNING.md says can restore any copy, however *)
(* old and however often, and still no leaf of any identity signs twice.   *)
(***************************************************************************)
THEOREM RestoredLeavesAreOneTime == ASSUME Disciplined PROVE RestoredSpec => []OneTime
<1>1. RInv => OneTime
  BY DEF RInv, IInv, JInv
<1> QED BY <1>1, RInvAlways, PTL

(***************************************************************************)
(* One advance by the count owed leaves the restored key as good as the    *)
(* one that was lost (docs/SIGNING.md: "it marks those leaves spent and    *)
(* saves that before anything else happens").                              *)
(***************************************************************************)
THEOREM AdvanceRepairsKey == RestoredSpec => []AdvanceRepairs
<1>1. CASE Disciplined
  <2>1. RInv => AdvanceRepairs
    <3> SUFFICES ASSUME RInv, owed = 0, file # NoFile, NEW i \in Leaves, uses[file.id][i] > 0
                 PROVE  i < file.next
      BY DEF AdvanceRepairs, SpentIn
    <3>1. file.id \in Ids /\ file.next \in Nat /\ reserved[file.id] \in Nat /\ i \in Nat
      BY LeafAssumption DEF RInv, IInv, CInv, TypeOK, StateTypeOK, Key, Leaves
    <3>2. reserved[file.id] <= file.next + 0
      BY DEF RInv, IInv, JInv, FileAhead
    <3>3. i < reserved[file.id]
      BY <3>1 DEF RInv, IInv, JInv, UsedIsReserved
    <3> QED BY <3>1, <3>2, <3>3
  <2> QED BY <1>1, <2>1, RInvAlways, PTL
<1>2. CASE ~Disciplined
  <2>1. AdvanceRepairs
    BY <1>2 DEF AdvanceRepairs
  <2> QED BY <2>1, PTL
<1> QED BY <1>1, <1>2
=============================================================================
