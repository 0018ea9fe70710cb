-------------------------- MODULE IssuanceLog_proofs --------------------------
(***************************************************************************)
(* Proofs about IssuanceLog: whatever its calls, crashes, power losses and *)
(* spoiled files do, the directory is an append-only log.                  *)
(***************************************************************************)
EXTENDS IssuanceLog, LogFiles_proofs

(***************************************************************************)
(* What append_all is called with, and the path of a checkpoint that does  *)
(* not exist is no checkpoint.                                             *)
(***************************************************************************)
Entries == UNION {{batch[i] : i \in DOMAIN batch} : batch \in Batches}

LogConstants ==
  /\ \A batch \in Batches : batch \in Seq(Entries) /\ batch # <<>>
  /\ \A size \in Nat : \A root : NoFile # Checkpoint(size, root)

-----------------------------------------------------------------------------
(***************************************************************************)
(* The inductive invariant.  The checkpoint counts the entries it covers   *)
(* (Counted); the call that works under the lock is the only one           *)
(* (WritersHoldLock), and what it covers is the log it read and the batch  *)
(* it was given (Covered).                                                 *)
(***************************************************************************)
Signing == {"sign", "temp", "replace"}

Writing == Signing \cup {"state", "write", "sync"}

CallShape(c) ==
  c = [op |-> c.op, batch |-> c.batch, index |-> c.index, old |-> c.old, new |-> c.new,
       todo |-> c.todo, written |-> c.written, covers |-> c.covers, entry |-> c.entry,
       proof |-> c.proof]

DomainsKept == DOMAIN pc = Threads /\ DOMAIN call = Threads

OpAtStep(t) ==
  /\ pc[t] # "idle" => CallShape(call[t])
  /\ pc[t] \in Writing => call[t].op \in {"create", "append"}
  /\ pc[t] = "absent" => call[t].op = "create"
  /\ pc[t] \in {"state", "write"} => call[t].op = "append"
  /\ pc[t] = "lock" => call[t].op \in {"create", "append", "bundle"}
  /\ pc[t] \in {"view", "entry", "proof"} => call[t].op \in Reads
  /\ pc[t] # "idle" /\ call[t].op = "append" => call[t].batch \in Batches

HoldsLock(t) == pc[t] \in Writing => lock = t

Covers(t) ==
  /\ pc[t] \in {"absent", "lock"} => call[t].covers = <<>>
  /\ pc[t] \in Signing \cup {"write"} /\ call[t].op = "append" =>
       /\ file # NoFile /\ call[t].old = file
       /\ call[t].covers = history \o call[t].batch
  /\ pc[t] \in Signing /\ call[t].op = "append" =>
       \E root : call[t].new = Checkpoint(Len(history \o call[t].batch), root)
  /\ pc[t] \in Signing /\ call[t].op = "create" =>
       call[t].covers = <<>> /\ call[t].new = Checkpoint(0, EmptyRoot)
  /\ pc[t] \in {"temp", "replace"} /\ call[t].op = "create" => history = <<>>

\* An append that returns still holds the lock it published and synced under.
Published(t) ==
  pc[t] \in {"sync", "done"} /\ call[t].op = "append" =>
    /\ lock = t /\ file = call[t].new /\ history = call[t].covers
    /\ pc[t] = "done" => durable = file /\ kept = history

CallInv(t) == OpAtStep(t) /\ HoldsLock(t) /\ Covers(t) /\ Published(t)

Counted ==
  /\ history \in Seq(Entries) /\ kept \in Seq(Entries)
  /\ IF file = NoFile THEN history = <<>> ELSE file.size = Len(history)
  /\ IF durable = NoFile THEN kept = <<>> ELSE durable.size = Len(kept)

LogInv == DomainsKept /\ Counted /\ \A t \in Threads : CallInv(t)

-----------------------------------------------------------------------------
LEMMA LogInit == Init => LogInv
<1> SUFFICES ASSUME Init PROVE LogInv
  OBVIOUS
<1>1. \A t \in Threads : CallInv(t)
  BY DEF Init, CallInv, OpAtStep, HoldsLock, Covers, Published, Writing, Signing
<1> QED BY <1>1 DEF Init, LogInv, DomainsKept, Counted

\* A step of one call: what it leaves of the others, and of the log.
OthersStay(t) ==
  /\ DOMAIN pc' = Threads /\ DOMAIN call' = Threads
  /\ \A s \in Threads \ {t} : pc'[s] = pc[s] /\ call'[s] = call[s]
  /\ \A s \in Threads \ {t} : lock = s => lock' = s

LogStays == UNCHANGED <<file, durable, history, kept>>

LEMMA QuietStep ==
  ASSUME LogInv, NEW t \in Threads, OthersStay(t), LogStays, CallInv(t)'
  PROVE  LogInv'
<1>1. ASSUME NEW s \in Threads \ {t} PROVE CallInv(s)'
  <2>1. pc'[s] = pc[s] /\ call'[s] = call[s] /\ (lock = s => lock' = s) /\ CallInv(s)
    BY DEF OthersStay, LogInv
  <2>2. OpAtStep(s)' /\ HoldsLock(s)'
    BY <2>1 DEF CallInv, OpAtStep, HoldsLock
  <2>3. Covers(s)'
    BY <2>1 DEF CallInv, Covers, LogStays
  <2>4. Published(s)'
    BY <2>1 DEF CallInv, Published, LogStays
  <2> QED BY <2>2, <2>3, <2>4 DEF CallInv
<1> QED BY <1>1 DEF LogInv, OthersStay, LogStays, DomainsKept, Counted

LEMMA GoesTo ==
  ASSUME LogInv, NEW t \in Threads, NEW label, Goto(t, label),
         \/ UNCHANGED call
         \/ \E new : call' = [call EXCEPT ![t] = new],
         \/ UNCHANGED lock
         \/ TakeLock(t)
         \/ ReleaseLock(t)
  PROVE  /\ OthersStay(t) /\ pc'[t] = label
         /\ UNCHANGED call => call'[t] = call[t]
         /\ \A new : call' = [call EXCEPT ![t] = new] => call'[t] = new
BY NobodyAssumption DEF LogInv, DomainsKept, OthersStay, Goto, TakeLock, ReleaseLock

-----------------------------------------------------------------------------
\* Calls that start, wait for the lock, read, fail and return.
LEMMA StartStep ==
  ASSUME LogInv, NEW t \in Threads, Calls(t)
  PROVE  LogInv'
<1>0. ASSUME NEW op, NEW batch, NEW index
      PROVE  LET request == Request(op, batch, index) IN
             CallShape(request) /\ request.op = op /\ request.batch = batch /\ request.covers = <<>>
  BY DEF Request, CallShape
<1>1. PICK request, label :
        /\ Start(t, request, label) /\ CallShape(request) /\ request.covers = <<>>
        /\ \/ request.op = "create" /\ label = "absent"
           \/ request.op = "append" /\ label = "lock" /\ request.batch \in Batches
           \/ request.op \in {"entry", "proof"} /\ label = "view"
           \/ request.op = "bundle" /\ label = "lock"
  <2>1. CASE CreateCall(t)
    BY <1>0, <2>1 DEF CreateCall
  <2>2. CASE \E batch \in Batches : AppendCall(t, batch)
    BY <1>0, <2>2 DEF AppendCall
  <2>3. CASE \E index \in 0..(MaxSize - 1) : EntryCall(t, index) \/ ProofCall(t, index) \/ BundleCall(t, index)
    BY <1>0, <2>3 DEF EntryCall, ProofCall, BundleCall
  <2> QED BY <2>1, <2>2, <2>3 DEF Calls
<1>2. OthersStay(t) /\ pc'[t] = label /\ call'[t] = request /\ LogStays
  BY <1>1, GoesTo DEF Start, ioVars, LogStays
<1>3. CallInv(t)'
  BY <1>1, <1>2 DEF CallInv, OpAtStep, HoldsLock, Covers, Published, Reads, Writing, Signing
<1> QED BY <1>2, <1>3, QuietStep

LEMMA LockStep ==
  ASSUME LogInv, NEW t \in Threads, TakeLogLock(t)
  PROVE  LogInv'
<1>1. /\ pc[t] = "lock" /\ lock' = t /\ LogStays
      /\ call[t].op \in {"create", "append", "bundle"} /\ CallShape(call[t])
  BY DEF TakeLogLock, TakeLock, LogStays, LogInv, CallInv, OpAtStep
<1>2. OthersStay(t) /\ pc'[t] = AfterLock(t)
  BY GoesTo DEF TakeLogLock
<1>3. /\ call[t].op = "create" => call'[t] = [call[t] EXCEPT !.new = Checkpoint(0, EmptyRoot)]
      /\ call[t].op # "create" => call'[t] = call[t]
  BY DEF TakeLogLock, LogInv, DomainsKept
<1>4. /\ call'[t].op = call[t].op /\ call'[t].batch = call[t].batch
      /\ call'[t].covers = call[t].covers /\ CallShape(call'[t])
      /\ call[t].op = "create" => call'[t].new = Checkpoint(0, EmptyRoot)
  BY <1>1, <1>3 DEF CallShape
<1>5. pc'[t] = CASE call[t].op = "create" -> "sign"
                 [] call[t].op = "append" -> "state"
                 [] call[t].op = "bundle" -> "view"
  BY <1>2 DEF AfterLock
<1>6. /\ call[t].op = "create" => pc'[t] = "sign"
      /\ call[t].op = "append" => pc'[t] = "state"
      /\ call[t].op = "bundle" => pc'[t] = "view"
  BY <1>5
<1>7. call[t].op = "append" => call[t].batch \in Batches
  BY <1>1 DEF LogInv, CallInv, OpAtStep
<1>8. call[t].covers = <<>>
  BY <1>1 DEF LogInv, CallInv, Covers
<1>9. CallInv(t)'
  BY <1>1, <1>4, <1>6, <1>7, <1>8
  DEF CallInv, OpAtStep, HoldsLock, Covers, Published, Reads, Writing, Signing
<1> QED BY <1>1, <1>2, <1>9, QuietStep

\* A call that raises keeps nothing but its request, and perhaps the lock.
LEMMA RaiseStep ==
  ASSUME LogInv, NEW t \in Threads, pc[t] # "idle", Goto(t, "raise"), LogStays,
         UNCHANGED <<lock, call>>
  PROVE  LogInv'
<1>1. OthersStay(t) /\ pc'[t] = "raise" /\ call'[t] = call[t]
  BY GoesTo
<1>2. CallInv(t)'
  BY <1>1 DEF LogInv, CallInv, OpAtStep, HoldsLock, Covers, Published, Writing, Signing
<1> QED BY <1>1, <1>2, QuietStep

LEMMA FailureStep ==
  ASSUME LogInv, NEW t \in Threads,
         \/ NoState(t) \/ WriteFails(t) \/ RefuseWritten(t) \/ RefuseSign(t)
         \/ CheckpointFails(t) \/ NoNote(t)
  PROVE  LogInv' /\ LogStays
<1>1. pc[t] # "idle" /\ Goto(t, "raise") /\ LogStays /\ UNCHANGED <<lock, call>>
  BY DEF NoState, WriteFails, RefuseWritten, RefuseSign, CheckpointFails, NoNote, Raise, LogStays, ioVars
<1> QED BY <1>1, RaiseStep

LEMMA FindsNoLogStep ==
  ASSUME LogInv, NEW t \in Threads, FindsNoLog(t)
  PROVE  LogInv' /\ LogStays
<1>1. CASE Raise(t)
  BY <1>1, RaiseStep DEF FindsNoLog, Raise, LogStays, ioVars
<1>2. CASE Goto(t, "lock") /\ UNCHANGED <<ioVars, disk, call, damage, history, kept>>
  <2>1. LogStays /\ OthersStay(t) /\ pc[t] = "absent" /\ pc'[t] = "lock" /\ call'[t] = call[t]
    BY <1>2, GoesTo DEF FindsNoLog, LogStays, ioVars
  <2>2. CallInv(t)'
    BY <2>1 DEF LogInv, CallInv, OpAtStep, HoldsLock, Covers, Published, Writing, Signing
  <2> QED BY <2>1, <2>2, QuietStep
<1> QED BY <1>1, <1>2 DEF FindsNoLog

LEMMA NoteTaken ==
  ASSUME NEW t \in Threads, CallShape(call[t])
  PROVE  \E read : /\ read = [call[t] EXCEPT !.old = file, !.covers = history]
                   /\ CallShape(read) /\ read.op = call[t].op
<1>1. PICK once : once = [call[t] EXCEPT !.old = file]
  OBVIOUS
<1>2. CallShape(once) /\ once.op = call[t].op
  BY <1>1 DEF CallShape
<1>3. PICK read : read = [once EXCEPT !.covers = history]
  OBVIOUS
<1>4. CallShape(read) /\ read.op = once.op
  BY <1>2, <1>3 DEF CallShape
<1>5. read = [call[t] EXCEPT !.old = file, !.covers = history]
  BY <1>1, <1>3
<1> QED BY <1>2, <1>4, <1>5

LEMMA ReadingStep ==
  ASSUME LogInv, NEW t \in Threads, ReadNote(t) \/ ReadEntry(t) \/ ReadProof(t)
  PROVE  LogInv' /\ LogStays
<1>1. CASE Raise(t)
  BY <1>1, RaiseStep DEF ReadNote, ReadEntry, ReadProof, Raise, LogStays, ioVars
<1>2. CASE ~Raise(t)
  <2>0. PICK label \in {"entry", "proof", "done"} : Goto(t, label)
    BY <1>2 DEF ReadNote, ReadEntry, ReadProof
  <2>1. PICK new : call' = [call EXCEPT ![t] = new] /\ new.op = call[t].op /\ CallShape(new)
    <3>1. CallShape(call[t])
      BY DEF ReadNote, ReadEntry, ReadProof, LogInv, CallInv, OpAtStep
    <3>2. CASE ReadNote(t)
      <4>1. PICK read : /\ read = [call[t] EXCEPT !.old = file, !.covers = history]
                        /\ CallShape(read) /\ read.op = call[t].op
        BY <3>1, NoteTaken
      <4>2. call' = [call EXCEPT ![t] = read]
        BY <3>2, <4>1 DEF ReadNote
      <4> QED BY <4>1, <4>2
    <3>3. CASE ReadEntry(t)
      <4>1. PICK entry : call' = [call EXCEPT ![t] = [call[t] EXCEPT !.entry = entry]]
        BY <1>2, <3>3 DEF ReadEntry
      <4>2. PICK read : read = [call[t] EXCEPT !.entry = entry]
        OBVIOUS
      <4>3. CallShape(read) /\ read.op = call[t].op
        BY <3>1, <4>2 DEF CallShape
      <4> QED BY <4>1, <4>2, <4>3
    <3>4. CASE ReadProof(t)
      <4>1. PICK proof : call' = [call EXCEPT ![t] = [call[t] EXCEPT !.proof = proof]]
        BY <1>2, <3>4 DEF ReadProof
      <4>2. PICK read : read = [call[t] EXCEPT !.proof = proof]
        OBVIOUS
      <4>3. CallShape(read) /\ read.op = call[t].op
        BY <3>1, <4>2 DEF CallShape
      <4> QED BY <4>1, <4>2, <4>3
    <3> QED BY <3>2, <3>3, <3>4
  <2>2. LogStays /\ UNCHANGED lock /\ call[t].op \in Reads
    BY <1>2 DEF ReadNote, ReadEntry, ReadProof, LogStays, ioVars, LogInv, CallInv, OpAtStep
  <2>3. OthersStay(t) /\ pc'[t] = label /\ call'[t] = new
    BY <2>0, <2>1, <2>2, GoesTo
  <2>4. CallInv(t)'
    BY <2>0, <2>1, <2>2, <2>3
    DEF CallInv, OpAtStep, HoldsLock, Covers, Published, Reads, Writing, Signing
  <2> QED BY <2>2, <2>3, <2>4, QuietStep
<1> QED BY <1>1, <1>2

LEMMA EndStep ==
  ASSUME LogInv, NEW t \in Threads, Return(t) \/ Crash(t)
  PROVE  LogInv' /\ LogStays
<1>1. Goto(t, "idle") /\ call' = [call EXCEPT ![t] = NoCall] /\ LogStays /\ ReleaseLock(t)
  BY DEF Return, Crash, KillIO, ReleaseLock, LogStays
<1>2. OthersStay(t) /\ pc'[t] = "idle"
  BY <1>1, GoesTo
<1>3. CallInv(t)'
  BY <1>2 DEF CallInv, OpAtStep, HoldsLock, Covers, Published, Writing, Signing
<1> QED BY <1>1, <1>2, <1>3, QuietStep

-----------------------------------------------------------------------------
\* An append works on the log it read, and what it covers is that log and its batch.
LEMMA ReadStateStep ==
  ASSUME LogInv, NEW t \in Threads, ReadState(t)
  PROVE  LogInv' /\ LogStays
<1>1. /\ pc[t] = "state" /\ lock = t /\ call[t].op = "append" /\ CallShape(call[t])
      /\ call[t].batch \in Batches
  BY DEF ReadState, LogInv, CallInv, OpAtStep, HoldsLock, Writing
<1>2. file # NoFile /\ LogStays /\ UNCHANGED lock /\ Goto(t, "write")
  BY DEF ReadState, LogStays, ioVars
<1>3. PICK writes : call' = [call EXCEPT ![t].old = file, ![t].todo = writes,
                                         ![t].covers = history \o call[t].batch]
  BY DEF ReadState
<1>4. PICK noted : noted = [call[t] EXCEPT !.old = file]
  OBVIOUS
<1>5. CallShape(noted) /\ noted.op = "append" /\ noted.batch = call[t].batch /\ noted.old = file
  BY <1>1, <1>4 DEF CallShape
<1>6. PICK listed : listed = [noted EXCEPT !.todo = writes]
  OBVIOUS
<1>7. CallShape(listed) /\ listed.op = "append" /\ listed.batch = call[t].batch /\ listed.old = file
  BY <1>5, <1>6 DEF CallShape
<1>8. PICK new : new = [listed EXCEPT !.covers = history \o call[t].batch]
  OBVIOUS
<1>9. /\ CallShape(new) /\ new.op = "append" /\ new.batch = call[t].batch /\ new.old = file
      /\ new.covers = history \o call[t].batch
  BY <1>7, <1>8 DEF CallShape
<1>10. call' = [call EXCEPT ![t] = new]
  BY <1>3, <1>4, <1>6, <1>8 DEF LogInv, DomainsKept
<1>11. OthersStay(t) /\ pc'[t] = "write" /\ call'[t] = new
  BY <1>2, <1>10, GoesTo
<1>12. CallInv(t)'
  BY <1>1, <1>2, <1>9, <1>11
  DEF LogStays, CallInv, OpAtStep, HoldsLock, Covers, Published, Writing, Signing
<1> QED BY <1>2, <1>11, <1>12, QuietStep

LEMMA WriteFileStep ==
  ASSUME LogInv, NEW t \in Threads, WriteFile(t)
  PROVE  LogInv' /\ LogStays
<1>1. pc[t] = "write" /\ CallInv(t) /\ CallShape(call[t]) /\ call[t].op = "append"
  BY DEF WriteFile, LogInv, CallInv, OpAtStep
<1>2. LogStays /\ UNCHANGED <<lock, pc>>
  BY DEF WriteFile, LogStays, ioVars
<1>3. PICK next : call' = [call EXCEPT ![t].todo = Tail(@), ![t].written = @ \cup {next}]
  BY DEF WriteFile
<1>4. PICK less : less = [call[t] EXCEPT !.todo = Tail(@)]
  OBVIOUS
<1>5. /\ CallShape(less) /\ less.op = call[t].op /\ less.batch = call[t].batch /\ less.old = call[t].old
      /\ less.covers = call[t].covers
  BY <1>1, <1>4 DEF CallShape
<1>6. PICK new : new = [less EXCEPT !.written = @ \cup {next}]
  OBVIOUS
<1>7. /\ CallShape(new) /\ new.op = call[t].op /\ new.batch = call[t].batch /\ new.old = call[t].old
      /\ new.covers = call[t].covers
  BY <1>5, <1>6 DEF CallShape
<1>8. call' = [call EXCEPT ![t] = new]
  BY <1>3, <1>4, <1>6 DEF LogInv, DomainsKept
<1>9. OthersStay(t) /\ call'[t] = new
  BY <1>2, <1>8 DEF LogInv, DomainsKept, OthersStay
<1>10. CallInv(t)'
  BY <1>1, <1>2, <1>7, <1>9
  DEF LogStays, CallInv, OpAtStep, HoldsLock, Covers, Published, Writing, Signing
<1> QED BY <1>2, <1>9, <1>10, QuietStep

\* What is signed counts the entries it covers.
LEMMA CheckWrittenStep ==
  ASSUME LogConstants, LogInv, NEW t \in Threads, CheckWritten(t)
  PROVE  LogInv' /\ LogStays
<1>1. /\ pc[t] = "write" /\ CallInv(t) /\ CallShape(call[t]) /\ call[t].op = "append"
      /\ call[t].batch \in Batches
  BY DEF CheckWritten, LogInv, CallInv, OpAtStep
<1>2. LogStays /\ UNCHANGED lock /\ Goto(t, "sign")
  BY DEF CheckWritten, LogStays, ioVars
<1>3. PICK root : call' = [call EXCEPT ![t].new = Checkpoint(NewSize(t), root)]
  BY DEF CheckWritten
<1>4. NewSize(t) = Len(history \o call[t].batch)
  <2>1. call[t].old.size = Len(history) /\ history \in Seq(Entries)
    BY <1>1 DEF LogInv, Counted, CallInv, Covers
  <2>2. call[t].batch \in Seq(Entries)
    BY <1>1 DEF LogConstants
  <2> QED BY <2>1, <2>2 DEF NewSize, Old
<1>5. PICK new : new = [call[t] EXCEPT !.new = Checkpoint(Len(history \o call[t].batch), root)]
  OBVIOUS
<1>6. /\ CallShape(new) /\ new.op = call[t].op /\ new.batch = call[t].batch /\ new.old = call[t].old
      /\ new.covers = call[t].covers /\ new.new = Checkpoint(Len(history \o call[t].batch), root)
  BY <1>1, <1>5 DEF CallShape
<1>7. call' = [call EXCEPT ![t] = new]
  BY <1>3, <1>4, <1>5 DEF LogInv, DomainsKept
<1>8. OthersStay(t) /\ pc'[t] = "sign" /\ call'[t] = new
  BY <1>2, <1>7, GoesTo
<1>9. CallInv(t)'
  BY <1>1, <1>2, <1>6, <1>8
  DEF LogStays, CallInv, OpAtStep, HoldsLock, Covers, Published, Writing, Signing
<1> QED BY <1>2, <1>8, <1>9, QuietStep

\* A new log is signed only where there is none, or an empty one.
LEMMA SignStep ==
  ASSUME LogInv, NEW t \in Threads, Sign(t)
  PROVE  LogInv' /\ LogStays
<1>1. pc[t] = "sign" /\ CallInv(t)
  BY DEF Sign, LogInv
<1>2. LogStays /\ UNCHANGED <<lock, call>> /\ Goto(t, "temp") /\ Signable(call[t].new)
  BY DEF Sign, LogStays, ioVars
<1>3. OthersStay(t) /\ pc'[t] = "temp" /\ call'[t] = call[t]
  BY <1>2, GoesTo
<1>4. ASSUME call[t].op = "create" PROVE history = <<>>
  <2>1. call[t].new.size = 0
    BY <1>1, <1>4 DEF CallInv, Covers, Signing, Checkpoint
  <2>2. file # NoFile => file.size \in Nat /\ file.size = Len(history)
    BY DEF LogInv, Counted
  <2>3. file = NoFile \/ file.size = 0
    BY <1>2, <2>1, <2>2 DEF Signable
  <2>4. file # NoFile => Len(history) = 0
    BY <2>2, <2>3
  <2> QED BY <2>4 DEF LogInv, Counted
<1>5. CallInv(t)'
  BY <1>1, <1>2, <1>3, <1>4
  DEF LogStays, CallInv, OpAtStep, HoldsLock, Covers, Published, Writing, Signing
<1> QED BY <1>2, <1>3, <1>5, QuietStep

LEMMA TempStep ==
  ASSUME LogInv, NEW t \in Threads, CheckpointTemp(t)
  PROVE  LogInv' /\ LogStays
<1>1. pc[t] = "temp" /\ CallInv(t)
  BY DEF CheckpointTemp, LogInv
<1>2. LogStays /\ UNCHANGED <<lock, call>> /\ Goto(t, "replace")
  BY DEF CheckpointTemp, LogStays
<1>3. OthersStay(t) /\ pc'[t] = "replace" /\ call'[t] = call[t]
  BY <1>2, GoesTo
<1>4. CallInv(t)'
  BY <1>1, <1>2, <1>3
  DEF LogStays, CallInv, OpAtStep, HoldsLock, Covers, Published, Writing, Signing
<1> QED BY <1>2, <1>3, <1>4, QuietStep

-----------------------------------------------------------------------------
(***************************************************************************)
(* The rename publishes a batch, the sync keeps what is published, and a   *)
(* power loss leaves the log there is or the one that was kept.            *)
(***************************************************************************)
LEMMA AloneInLock ==
  ASSUME LogInv, NEW t \in Threads, lock = t, NEW s \in Threads \ {t}
  PROVE  /\ pc[s] \notin Writing
         /\ ~(pc[s] = "done" /\ call[s].op = "append")
BY DEF LogInv, CallInv, HoldsLock, Published

\* A step that changes the log under its lock: the others are idle, waiting or reading.
LEMMA WriterStep ==
  ASSUME LogInv, NEW t \in Threads, lock = t, UNCHANGED lock, OthersStay(t),
         Counted', CallInv(t)'
  PROVE  LogInv'
<1>1. ASSUME NEW s \in Threads \ {t} PROVE CallInv(s)'
  <2>1. pc'[s] = pc[s] /\ call'[s] = call[s] /\ CallInv(s)
    BY DEF OthersStay, LogInv
  <2>2. pc[s] \notin Writing /\ ~(pc[s] = "done" /\ call[s].op = "append")
    BY AloneInLock
  <2>3. OpAtStep(s)' /\ HoldsLock(s)'
    BY <2>1, <2>2 DEF CallInv, OpAtStep, HoldsLock
  <2>4. Covers(s)' /\ Published(s)'
    BY <2>1, <2>2 DEF CallInv, Covers, Published, Writing, Signing
  <2> QED BY <2>3, <2>4 DEF CallInv
<1> QED BY <1>1 DEF LogInv, OthersStay, DomainsKept

LEMMA ReplaceStep ==
  ASSUME LogConstants, LogInv, NEW t \in Threads, CheckpointReplace(t)
  PROVE  LogInv' /\ (AOL!Publish \/ UNCHANGED <<history, kept>>)
<1>1. /\ pc[t] = "replace" /\ lock = t /\ CallInv(t) /\ CallShape(call[t])
      /\ call[t].op \in {"create", "append"}
  BY DEF CheckpointReplace, LogInv, CallInv, OpAtStep, HoldsLock, Writing, Signing
<1>2. /\ file' = call[t].new /\ history' = call[t].covers
      /\ UNCHANGED <<durable, kept, lock, call>> /\ Goto(t, "sync")
  BY DEF CheckpointReplace, Replace
<1>3. OthersStay(t) /\ pc'[t] = "sync" /\ call'[t] = call[t]
  BY <1>2, GoesTo
<1>4. \E root : file' = Checkpoint(Len(history'), root)
  BY <1>1, <1>2 DEF CallInv, Covers, Signing
<1>5. \/ \E batch \in Batches : history' = history \o batch
      \/ history' = <<>> /\ history = <<>>
  BY <1>1, <1>2 DEF CallInv, OpAtStep, Covers, Signing
<1>6. history' \in Seq(Entries)
  <2>1. ASSUME NEW batch \in Batches, history' = history \o batch PROVE history' \in Seq(Entries)
    <3>1. history \in Seq(Entries) /\ batch \in Seq(Entries)
      BY DEF LogConstants, LogInv, Counted
    <3> QED BY <2>1, <3>1
  <2>2. CASE history' = <<>>
    BY <2>2
  <2> QED BY <1>5, <2>1, <2>2
<1>7. Counted'
  <2>1. file'.size = Len(history') /\ file' # NoFile
    BY <1>4, <1>6 DEF LogConstants, Checkpoint
  <2> QED BY <1>2, <1>6, <2>1 DEF Counted, LogInv
<1>8. CallInv(t)'
  BY <1>1, <1>2, <1>3
  DEF CallInv, OpAtStep, HoldsLock, Covers, Published, Writing, Signing
<1> QED BY <1>1, <1>2, <1>3, <1>5, <1>7, <1>8, WriterStep DEF AOL!Publish

LEMMA SyncStep ==
  ASSUME LogInv, NEW t \in Threads, CheckpointSync(t)
  PROVE  LogInv' /\ AOL!Keep
<1>1. pc[t] = "sync" /\ lock = t /\ CallInv(t)
  BY DEF CheckpointSync, LogInv, CallInv, HoldsLock, Writing
<1>2. /\ durable' = file /\ kept' = history
      /\ UNCHANGED <<file, history, lock, call>> /\ Goto(t, "done")
  BY DEF CheckpointSync, SyncDirectory
<1>3. OthersStay(t) /\ pc'[t] = "done" /\ call'[t] = call[t]
  BY <1>2, GoesTo
<1>4. Counted'
  BY <1>2 DEF LogInv, Counted
<1>5. CallInv(t)'
  BY <1>1, <1>2, <1>3
  DEF CallInv, OpAtStep, HoldsLock, Covers, Published, Writing, Signing
<1> QED BY <1>1, <1>2, <1>3, <1>4, <1>5, WriterStep DEF AOL!Keep

LEMMA PowerLossStep ==
  ASSUME LogInv, PowerLoss
  PROVE  LogInv' /\ (AOL!Keep \/ AOL!PowerLoss)
<1>1. /\ file' \in {file, durable} /\ durable' = file'
      /\ history' = IF file' = file THEN history ELSE kept
      /\ kept' = history'
      /\ pc' = [t \in Threads |-> "idle"] /\ call' = [t \in Threads |-> NoCall]
  BY DEF PowerLoss, PowerLossIO
<1>2. Counted'
  BY <1>1 DEF LogInv, Counted
<1>3. \A t \in Threads : CallInv(t)'
  BY <1>1 DEF CallInv, OpAtStep, HoldsLock, Covers, Published, Writing, Signing
<1> QED BY <1>1, <1>2, <1>3 DEF LogInv, DomainsKept, AOL!Keep, AOL!PowerLoss

-----------------------------------------------------------------------------
LEMMA LogStep ==
  ASSUME LogConstants, LogInv, [Next]_vars
  PROVE  LogInv' /\ [AOL!Next]_<<history, kept>>
<1>1. CASE UNCHANGED <<ioVars, pc, call, history, kept>>
  <2>1. \A t \in Threads : CallInv(t)'
    BY <1>1 DEF LogInv, CallInv, OpAtStep, HoldsLock, Covers, Published, ioVars
  <2> QED BY <1>1, <2>1 DEF LogInv, DomainsKept, Counted, ioVars
<1>2. CASE PowerLoss
  BY <1>2, PowerLossStep DEF AOL!Next
<1>3. ASSUME NEW t \in Threads, CheckpointReplace(t) PROVE LogInv' /\ [AOL!Next]_<<history, kept>>
  BY <1>3, ReplaceStep DEF AOL!Next
<1>4. ASSUME NEW t \in Threads, CheckpointSync(t) PROVE LogInv' /\ [AOL!Next]_<<history, kept>>
  BY <1>4, SyncStep DEF AOL!Next
<1>5. ASSUME NEW t \in Threads, Calls(t) \/ TakeLogLock(t) \/ Return(t) \/ Crash(t) \/ Reading(t)
      PROVE  LogInv' /\ [AOL!Next]_<<history, kept>>
  <2>1. UNCHANGED <<history, kept>>
    BY <1>5 DEF Calls, CreateCall, AppendCall, EntryCall, ProofCall, BundleCall, Start, TakeLogLock,
                Return, Crash, Reading, ReadNote, NoNote, ReadEntry, ReadProof, Raise
  <2>2. LogInv'
    BY <1>5, StartStep, LockStep, EndStep, ReadingStep, FailureStep DEF Reading
  <2> QED BY <2>1, <2>2
<1>6. ASSUME NEW t \in Threads, Appends(t), ~CheckpointReplace(t), ~CheckpointSync(t)
      PROVE  LogInv' /\ [AOL!Next]_<<history, kept>>
  <2>1. LogInv' /\ LogStays
    BY <1>6, FindsNoLogStep, ReadStateStep, FailureStep, WriteFileStep, CheckWrittenStep, SignStep,
       TempStep DEF Appends
  <2> QED BY <2>1 DEF LogStays
<1>7. CASE \E name \in DOMAIN disk : Spoil(name)
  BY <1>1, <1>7 DEF Spoil
<1> QED BY <1>1, <1>2, <1>3, <1>4, <1>5, <1>6, <1>7 DEF Next, vars

LEMMA LogInvAlways ==
  ASSUME LogConstants
  PROVE  Spec => []LogInv
<1>1. LogInv /\ [Next]_vars => LogInv'
  BY LogStep
<1> QED BY <1>1, LogInit, PTL DEF Spec

(***************************************************************************)
(* The directory, its leftovers, its failures and its power losses are an  *)
(* append-only log: what a checkpoint covers grows by whole batches, and   *)
(* goes back to nothing but what a sync had kept (IssuanceLog).            *)
(***************************************************************************)
THEOREM LogIsAppendOnly ==
  ASSUME LogConstants
  PROVE  Spec => ImplementsAppendOnlyLog
<1>1. Init => AOL!Init
  BY DEF Init, AOL!Init
<1>2. LogInv /\ [Next]_vars => [AOL!Next]_<<history, kept>>
  BY LogStep
<1> QED BY <1>1, <1>2, LogInvAlways, PTL DEF Spec, ImplementsAppendOnlyLog, AOL!Spec

(***************************************************************************)
(* An append that returns is in the log a power loss leaves (append_all    *)
(* returns once the checkpoint is synced).                                 *)
(***************************************************************************)
THEOREM AppendsReturnedAreKept ==
  ASSUME LogConstants
  PROVE  Spec => []ReturnedIsKept
<1>1. LogInv => ReturnedIsKept
  BY DEF LogInv, CallInv, Published, ReturnedIsKept
<1> QED BY <1>1, LogInvAlways, PTL

-----------------------------------------------------------------------------
(***************************************************************************)
(* What is signed.  A call that is signing has read the tree back and      *)
(* found the one that the old checkpoint's and its batch give, and so, if  *)
(* that checkpoint was right (CheckpointIsTree), the tree of all entries.  *)
(***************************************************************************)
SigningIsTree ==
  \A t \in Threads : pc[t] \in Signing => call[t].new = TreeOf(call[t].covers)

TreeInv == CheckpointIsTree /\ SigningIsTree

LEMMA EmptyTree == TreeOf(<<>>) = Checkpoint(0, EmptyRoot)
<1>1. Mth(Hashes(<<>>))[<<0, 0>>] = EmptyRoot
  <2>1. Mth(Hashes(<<>>))[<<0, 0>>] = MthBody(Hashes(<<>>), Mth(Hashes(<<>>)), <<0, 0>>)
    BY MthEquation
  <2> QED BY <2>1 DEF MthBody
<1>2. Len(<<>>) = 0 /\ Len(Hashes(<<>>)) = 0
  BY DEF Hashes
<1> QED BY <1>1, <1>2 DEF TreeOf, MerkleRoot

LEMMA LongerHashes ==
  ASSUME NEW T, NEW c \in Seq(T), NEW d \in Seq(T)
  PROVE  /\ SameLeaves(Hashes(c \o d), Hashes(c), Len(c))
         /\ Shifted(Hashes(d), Hashes(c \o d), Len(c), Len(d))
         /\ Len(Hashes(c \o d)) = Len(c) + Len(d) /\ Len(Hashes(c)) = Len(c)
<1>1. Len(c \o d) = Len(c) + Len(d)
  OBVIOUS
<1>2. ASSUME NEW i \in 1..Len(c) PROVE Hashes(c \o d)[i] = Hashes(c)[i]
  <2>1. (c \o d)[i] = c[i] /\ i \in 1..Len(c \o d)
    BY <1>1
  <2> QED BY <2>1 DEF Hashes
<1>3. ASSUME NEW i \in 1..Len(d) PROVE Hashes(c \o d)[Len(c) + i] = Hashes(d)[i]
  <2>1. (c \o d)[Len(c) + i] = d[i] /\ Len(c) + i \in 1..Len(c \o d)
    BY <1>1
  <2> QED BY <2>1 DEF Hashes
<1>4. Len(Hashes(c \o d)) = Len(c) + Len(d) /\ Len(Hashes(c)) = Len(c)
  BY <1>1 DEF Hashes
<1> QED BY <1>2, <1>3, <1>4 DEF SameLeaves, Shifted

LEMMA WrittenIsTree ==
  ASSUME LogConstants, LogInv, CheckpointIsTree, NEW t \in Threads,
         pc[t] = "write", TreeIsRight(t)
  PROVE  Checkpoint(NewSize(t), ViewMth(disk, NewSize(t))[<<0, NewSize(t)>>]) = TreeOf(history \o call[t].batch)
<1> DEFINE batch == call[t].batch
           old == Old(t)
           N == NewSize(t)
           g == Hashes(history \o batch)
           v == ViewMth(disk, old)
<1>1. /\ call[t].old = file /\ file # NoFile /\ call[t].batch \in Batches
      /\ history \in Seq(Entries)
  BY DEF LogInv, CallInv, Covers, OpAtStep, Counted
<1>2. batch \in Seq(Entries) /\ file = TreeOf(history)
  BY <1>1 DEF LogConstants, CheckpointIsTree
<1>3. old = Len(history) /\ call[t].old.root = MerkleRoot(Hashes(history)) /\ N = Len(history) + Len(batch)
  BY <1>1, <1>2 DEF Old, NewSize, TreeOf, Checkpoint
<1>4. /\ v[<<0, old>>] = call[t].old.root
      /\ ViewMth(disk, N)[<<0, N>>] = Expected(t)
  BY Zenon DEF TreeIsRight, WrittenIsRight
<1>5. /\ SameLeaves(g, Hashes(history), old) /\ Shifted(Hashes(batch), g, old, Len(batch))
      /\ Len(g) = N /\ Len(Hashes(history)) = old
  BY <1>1, <1>2, <1>3, LongerHashes
<1>6. old \in Nat /\ N \in Nat /\ old <= N /\ N - old = Len(batch)
  BY <1>1, <1>2, <1>3
<1> HIDE DEF old, N, g, batch
<1>7. v[<<0, old>>] = Mth(g)[<<0, old>>]
  <2>1. Mth(g)[<<0, old>>] = Mth(Hashes(history))[<<0, old>>]
    <3> DEFINE h == Hashes(history)
    <3> HIDE DEF h
    <3>1. SameLeaves(g, h, old)
      BY <1>5 DEF h
    <3>2. ASSUME NEW w \in Nat, 0 + w <= old PROVE Mth(g)[<<0, w>>] = Mth(h)[<<0, w>>]
      BY <1>6, <3>1, <3>2, MthPrefix
    <3>3. Mth(g)[<<0, old>>] = Mth(h)[<<0, old>>]
      BY <1>6, <3>2
    <3> QED BY <3>3 DEF h
  <2> QED BY <1>3, <1>4, <1>5, <2>1 DEF MerkleRoot
<1>8. SumOf(old, v, Mth(Hashes(batch)))[<<0, N>>] = Mth(g)[<<0, N>>]
  BY <1>5, <1>6, <1>7, SumIsRoot
<1>9. ViewMth(disk, N)[<<0, N>>] = MerkleRoot(g)
  <2>1. Expected(t) = SumOf(old, v, Mth(Hashes(batch)))[<<0, N>>]
    BY ExpectedIs, Zenon DEF old, N, batch
  <2> QED BY <1>4, <1>5, <1>8, <2>1 DEF MerkleRoot
<1>10. Len(history \o batch) = N
  BY <1>1, <1>2, <1>3 DEF N, batch
<1> QED BY <1>9, <1>10 DEF TreeOf, g, N, batch

\* A step that signs nothing new, and leaves the log alone.
LEMMA TreeStays ==
  ASSUME TreeInv, LogStays,
         \A t \in Threads : pc'[t] \in Signing =>
           call'[t].new = TreeOf(call'[t].covers) \/ (pc[t] \in Signing /\ call'[t] = call[t])
  PROVE  TreeInv'
<1>1. CheckpointIsTree'
  BY DEF TreeInv, CheckpointIsTree, LogStays
<1>2. SigningIsTree'
  BY DEF TreeInv, SigningIsTree
<1> QED BY <1>1, <1>2 DEF TreeInv

\* The step is of one call.
OnlyBy(t) == \A s \in Threads \ {t} : pc'[s] = pc[s] /\ call'[s] = call[s]

LEMMA StepsOfOne ==
  ASSUME LogInv, NEW t \in Threads
  PROVE  /\ ~CheckpointReplace(t) /\ ~CheckpointSync(t) /\ (Appends(t) \/ Reading(t)) => OnlyBy(t)
         /\ Calls(t) \/ TakeLogLock(t) \/ Return(t) \/ Crash(t) => OnlyBy(t)
         /\ CheckpointReplace(t) \/ CheckpointSync(t) => OnlyBy(t) /\ call'[t] = call[t]
<1> USE DEF OnlyBy, LogInv, DomainsKept, Goto, Raise
<1>1. Calls(t) => OnlyBy(t)
  BY DEF Calls, CreateCall, AppendCall, EntryCall, ProofCall, BundleCall, Start
<1>2. TakeLogLock(t) \/ Return(t) \/ Crash(t) => OnlyBy(t)
  BY DEF TakeLogLock, Return, Crash
<1>3. CheckpointReplace(t) \/ CheckpointSync(t) => OnlyBy(t) /\ call'[t] = call[t]
  BY DEF CheckpointReplace, CheckpointSync
<1>4. Reading(t) => OnlyBy(t)
  BY DEF Reading, ReadNote, NoNote, ReadEntry, ReadProof
<1>5. ReadState(t) => OnlyBy(t)
  <2> SUFFICES ASSUME ReadState(t), NEW s \in Threads \ {t} PROVE pc'[s] = pc[s] /\ call'[s] = call[s]
    OBVIOUS
  <2>1. PICK a, b, c : call' = [call EXCEPT ![t].old = a, ![t].todo = b, ![t].covers = c]
    BY Zenon DEF ReadState
  <2>2. call'[s] = call[s]
    BY <2>1
  <2>3. pc'[s] = pc[s]
    BY DEF ReadState
  <2> QED BY <2>2, <2>3
<1>6. WriteFile(t) => OnlyBy(t)
  BY DEF WriteFile
<1>7. FindsNoLog(t) \/ NoState(t) \/ WriteFails(t) \/ RefuseWritten(t) => OnlyBy(t)
  BY DEF FindsNoLog, NoState, WriteFails, RefuseWritten
<1>8. CheckWritten(t) \/ Sign(t) \/ RefuseSign(t) \/ CheckpointTemp(t) \/ CheckpointFails(t) => OnlyBy(t)
  BY DEF CheckWritten, Sign, RefuseSign, CheckpointTemp, CheckpointFails
<1> QED BY <1>1, <1>2, <1>3, <1>4, <1>5, <1>6, <1>7, <1>8 DEF Appends

LEMMA TreeQuiet ==
  ASSUME TreeInv, LogStays, NEW t \in Threads, OnlyBy(t),
         \/ pc'[t] \notin Signing
         \/ call'[t].new = TreeOf(call'[t].covers)
         \/ pc[t] \in Signing /\ call'[t] = call[t]
  PROVE  TreeInv'
BY TreeStays DEF OnlyBy, TreeInv, SigningIsTree

\* Where a call goes next, and with what, when that is not on the way to a signature.
LEMMA NotToSign ==
  ASSUME LogInv, NEW t \in Threads,
         \/ Calls(t) \/ Return(t) \/ Crash(t) \/ Reading(t)
         \/ FindsNoLog(t) \/ ReadState(t) \/ NoState(t) \/ WriteFile(t) \/ WriteFails(t)
         \/ RefuseWritten(t) \/ RefuseSign(t) \/ CheckpointFails(t)
  PROVE  pc'[t] \notin Signing /\ LogStays
<1> USE DEF LogInv, DomainsKept, Goto, Raise, Signing, LogStays, ioVars
<1>1. CASE Calls(t)
  BY <1>1 DEF Calls, CreateCall, AppendCall, EntryCall, ProofCall, BundleCall, Start
<1>2. CASE Return(t) \/ Crash(t)
  BY <1>2 DEF Return, Crash, KillIO
<1>3. CASE Reading(t)
  BY <1>3 DEF Reading, ReadNote, NoNote, ReadEntry, ReadProof
<1>4. CASE FindsNoLog(t) \/ NoState(t)
  BY <1>4 DEF FindsNoLog, NoState
<1>5. CASE ReadState(t)
  <2>1. pc' = [pc EXCEPT ![t] = "write"] /\ LogStays
    BY <1>5 DEF ReadState
  <2> QED BY <2>1
<1>6. CASE WriteFile(t)
  BY <1>6 DEF WriteFile
<1>7. CASE WriteFails(t) \/ RefuseWritten(t)
  BY <1>7 DEF WriteFails, RefuseWritten
<1>8. CASE RefuseSign(t) \/ CheckpointFails(t)
  BY <1>8 DEF RefuseSign, CheckpointFails
<1> QED BY <1>1, <1>2, <1>3, <1>4, <1>5, <1>6, <1>7, <1>8

LEMMA TreeLockStep ==
  ASSUME LogInv, TreeInv, NEW t \in Threads, TakeLogLock(t)
  PROVE  TreeInv'
<1>1. OnlyBy(t) /\ LogStays
  BY StepsOfOne DEF TakeLogLock, LogStays
<1>2. CASE call[t].op = "create"
  <2>1. call'[t] = [call[t] EXCEPT !.new = Checkpoint(0, EmptyRoot)] /\ CallShape(call[t]) /\ call[t].covers = <<>>
    BY <1>2 DEF TakeLogLock, LogInv, DomainsKept, CallInv, OpAtStep, Covers
  <2>2. call'[t].new = Checkpoint(0, EmptyRoot) /\ call'[t].covers = <<>>
    BY <2>1 DEF CallShape
  <2> QED BY <1>1, <2>2, EmptyTree, TreeQuiet
<1>3. CASE call[t].op # "create"
  <2>1. call[t].op \in {"append", "bundle"} /\ pc' = [pc EXCEPT ![t] = AfterLock(t)] /\ DomainsKept
    BY <1>3 DEF TakeLogLock, LogInv, CallInv, OpAtStep, Goto
  <2>2. AfterLock(t) \in {"state", "view"}
    BY <2>1 DEF AfterLock
  <2>3. pc'[t] \notin Signing
    BY <2>1, <2>2 DEF Signing, DomainsKept
  <2> QED BY <1>1, <2>3, TreeQuiet
<1> QED BY <1>2, <1>3

LEMMA TreeCheckStep ==
  ASSUME LogConstants, LogInv, TreeInv, NEW t \in Threads, CheckWritten(t)
  PROVE  TreeInv'
<1> DEFINE new == Checkpoint(NewSize(t), ViewMth(disk, NewSize(t))[<<0, NewSize(t)>>])
<1>1. OnlyBy(t) /\ LogStays /\ pc[t] = "write" /\ TreeIsRight(t)
  BY StepsOfOne DEF CheckWritten, LogStays, ioVars, Appends, CheckpointReplace, CheckpointSync
<1>2. call'[t] = [call[t] EXCEPT !.new = new] /\ CallShape(call[t])
  <2>1. call' = [call EXCEPT ![t].new = new]
    BY Zenon DEF CheckWritten
  <2> HIDE DEF new
  <2> QED BY <1>1, <2>1 DEF LogInv, DomainsKept, CallInv, OpAtStep
<1>3. new = TreeOf(history \o call[t].batch)
  BY <1>1, WrittenIsTree DEF TreeInv
<1>4. call[t].covers = history \o call[t].batch
  BY <1>1 DEF LogInv, CallInv, OpAtStep, Covers
<1> HIDE DEF new
<1>5. call'[t].new = new /\ call'[t].covers = call[t].covers
  BY <1>2 DEF CallShape
<1> QED BY <1>1, <1>3, <1>4, <1>5, TreeQuiet

LEMMA TreeSignStep ==
  ASSUME LogInv, TreeInv, NEW t \in Threads, Sign(t) \/ CheckpointTemp(t)
  PROVE  TreeInv'
<1>1. OnlyBy(t)
  BY StepsOfOne DEF Sign, CheckpointTemp, Appends, CheckpointReplace, CheckpointSync
<1>2. LogStays /\ pc[t] \in Signing /\ call'[t] = call[t]
  BY DEF Sign, CheckpointTemp, LogStays, ioVars, Signing
<1> QED BY <1>1, <1>2, TreeQuiet

LEMMA TreeReplaceStep ==
  ASSUME LogInv, TreeInv, NEW t \in Threads, CheckpointReplace(t)
  PROVE  TreeInv'
<1>1. /\ pc[t] \in Signing /\ file' = call[t].new /\ history' = call[t].covers
      /\ UNCHANGED <<durable, kept, call>> /\ pc'[t] \notin Signing
  BY DEF CheckpointReplace, Replace, Goto, Signing, LogInv, DomainsKept
<1>2. CheckpointIsTree'
  BY <1>1 DEF TreeInv, CheckpointIsTree, SigningIsTree, TreeOf
<1>3. SigningIsTree'
  BY <1>1, StepsOfOne DEF TreeInv, SigningIsTree, OnlyBy
<1> QED BY <1>2, <1>3 DEF TreeInv

LEMMA TreeSyncStep ==
  ASSUME LogInv, TreeInv, NEW t \in Threads, CheckpointSync(t)
  PROVE  TreeInv'
<1>1. /\ durable' = file /\ kept' = history /\ UNCHANGED <<file, history, call>> /\ pc'[t] \notin Signing
  BY DEF CheckpointSync, SyncDirectory, Goto, Signing, LogInv, DomainsKept
<1>2. CheckpointIsTree'
  BY <1>1 DEF TreeInv, CheckpointIsTree, TreeOf
<1>3. SigningIsTree'
  BY <1>1, StepsOfOne DEF TreeInv, SigningIsTree, OnlyBy
<1> QED BY <1>2, <1>3 DEF TreeInv

LEMMA TreePowerLoss ==
  ASSUME TreeInv, PowerLoss
  PROVE  TreeInv'
<1>1. /\ file' \in {file, durable} /\ durable' = file'
      /\ history' = IF file' = file THEN history ELSE kept
      /\ kept' = history' /\ \A t \in Threads : pc'[t] = "idle"
  BY DEF PowerLoss, PowerLossIO
<1>2. CheckpointIsTree'
  BY <1>1 DEF TreeInv, CheckpointIsTree, TreeOf
<1>3. SigningIsTree'
  BY <1>1 DEF SigningIsTree, Signing
<1> QED BY <1>2, <1>3 DEF TreeInv

LEMMA TreeStep ==
  ASSUME LogConstants, LogInv, TreeInv, [Next]_vars
  PROVE  TreeInv'
<1>1. CASE UNCHANGED <<ioVars, pc, call, history, kept>>
  BY <1>1, TreeStays DEF LogStays, ioVars
<1>2. CASE PowerLoss
  BY <1>2, TreePowerLoss
<1>3. CASE \E name \in DOMAIN disk : Spoil(name)
  BY <1>1, <1>3 DEF Spoil
<1>4. ASSUME NEW t \in Threads, Calls(t) \/ Return(t) \/ Crash(t) \/ Reading(t)
      PROVE  TreeInv'
  <2>1. OnlyBy(t)
    BY <1>4, StepsOfOne DEF Reading, ReadNote, NoNote, ReadEntry, ReadProof, CheckpointReplace, CheckpointSync
  <2> QED BY <1>4, <2>1, NotToSign, TreeQuiet
<1>5. ASSUME NEW t \in Threads, Appends(t) PROVE TreeInv'
  <2>1. CASE CheckWritten(t) \/ Sign(t) \/ CheckpointTemp(t) \/ CheckpointReplace(t) \/ CheckpointSync(t)
    BY <2>1, TreeCheckStep, TreeSignStep, TreeReplaceStep, TreeSyncStep
  <2>2. CASE ~(CheckWritten(t) \/ Sign(t) \/ CheckpointTemp(t) \/ CheckpointReplace(t) \/ CheckpointSync(t))
    <3>1. OnlyBy(t)
      BY <1>5, <2>2, StepsOfOne
    <3>2. pc'[t] \notin Signing /\ LogStays
      BY <1>5, <2>2, NotToSign DEF Appends
    <3> QED BY <3>1, <3>2, TreeQuiet
  <2> QED BY <2>1, <2>2
<1>6. ASSUME NEW t \in Threads, TakeLogLock(t) PROVE TreeInv'
  BY <1>6, TreeLockStep
<1> QED BY <1>1, <1>2, <1>3, <1>4, <1>5, <1>6 DEF Next, vars

(***************************************************************************)
(* The signed root is the root of the entries appended so far, whatever is *)
(* lost or spoiled on the disk and whenever: _check_written compares what  *)
(* it reads back with the root that only the right tree has; so is the     *)
(* checkpoint a power loss would leave.                                    *)
(***************************************************************************)
THEOREM SignedIsTheTree ==
  ASSUME LogConstants
  PROVE  Spec => []CheckpointIsTree
<1>1. Init => TreeInv
  BY DEF Init, TreeInv, CheckpointIsTree, SigningIsTree, Signing
<1>2. LogInv /\ TreeInv /\ [Next]_vars => TreeInv'
  BY TreeStep
<1>3. TreeInv => CheckpointIsTree
  BY DEF TreeInv
<1> QED BY <1>1, <1>2, <1>3, LogInvAlways, PTL DEF Spec

-----------------------------------------------------------------------------
(***************************************************************************)
(* What an append has still to write is of no file that the checkpoint it  *)
(* read covers, and until it gives back its lock that is the checkpoint.   *)
(***************************************************************************)
Ahead(c) ==
  /\ IsList(c.todo)
  /\ \A x : Among(x, c.todo) => ~CoveredBy(x.name, c.old.size)

WritesInv ==
  /\ damage \in Nat
  /\ \A t \in Threads : pc[t] = "write" => Ahead(call[t])

\* Only a call that has just read the state, or has just written a file, is writing.
LEMMA NotToWrite ==
  ASSUME LogInv, NEW t \in Threads,
         \/ Calls(t) \/ TakeLogLock(t) \/ Return(t) \/ Crash(t) \/ Reading(t)
         \/ Appends(t) /\ ~ReadState(t) /\ ~WriteFile(t)
  PROVE  pc'[t] # "write"
<1> USE DEF LogInv, DomainsKept, Goto, Raise
<1>1. CASE Calls(t)
  BY <1>1 DEF Calls, CreateCall, AppendCall, EntryCall, ProofCall, BundleCall, Start
<1>2. CASE Return(t) \/ Crash(t)
  BY <1>2 DEF Return, Crash
<1>3. CASE Reading(t)
  BY <1>3 DEF Reading, ReadNote, NoNote, ReadEntry, ReadProof
<1>4. CASE TakeLogLock(t)
  <2>1. pc[t] = "lock" /\ pc' = [pc EXCEPT ![t] = AfterLock(t)]
    BY <1>4 DEF TakeLogLock
  <2>2. call[t].op \in {"create", "append", "bundle"}
    BY <2>1 DEF CallInv, OpAtStep
  <2>3. AfterLock(t) \in {"sign", "state", "view"}
    BY <2>2 DEF AfterLock
  <2> QED BY <2>1, <2>3
<1>5. CASE FindsNoLog(t) \/ NoState(t) \/ WriteFails(t) \/ RefuseWritten(t)
  BY <1>5 DEF FindsNoLog, NoState, WriteFails, RefuseWritten
<1>6. CASE CheckWritten(t) \/ Sign(t) \/ RefuseSign(t)
  BY <1>6 DEF CheckWritten, Sign, RefuseSign
<1>7. CASE CheckpointTemp(t) \/ CheckpointReplace(t) \/ CheckpointSync(t) \/ CheckpointFails(t)
  BY <1>7 DEF CheckpointTemp, CheckpointReplace, CheckpointSync, CheckpointFails
<1> QED BY <1>1, <1>2, <1>3, <1>4, <1>5, <1>6, <1>7 DEF Appends

\* What the call goes by while it reads the state.
LEMMA StateRead ==
  ASSUME LogConstants, LogInv, NEW t \in Threads, ReadState(t)
  PROVE  /\ pc'[t] = "write" /\ file # NoFile /\ history \in Seq(Entries) /\ call[t].batch \in Batches
         /\ file.size = Len(history) /\ call[t].batch \in Seq(Entries) /\ call[t].batch # <<>>
         /\ call'[t].old = file /\ call'[t].batch = call[t].batch
         /\ call'[t].todo = Writes(disk, file.size, call[t].batch) /\ call'[t].written = call[t].written
         /\ call'[t].covers = history \o call[t].batch
<1> DEFINE writes == Writes(disk, file.size, call[t].batch)
           covers == history \o call[t].batch
<1>1. /\ pc[t] = "state" /\ file # NoFile /\ CallShape(call[t]) /\ call[t].op = "append"
      /\ call[t].batch \in Batches
  BY DEF ReadState, LogInv, CallInv, OpAtStep
<1>2. pc'[t] = "write"
  BY DEF ReadState, Goto, LogInv, DomainsKept
<1>3. call' = [call EXCEPT ![t].old = file, ![t].todo = writes, ![t].covers = covers]
  BY Zenon DEF ReadState
<1> HIDE DEF writes, covers
<1>4. PICK a : a = [call[t] EXCEPT !.old = file]
  OBVIOUS
<1>5. CallShape(a) /\ a.batch = call[t].batch /\ a.old = file /\ a.written = call[t].written
  BY <1>1, <1>4 DEF CallShape
<1>6. PICK b : b = [a EXCEPT !.todo = writes]
  OBVIOUS
<1>7. /\ CallShape(b) /\ b.batch = call[t].batch /\ b.old = file /\ b.written = call[t].written
      /\ b.todo = writes
  BY <1>5, <1>6 DEF CallShape
<1>8. PICK c : c = [b EXCEPT !.covers = covers]
  OBVIOUS
<1>9. /\ CallShape(c) /\ c.batch = call[t].batch /\ c.old = file /\ c.written = call[t].written
      /\ c.todo = writes /\ c.covers = covers
  BY <1>7, <1>8 DEF CallShape
<1>10. call'[t] = c
  BY <1>3, <1>4, <1>6, <1>8 DEF LogInv, DomainsKept
<1>11. call[t].batch \in Seq(Entries) /\ call[t].batch # <<>>
  BY <1>1 DEF LogConstants
<1>12. history \in Seq(Entries) /\ file.size = Len(history)
  BY <1>1 DEF LogInv, Counted
<1> QED BY <1>1, <1>2, <1>9, <1>10, <1>11, <1>12 DEF writes, covers

\* ... and while it writes a file.
LEMMA FileWritten ==
  ASSUME LogInv, NEW t \in Threads, WriteFile(t)
  PROVE  /\ pc[t] = "write" /\ call[t].todo # <<>>
         /\ pc' = pc /\ disk' = Stored(Head(call[t].todo).name, Head(call[t].todo).data)
         /\ call'[t].old = call[t].old /\ call'[t].batch = call[t].batch /\ call'[t].covers = call[t].covers
         /\ call'[t].todo = Tail(call[t].todo) /\ call'[t].written = call[t].written \cup {Head(call[t].todo)}
<1> DEFINE next == Head(call[t].todo)
<1>1. pc[t] = "write" /\ call[t].todo # <<>> /\ CallShape(call[t])
  BY DEF WriteFile, LogInv, CallInv, OpAtStep
<1>2. pc' = pc /\ disk' = Stored(next.name, next.data)
  BY DEF WriteFile
<1>3. call' = [call EXCEPT ![t].todo = Tail(call[t].todo), ![t].written = call[t].written \cup {next}]
  BY DEF WriteFile
<1>4. PICK less : less = [call[t] EXCEPT !.todo = Tail(call[t].todo)]
  OBVIOUS
<1>5. /\ CallShape(less) /\ less.batch = call[t].batch /\ less.old = call[t].old
      /\ less.covers = call[t].covers /\ less.todo = Tail(call[t].todo) /\ less.written = call[t].written
  BY <1>1, <1>4 DEF CallShape
<1>6. PICK new : new = [less EXCEPT !.written = call[t].written \cup {next}]
  OBVIOUS
<1>7. /\ new.batch = call[t].batch /\ new.old = call[t].old
      /\ new.covers = call[t].covers /\ new.todo = Tail(call[t].todo) /\ new.written = call[t].written \cup {next}
  BY <1>5, <1>6 DEF CallShape
<1>8. call'[t] = new
  <2> HIDE DEF next
  <2> QED BY <1>3, <1>4, <1>6 DEF LogInv, DomainsKept
<1> QED BY <1>1, <1>2, <1>7, <1>8

LEMMA WritesStay ==
  ASSUME WritesInv, damage' \in Nat,
         \A t \in Threads : pc'[t] = "write" => Ahead(call'[t]) \/ (pc[t] = "write" /\ call'[t] = call[t])
  PROVE  WritesInv'
BY DEF WritesInv

LEMMA WritesStep ==
  ASSUME LogConstants, LogInv, WritesInv, [Next]_vars
  PROVE  WritesInv'
<1>1. CASE UNCHANGED <<pc, call>> /\ damage' \in Nat
  BY <1>1, WritesStay
<1>2. CASE PowerLoss
  BY <1>2 DEF PowerLoss, WritesInv
<1>3. CASE \E name \in DOMAIN disk : Spoil(name)
  <2>1. UNCHANGED <<pc, call>> /\ damage' = damage + 1
    BY <1>3 DEF Spoil
  <2> QED BY <1>1, <2>1 DEF WritesInv
<1>4. ASSUME NEW t \in Threads, OnlyBy(t), damage' = damage, pc'[t] # "write" \/ Ahead(call'[t])
      PROVE  WritesInv'
  BY <1>4, WritesStay DEF WritesInv, OnlyBy
<1>5. ASSUME NEW t \in Threads, Calls(t) \/ TakeLogLock(t) \/ Return(t) \/ Crash(t) \/ Reading(t)
      PROVE  WritesInv'
  <2>1. damage' = damage
    BY <1>5 DEF Calls, CreateCall, AppendCall, EntryCall, ProofCall, BundleCall, Start, TakeLogLock,
                Return, Crash, Reading, ReadNote, NoNote, ReadEntry, ReadProof, Raise
  <2>2. OnlyBy(t)
    BY <1>5, StepsOfOne DEF Reading, ReadNote, NoNote, ReadEntry, ReadProof, CheckpointReplace, CheckpointSync
  <2> QED BY <1>4, <1>5, <2>1, <2>2, NotToWrite
<1>6. ASSUME NEW t \in Threads, Appends(t) PROVE WritesInv'
  <2>1. OnlyBy(t)
    BY <1>6, StepsOfOne
  <2>2. damage' = damage
    BY <1>6 DEF Appends, FindsNoLog, ReadState, NoState, WriteFile, WriteFails, CheckWritten, RefuseWritten,
                Sign, RefuseSign, CheckpointTemp, CheckpointReplace, CheckpointSync, CheckpointFails, Raise
  <2>3. CASE ReadState(t)
    <3>1. IsList(call[t].batch) /\ file.size \in Nat
      BY <2>3, StateRead, SeqIsList
    <3>2. /\ IsList(Writes(disk, file.size, call[t].batch))
          /\ \A x : Among(x, Writes(disk, file.size, call[t].batch)) => ~CoveredBy(x.name, file.size)
      BY <2>3, <3>1, StateRead, WritesAreNotCovered
    <3>3. call'[t].todo = Writes(disk, file.size, call[t].batch) /\ call'[t].old = file
      BY <2>3, StateRead
    <3>4. Ahead(call'[t])
      BY <3>2, <3>3 DEF Ahead
    <3> QED BY <1>4, <2>1, <2>2, <3>4
  <2>4. CASE WriteFile(t)
    <3>1. pc[t] = "write" /\ call[t].todo # <<>> /\ call'[t].todo = Tail(call[t].todo) /\ call'[t].old = call[t].old
      BY <2>4, FileWritten
    <3>2. Ahead(call[t])
      BY <3>1 DEF WritesInv
    <3>3. /\ IsList(Tail(call[t].todo)) /\ Len(Tail(call[t].todo)) = Len(call[t].todo) - 1
          /\ \A i \in 1..(Len(call[t].todo) - 1) : Tail(call[t].todo)[i] = call[t].todo[i + 1]
          /\ Len(call[t].todo) \in Nat
      BY <3>1, <3>2, TailIs, ListLen DEF Ahead
    <3>4. \A x : Among(x, Tail(call[t].todo)) => Among(x, call[t].todo)
      BY <3>3 DEF Among
    <3>5. Ahead(call'[t])
      BY <3>1, <3>2, <3>3, <3>4 DEF Ahead
    <3> QED BY <1>4, <2>1, <2>2, <3>5
  <2>5. CASE ~ReadState(t) /\ ~WriteFile(t)
    BY <1>4, <1>6, <2>1, <2>2, <2>5, NotToWrite
  <2> QED BY <2>3, <2>4, <2>5
<1> QED BY <1>1, <1>2, <1>3, <1>5, <1>6 DEF Next, vars, WritesInv

-----------------------------------------------------------------------------
\* Storing a file under a name leaves the others.
LEMMA StoredKeeps ==
  ASSUME NEW name, NEW data, NEW other, other \in DOMAIN disk, other # name
  PROVE  other \in DOMAIN Stored(name, data) /\ Stored(name, data)[other] = disk[other]
BY DEF Stored

LEMMA WriteKeeps ==
  ASSUME LogInv, WritesInv, NEW t \in Threads, pc[t] = "write", call[t].todo # <<>>,
         disk' = Stored(Head(call[t].todo).name, Head(call[t].todo).data)
  PROVE  CoveredKept
<1> DEFINE next == Head(call[t].todo)
<1>1. Ahead(call[t])
  BY DEF WritesInv
<1>2. Among(next, call[t].todo)
  BY <1>1, TailIs, ListLen DEF Ahead, Among
<1>3. ~CoveredBy(next.name, call[t].old.size)
  BY <1>1, <1>2 DEF Ahead
<1>4. call[t].old = file
  BY DEF LogInv, CallInv, OpAtStep, Covers
<1>5. ASSUME NEW name \in DOMAIN disk, CoveredBy(name, file.size)
      PROVE  name \in DOMAIN disk' /\ disk'[name] = disk[name]
  <2>1. name # next.name
    BY <1>3, <1>4, <1>5
  <2> QED BY <2>1, StoredKeeps
<1> QED BY <1>5 DEF CoveredKept

LEMMA CoveredStep ==
  ASSUME LogConstants, LogInv, WritesInv, [Next]_vars
  PROVE  [CoveredKept]_vars
<1>1. CASE disk' = disk
  BY <1>1 DEF CoveredKept
<1>2. CASE PowerLoss
  BY <1>1, <1>2 DEF PowerLoss
<1>3. CASE \E name \in DOMAIN disk : Spoil(name)
  BY <1>3 DEF Spoil, CoveredKept, WritesInv
<1>4. ASSUME NEW t \in Threads, Calls(t) \/ TakeLogLock(t) \/ Return(t) \/ Crash(t) \/ Reading(t)
      PROVE  CoveredKept
  <2>1. disk' = disk
    BY <1>4 DEF Calls, CreateCall, AppendCall, EntryCall, ProofCall, BundleCall, Start, TakeLogLock,
                Return, Crash, Reading, ReadNote, NoNote, ReadEntry, ReadProof, Raise
  <2> QED BY <2>1 DEF CoveredKept
<1>5. ASSUME NEW t \in Threads, Appends(t) PROVE CoveredKept
  <2>1. CASE WriteFile(t)
    BY <2>1, WriteKeeps, FileWritten
  <2>2. CASE WriteFails(t)
    <3>1. pc[t] = "write" /\ call[t].todo # <<>>
      BY <2>2 DEF WriteFails
    <3>2. disk' = disk \/ disk' = Stored(Head(call[t].todo).name, Head(call[t].todo).data)
      BY <2>2 DEF WriteFails
    <3> QED BY <3>1, <3>2, WriteKeeps DEF CoveredKept
  <2>3. CASE ~WriteFile(t) /\ ~WriteFails(t)
    <3>1. disk' = disk
      BY <1>5, <2>3 DEF Appends, FindsNoLog, ReadState, NoState, CheckWritten, RefuseWritten,
                Sign, RefuseSign, CheckpointTemp, CheckpointReplace, CheckpointSync, CheckpointFails, Raise
    <3> QED BY <3>1 DEF CoveredKept
  <2> QED BY <2>1, <2>2, <2>3
<1> QED BY <1>1, <1>2, <1>3, <1>4, <1>5 DEF Next, vars

(***************************************************************************)
(* No append, whole or stopped half-way, rewrites or removes a file that   *)
(* the checkpoint covers, in a log of any size, with tiles of any width    *)
(* (docs/SIGNING.md): it writes only files of which a part is new, and     *)
(* that part is in their names.                                            *)
(***************************************************************************)
THEOREM CoveredFilesStay ==
  ASSUME LogConstants
  PROVE  Spec => CoveredFilesKept
<1>1. Init => WritesInv
  BY DEF Init, WritesInv
<1>2. LogInv /\ WritesInv /\ [Next]_vars => WritesInv'
  BY WritesStep
<1>3. LogInv /\ WritesInv /\ [Next]_vars => [CoveredKept]_vars
  BY CoveredStep
<1> QED BY <1>1, <1>2, <1>3, LogInvAlways, PTL DEF Spec, CoveredFilesKept

(***************************************************************************)
(* What is signed is the tree of the entries appended, and what an append  *)
(* returned for is on the disk: the checkpoint that is read, the one that  *)
(* a power loss would leave, and the entries it covers.                    *)
(***************************************************************************)
THEOREM SignedTreesAreKept ==
  ASSUME LogConstants
  PROVE  Spec => []SignedIsKept
BY SignedIsTheTree, AppendsReturnedAreKept, PTL DEF SignedIsKept

-----------------------------------------------------------------------------
(***************************************************************************)
(* What a step of one call is: how its own request moves on (Moved), and   *)
(* what it does to the lock, the log and the disk (Around).                *)
(***************************************************************************)
Acts(t) == Calls(t) \/ TakeLogLock(t) \/ Return(t) \/ Crash(t) \/ Appends(t) \/ Reading(t)

SameRequest(t) ==
  /\ CallShape(call'[t]) /\ call'[t].op = call[t].op /\ call'[t].batch = call[t].batch
  /\ call'[t].index = call[t].index

\* The request begins, ends, or fails.
Begun(t) ==
  /\ CallShape(call'[t]) /\ call'[t].written = {} /\ call'[t].index \in Nat
  /\ pc'[t] \in {"absent", "lock", "view"}
  /\ pc'[t] = "view" => call'[t].op \in {"entry", "proof"}

Ended(t) == pc[t] # "idle" /\ pc'[t] = "idle" /\ call'[t] = NoCall

Failed(t) == pc[t] # "idle" /\ pc'[t] = "raise" /\ call'[t] = call[t]

Onward == {<<"absent", "lock">>, <<"lock", "state">>, <<"lock", "view">>, <<"sign", "temp">>,
           <<"temp", "replace">>, <<"replace", "sync">>, <<"sync", "done">>}

\* It goes on as it is.
GoesOn(t) ==
  /\ call'[t] = call[t] /\ <<pc[t], pc'[t]>> \in Onward
  /\ pc[t] = "lock" => lock' = t

\* It goes on with one of its fields set.
Created(t) ==
  /\ pc[t] = "lock" /\ pc'[t] = "sign" /\ lock' = t
  /\ SameRequest(t) /\ call[t].op = "create" /\ call'[t].covers = call[t].covers

Loaded(t) ==
  /\ pc[t] = "state" /\ pc'[t] = "write" /\ SameRequest(t) /\ ReadState(t)

Wrote(t) ==
  /\ pc[t] = "write" /\ pc'[t] = "write" /\ SameRequest(t) /\ WriteFile(t)

Checked(t) ==
  /\ pc[t] = "write" /\ pc'[t] = "sign" /\ SameRequest(t) /\ call[t].todo = <<>>
  /\ call'[t].covers = call[t].covers

Noted(t) ==
  /\ pc[t] = "view" /\ pc'[t] = (IF call[t].op = "proof" THEN "proof" ELSE "entry") /\ SameRequest(t)
  /\ file # NoFile /\ call[t].index < file.size
  /\ call'[t].old = file /\ call'[t].covers = history

EntryTaken(t) ==
  /\ pc[t] = "entry" /\ pc'[t] = (IF call[t].op = "bundle" THEN "proof" ELSE "done") /\ SameRequest(t)
  /\ call'[t].old = call[t].old /\ call'[t].covers = call[t].covers /\ call'[t].proof = call[t].proof
  /\ call'[t].entry = EntryAt(ViewSize(t), call[t].index)

ProofTaken(t) ==
  /\ pc[t] = "proof" /\ pc'[t] = "done" /\ SameRequest(t)
  /\ call'[t].old = call[t].old /\ call'[t].covers = call[t].covers /\ call'[t].entry = call[t].entry
  /\ call'[t].proof = PathOf(ViewMth(disk, ViewSize(t)), call[t].index, 0, ViewSize(t))

Moved(t) ==
  \/ Begun(t) \/ Ended(t) \/ Failed(t) \/ GoesOn(t) \/ Created(t) \/ Loaded(t) \/ Wrote(t)
  \/ Checked(t) \/ Noted(t) \/ EntryTaken(t) \/ ProofTaken(t)

\* Setting one field leaves the others.
LEMMA OneSet ==
  ASSUME NEW c, CallShape(c)
  PROVE  /\ \A v : LET d == [c EXCEPT !.new = v] IN
              CallShape(d) /\ d.op = c.op /\ d.batch = c.batch /\ d.index = c.index /\ d.covers = c.covers
         /\ \A v : LET d == [c EXCEPT !.old = v] IN
              /\ CallShape(d) /\ d.op = c.op /\ d.batch = c.batch /\ d.index = c.index
              /\ d.old = v /\ d.written = c.written
         /\ \A v : LET d == [c EXCEPT !.covers = v] IN
              /\ CallShape(d) /\ d.op = c.op /\ d.batch = c.batch /\ d.index = c.index
              /\ d.old = c.old /\ d.covers = v /\ d.todo = c.todo /\ d.written = c.written
         /\ \A v : LET d == [c EXCEPT !.todo = v] IN
              /\ CallShape(d) /\ d.op = c.op /\ d.batch = c.batch /\ d.index = c.index
              /\ d.old = c.old /\ d.covers = c.covers /\ d.todo = v /\ d.written = c.written
         /\ \A v : LET d == [c EXCEPT !.written = v] IN
              /\ CallShape(d) /\ d.op = c.op /\ d.batch = c.batch /\ d.index = c.index
         /\ \A v : LET d == [c EXCEPT !.entry = v] IN
              /\ CallShape(d) /\ d.op = c.op /\ d.batch = c.batch /\ d.index = c.index
              /\ d.old = c.old /\ d.covers = c.covers /\ d.proof = c.proof /\ d.entry = v
         /\ \A v : LET d == [c EXCEPT !.proof = v] IN
              /\ CallShape(d) /\ d.op = c.op /\ d.batch = c.batch /\ d.index = c.index
              /\ d.old = c.old /\ d.covers = c.covers /\ d.entry = c.entry /\ d.proof = v
BY DEF CallShape

LEMMA MovedStart ==
  ASSUME NEW t \in Threads, LogInv, Calls(t)
  PROVE  Begun(t)
<1>0. ASSUME NEW op, NEW batch, NEW index
      PROVE  LET request == Request(op, batch, index) IN
             CallShape(request) /\ request.op = op /\ request.written = {} /\ request.index = index
  BY DEF Request, CallShape
<1>1. PICK request, label :
        /\ Start(t, request, label) /\ CallShape(request) /\ request.written = {} /\ request.index \in Nat
        /\ label \in {"absent", "lock", "view"} /\ (label = "view" => request.op \in {"entry", "proof"})
  <2>1. CASE CreateCall(t)
    BY <1>0, <2>1 DEF CreateCall
  <2>2. CASE \E batch \in Batches : AppendCall(t, batch)
    BY <1>0, <2>2 DEF AppendCall
  <2>3. CASE \E index \in 0..(MaxSize - 1) : EntryCall(t, index) \/ ProofCall(t, index) \/ BundleCall(t, index)
    <3>1. \A index \in 0..(MaxSize - 1) : index \in Nat
      BY BoundAssumption
    <3> QED BY <1>0, <2>3, <3>1 DEF EntryCall, ProofCall, BundleCall
  <2> QED BY <2>1, <2>2, <2>3 DEF Calls
<1>2. pc'[t] = label /\ call'[t] = request
  BY <1>1 DEF Start, Goto, LogInv, DomainsKept
<1> QED BY <1>1, <1>2 DEF Begun

LEMMA MovedLock ==
  ASSUME NEW t \in Threads, LogInv, TakeLogLock(t)
  PROVE  Moved(t)
<1>1. /\ pc[t] = "lock" /\ lock' = t /\ pc'[t] = AfterLock(t) /\ CallShape(call[t])
      /\ call[t].op \in {"create", "append", "bundle"}
  BY DEF TakeLogLock, TakeLock, Goto, LogInv, DomainsKept, CallInv, OpAtStep
<1>2. CASE call[t].op = "create"
  <2>1. call'[t] = [call[t] EXCEPT !.new = Checkpoint(0, EmptyRoot)] /\ pc'[t] = "sign"
    BY <1>1, <1>2 DEF TakeLogLock, AfterLock, LogInv, DomainsKept
  <2>2. SameRequest(t) /\ call'[t].covers = call[t].covers
    <3> DEFINE v == Checkpoint(0, EmptyRoot)
    <3> HIDE DEF v
    <3>1. call'[t] = [call[t] EXCEPT !.new = v]
      BY <2>1 DEF v
    <3> QED BY <1>1, <3>1, OneSet DEF SameRequest
  <2> QED BY <1>1, <1>2, <2>1, <2>2 DEF Moved, Created
<1>3. CASE call[t].op # "create"
  <2>1. call'[t] = call[t] /\ pc'[t] \in {"state", "view"}
    BY <1>1, <1>3 DEF TakeLogLock, AfterLock, LogInv, DomainsKept
  <2> QED BY <1>1, <2>1 DEF Moved, GoesOn, Onward
<1> QED BY <1>2, <1>3

LEMMA MovedEnd ==
  ASSUME NEW t \in Threads, LogInv, Return(t) \/ Crash(t)
  PROVE  Ended(t)
BY DEF Return, Crash, Goto, LogInv, DomainsKept, Ended

LEMMA MovedFailure ==
  ASSUME NEW t \in Threads, LogInv, pc[t] # "idle", Goto(t, "raise"), UNCHANGED call
  PROVE  Failed(t)
BY DEF Goto, LogInv, DomainsKept, Failed

LEMMA MovedReadState ==
  ASSUME NEW t \in Threads, LogInv, ReadState(t)
  PROVE  Loaded(t)
<1>1. pc[t] = "state" /\ pc'[t] = "write" /\ CallShape(call[t])
  BY DEF ReadState, Goto, LogInv, DomainsKept, CallInv, OpAtStep
<1>2. PICK a, b, c : call' = [call EXCEPT ![t].old = a, ![t].todo = b, ![t].covers = c]
  BY Zenon DEF ReadState
<1>3. PICK p : p = [call[t] EXCEPT !.old = a]
  OBVIOUS
<1>4. PICK q : q = [p EXCEPT !.todo = b]
  OBVIOUS
<1>5. PICK r : r = [q EXCEPT !.covers = c]
  OBVIOUS
<1>6. CallShape(p) /\ p.op = call[t].op /\ p.batch = call[t].batch /\ p.index = call[t].index
  BY <1>1, <1>3, OneSet
<1>7. CallShape(q) /\ q.op = p.op /\ q.batch = p.batch /\ q.index = p.index
  BY <1>4, <1>6, OneSet
<1>8. CallShape(r) /\ r.op = q.op /\ r.batch = q.batch /\ r.index = q.index
  BY <1>5, <1>7, OneSet
<1>9. call'[t] = r
  BY <1>2, <1>3, <1>4, <1>5 DEF LogInv, DomainsKept
<1> QED BY <1>1, <1>6, <1>7, <1>8, <1>9 DEF Loaded, SameRequest

LEMMA MovedWriteFile ==
  ASSUME NEW t \in Threads, LogInv, WriteFile(t)
  PROVE  Wrote(t)
<1>1. pc[t] = "write" /\ pc'[t] = "write" /\ CallShape(call[t])
  BY DEF WriteFile, LogInv, CallInv, OpAtStep
<1>2. PICK a, b : call' = [call EXCEPT ![t].todo = a, ![t].written = b]
  BY DEF WriteFile
<1>3. PICK p : p = [call[t] EXCEPT !.todo = a]
  OBVIOUS
<1>4. PICK q : q = [p EXCEPT !.written = b]
  OBVIOUS
<1>5. CallShape(p) /\ p.op = call[t].op /\ p.batch = call[t].batch /\ p.index = call[t].index
  BY <1>1, <1>3, OneSet
<1>6. CallShape(q) /\ q.op = p.op /\ q.batch = p.batch /\ q.index = p.index
  BY <1>4, <1>5, OneSet
<1>7. call'[t] = q
  BY <1>2, <1>3, <1>4 DEF LogInv, DomainsKept
<1> QED BY <1>1, <1>5, <1>6, <1>7 DEF Wrote, SameRequest

LEMMA MovedCheck ==
  ASSUME NEW t \in Threads, LogInv, CheckWritten(t)
  PROVE  Checked(t)
<1>1. pc[t] = "write" /\ pc'[t] = "sign" /\ CallShape(call[t]) /\ call[t].todo = <<>>
  BY DEF CheckWritten, Goto, LogInv, DomainsKept, CallInv, OpAtStep
<1>2. PICK a : call' = [call EXCEPT ![t].new = a]
  BY Zenon DEF CheckWritten
<1>3. call'[t] = [call[t] EXCEPT !.new = a]
  BY <1>2 DEF LogInv, DomainsKept
<1> QED BY <1>1, <1>3, OneSet DEF Checked, SameRequest

LEMMA MovedRead ==
  ASSUME NEW t \in Threads, LogInv, Reading(t)
  PROVE  Moved(t)
<1>1. CASE Raise(t)
  <2>1. pc[t] # "idle" /\ Goto(t, "raise") /\ UNCHANGED call
    BY <1>1 DEF Reading, ReadNote, NoNote, ReadEntry, ReadProof, Raise
  <2> QED BY <2>1, MovedFailure DEF Moved
<1>2. CASE ReadNote(t)
  <2>1. /\ pc[t] = "view" /\ file # NoFile /\ call[t].index < file.size /\ CallShape(call[t])
        /\ pc'[t] = (IF call[t].op = "proof" THEN "proof" ELSE "entry")
    BY <1>2 DEF ReadNote, Goto, LogInv, DomainsKept, CallInv, OpAtStep
  <2>2. PICK p : p = [call[t] EXCEPT !.old = file]
    OBVIOUS
  <2>3. PICK q : q = [p EXCEPT !.covers = history]
    OBVIOUS
  <2>4. call'[t] = q
    BY <1>2, <2>2, <2>3 DEF ReadNote, LogInv, DomainsKept
  <2>5. CallShape(p) /\ p.op = call[t].op /\ p.batch = call[t].batch /\ p.index = call[t].index /\ p.old = file
    BY <2>1, <2>2, OneSet
  <2>6. /\ CallShape(q) /\ q.op = p.op /\ q.batch = p.batch /\ q.index = p.index /\ q.old = p.old
        /\ q.covers = history
    BY <2>3, <2>5, OneSet
  <2> QED BY <2>1, <2>4, <2>5, <2>6 DEF Moved, Noted, SameRequest
<1>3. CASE ReadEntry(t) /\ ~Raise(t)
  <2> DEFINE v == EntryAt(ViewSize(t), call[t].index)
  <2>1. pc[t] = "entry" /\ CallShape(call[t]) /\ pc'[t] = (IF call[t].op = "bundle" THEN "proof" ELSE "done")
    BY <1>3 DEF ReadEntry, Goto, LogInv, DomainsKept, CallInv, OpAtStep
  <2>2. call' = [call EXCEPT ![t].entry = v]
    BY <1>3, Zenon DEF ReadEntry
  <2> HIDE DEF v
  <2>3. call'[t] = [call[t] EXCEPT !.entry = v]
    BY <2>2 DEF LogInv, DomainsKept
  <2>4. SameRequest(t) /\ call'[t].old = call[t].old /\ call'[t].covers = call[t].covers
        /\ call'[t].proof = call[t].proof /\ call'[t].entry = v
    BY <2>1, <2>3, OneSet DEF SameRequest
  <2> QED BY <2>1, <2>4 DEF Moved, EntryTaken, v
<1>4. CASE ReadProof(t) /\ ~Raise(t)
  <2> DEFINE v == PathOf(ViewMth(disk, ViewSize(t)), call[t].index, 0, ViewSize(t))
  <2>1. pc[t] = "proof" /\ CallShape(call[t]) /\ pc'[t] = "done"
    BY <1>4 DEF ReadProof, Goto, LogInv, DomainsKept, CallInv, OpAtStep
  <2>2. call' = [call EXCEPT ![t].proof = v]
    BY <1>4, Zenon DEF ReadProof
  <2> HIDE DEF v
  <2>3. call'[t] = [call[t] EXCEPT !.proof = v]
    BY <2>2 DEF LogInv, DomainsKept
  <2>4. SameRequest(t) /\ call'[t].old = call[t].old /\ call'[t].covers = call[t].covers
        /\ call'[t].entry = call[t].entry /\ call'[t].proof = v
    BY <2>1, <2>3, OneSet DEF SameRequest
  <2> QED BY <2>1, <2>4 DEF Moved, ProofTaken, v
<1>5. CASE NoNote(t)
  BY <1>1, <1>5 DEF NoNote
<1> QED BY <1>1, <1>2, <1>3, <1>4, <1>5 DEF Reading

LEMMA Moves ==
  ASSUME NEW t \in Threads, LogInv, Acts(t)
  PROVE  Moved(t)
<1>1. CASE Calls(t) \/ TakeLogLock(t) \/ Return(t) \/ Crash(t) \/ Reading(t)
  BY <1>1, MovedStart, MovedLock, MovedEnd, MovedRead DEF Moved
<1>2. CASE Raise(t) /\ Appends(t)
  <2>1. pc[t] # "idle" /\ Goto(t, "raise") /\ UNCHANGED call
    <3>1. pc[t] # "idle"
      BY <1>2 DEF Appends, FindsNoLog, ReadState, NoState, WriteFile, WriteFails, CheckWritten, RefuseWritten,
                Sign, RefuseSign, CheckpointTemp, CheckpointReplace, CheckpointSync, CheckpointFails
    <3> QED BY <1>2, <3>1 DEF Raise
  <2> QED BY <2>1, MovedFailure DEF Moved
<1>3. CASE FindsNoLog(t)
  BY <1>2, <1>3 DEF FindsNoLog, Appends, Goto, LogInv, DomainsKept, Moved, GoesOn, Onward
<1>4. CASE NoState(t) \/ RefuseWritten(t) \/ RefuseSign(t)
  BY <1>2, <1>4 DEF NoState, RefuseWritten, RefuseSign, Appends
<1>5. CASE WriteFails(t) \/ CheckpointFails(t)
  BY <1>5, MovedFailure DEF WriteFails, CheckpointFails, Moved
<1>6. CASE ReadState(t) \/ WriteFile(t) \/ CheckWritten(t)
  BY <1>6, MovedReadState, MovedWriteFile, MovedCheck DEF Moved
<1>7. CASE Sign(t) \/ CheckpointTemp(t) \/ CheckpointReplace(t) \/ CheckpointSync(t)
  BY <1>7 DEF Sign, CheckpointTemp, CheckpointReplace, CheckpointSync, Goto, LogInv, DomainsKept, Moved, GoesOn, Onward
<1> QED BY <1>1, <1>3, <1>4, <1>5, <1>6, <1>7 DEF Acts, Appends

-----------------------------------------------------------------------------
\* The log grows or stays; only the call that has the lock writes.
LogGrows(t) ==
  \/ LogStays
  \/ /\ lock = t /\ UNCHANGED <<durable, kept>>
     /\ file' # NoFile /\ history' \in Seq(Entries) /\ Len(history) <= Len(history')
     /\ pc[t] = "replace" /\ history' = call[t].covers
  \/ /\ lock = t /\ UNCHANGED <<file, history>>
     /\ pc[t] = "sync" /\ durable' = file /\ kept' = history

StoresNext(t) ==
  /\ pc[t] = "write" /\ lock = t /\ call[t].todo # <<>>
  /\ disk' = Stored(Head(call[t].todo).name, Head(call[t].todo).data)

Around(t) ==
  /\ OnlyBy(t) /\ damage' = damage
  /\ \A s \in Threads \ {t} : lock = s => lock' = s
  /\ pc'[t] # "idle" /\ lock = t => lock' = t
  /\ LogGrows(t)
  /\ disk' = disk \/ StoresNext(t)

LEMMA LockAround ==
  ASSUME NEW t \in Threads, LogInv, Acts(t)
  PROVE  /\ \A s \in Threads \ {t} : lock = s => lock' = s
         /\ pc'[t] # "idle" /\ lock = t => lock' = t
<1>1. CASE UNCHANGED lock
  BY <1>1
<1>2. CASE TakeLogLock(t)
  BY <1>2, NobodyAssumption DEF TakeLogLock, TakeLock
<1>3. CASE Return(t) \/ Crash(t)
  <2>1. pc'[t] = "idle"
    BY <1>3, MovedEnd DEF Ended
  <2>2. \A s \in Threads \ {t} : lock = s => lock' = s
    BY <1>3 DEF Return, Crash, ReleaseLock, KillIO
  <2> QED BY <2>1, <2>2
<1>4. CASE Calls(t) \/ Reading(t)
  BY <1>1, <1>4 DEF Calls, CreateCall, AppendCall, EntryCall, ProofCall, BundleCall, Start, ioVars,
         Reading, ReadNote, NoNote, ReadEntry, ReadProof, Raise
<1>5. CASE Appends(t)
  BY <1>1, <1>5 DEF Appends, FindsNoLog, ReadState, NoState, WriteFile, WriteFails, CheckWritten, RefuseWritten,
       Sign, RefuseSign, CheckpointTemp, CheckpointReplace, CheckpointSync, CheckpointFails, Raise, ioVars
<1> QED BY <1>2, <1>3, <1>4, <1>5 DEF Acts

LEMMA DiskAround ==
  ASSUME NEW t \in Threads, LogInv, Acts(t)
  PROVE  damage' = damage /\ (disk' = disk \/ StoresNext(t))
<1>1. CASE Calls(t) \/ TakeLogLock(t) \/ Return(t) \/ Crash(t) \/ Reading(t)
  BY <1>1 DEF Calls, CreateCall, AppendCall, EntryCall, ProofCall, BundleCall, Start, TakeLogLock,
         Return, Crash, Reading, ReadNote, NoNote, ReadEntry, ReadProof, Raise
<1>2. CASE WriteFile(t) \/ WriteFails(t)
  <2>1. pc[t] = "write" /\ call[t].todo # <<>> /\ damage' = damage
    BY <1>2 DEF WriteFile, WriteFails
  <2>2. lock = t
    BY <2>1 DEF LogInv, CallInv, HoldsLock, Writing
  <2>3. disk' = disk \/ disk' = Stored(Head(call[t].todo).name, Head(call[t].todo).data)
    BY <1>2 DEF WriteFile, WriteFails
  <2> QED BY <2>1, <2>2, <2>3 DEF StoresNext
<1>3. CASE Appends(t) /\ ~WriteFile(t) /\ ~WriteFails(t)
  BY <1>3 DEF Appends, FindsNoLog, ReadState, NoState, CheckWritten, RefuseWritten,
       Sign, RefuseSign, CheckpointTemp, CheckpointReplace, CheckpointSync, CheckpointFails, Raise
<1> QED BY <1>1, <1>2, <1>3 DEF Acts

LEMMA LogAround ==
  ASSUME LogConstants, NEW t \in Threads, LogInv, Acts(t)
  PROVE  LogGrows(t)
<1>1. CASE CheckpointReplace(t)
  <2>1. /\ pc[t] = "replace" /\ lock = t /\ CallInv(t) /\ call[t].op \in {"create", "append"}
        /\ file' = call[t].new /\ history' = call[t].covers /\ UNCHANGED <<durable, kept>>
    BY <1>1 DEF CheckpointReplace, Replace, LogInv, CallInv, OpAtStep, HoldsLock, Writing, Signing
  <2>2. \E root : file' = Checkpoint(Len(history'), root)
    BY <2>1 DEF CallInv, Covers, Signing
  <2>3. \/ \E batch \in Batches : history' = history \o batch
        \/ history' = <<>> /\ history = <<>>
    BY <2>1 DEF CallInv, OpAtStep, Covers, Signing
  <2>4. history' \in Seq(Entries) /\ Len(history) <= Len(history')
    <3>1. ASSUME NEW batch \in Batches, history' = history \o batch
          PROVE  history' \in Seq(Entries) /\ Len(history) <= Len(history')
      <4>1. history \in Seq(Entries) /\ batch \in Seq(Entries)
        BY DEF LogConstants, LogInv, Counted
      <4> QED BY <3>1, <4>1
    <3>2. CASE history' = <<>> /\ history = <<>>
      BY <3>2
    <3> QED BY <2>3, <3>1, <3>2
  <2>5. file' # NoFile
    BY <2>2, <2>4 DEF LogConstants
  <2> QED BY <2>1, <2>4, <2>5 DEF LogGrows
<1>2. CASE CheckpointSync(t)
  BY <1>2 DEF CheckpointSync, SyncDirectory, LogGrows, LogInv, CallInv, HoldsLock, Writing
<1>3. CASE ~CheckpointReplace(t) /\ ~CheckpointSync(t) /\ Appends(t)
  BY <1>3 DEF Appends, FindsNoLog, ReadState, NoState, WriteFile, WriteFails, CheckWritten, RefuseWritten,
       Sign, RefuseSign, CheckpointTemp, CheckpointFails, Raise, ioVars, LogStays, LogGrows
<1>4. CASE Calls(t) \/ Reading(t) \/ TakeLogLock(t) \/ Return(t) \/ Crash(t)
  BY <1>4 DEF Calls, CreateCall, AppendCall, EntryCall, ProofCall, BundleCall, Start, ioVars,
         Reading, ReadNote, NoNote, ReadEntry, ReadProof, Raise, TakeLogLock, Return, Crash, KillIO, LogStays, LogGrows
<1> QED BY <1>1, <1>2, <1>3, <1>4 DEF Acts

LEMMA ActsAround ==
  ASSUME LogConstants, NEW t \in Threads, LogInv, Acts(t)
  PROVE  Around(t)
<1>1. OnlyBy(t)
  BY StepsOfOne DEF Acts
<1> QED BY <1>1, LockAround, DiskAround, LogAround DEF Around

-----------------------------------------------------------------------------
(***************************************************************************)
(* Reading.  A read goes by a checkpoint of some prefix of the log, in     *)
(* which its index is; proof_bundle, which has the lock, by the last one.  *)
(***************************************************************************)
AtRead(t) == pc[t] \in {"entry", "proof"} \/ (pc[t] = "done" /\ call[t].op \in Reads)

ReadInv(t) ==
  /\ pc[t] # "idle" => call[t].index \in Nat
  /\ pc[t] \in {"absent", "lock", "state"} => call[t].written = {}
  /\ pc[t] = "entry" => call[t].op \in {"entry", "bundle"}
  /\ pc[t] = "proof" => call[t].op \in {"proof", "bundle"}
  /\ pc[t] \in {"view", "entry", "proof", "done"} /\ call[t].op = "bundle" => lock = t
  /\ AtRead(t) =>
       /\ call[t].covers \in Seq(Entries) /\ call[t].old = TreeOf(call[t].covers)
       /\ file # NoFile /\ Len(call[t].covers) <= Len(history)
       /\ call[t].index < Len(call[t].covers)
       /\ call[t].op = "bundle" => call[t].old = file

ReadsInv ==
  /\ durable # NoFile => file # NoFile
  /\ Len(kept) <= Len(history)
  /\ \A t \in Threads : ReadInv(t)

LEMMA Lengths ==
  ASSUME LogInv
  PROVE  /\ IsList(history) /\ Len(history) \in Nat /\ IsList(kept) /\ Len(kept) \in Nat
         /\ file # NoFile => file.size = Len(history)
BY SeqIsList DEF LogInv, Counted

LEMMA ReadsOfOthers ==
  ASSUME LogConstants, LogInv, ReadsInv, NEW t \in Threads, Around(t), NEW s \in Threads \ {t}
  PROVE  ReadInv(s)'
<1>1. /\ pc'[s] = pc[s] /\ call'[s] = call[s] /\ (lock = s => lock' = s) /\ ReadInv(s)
  BY DEF Around, OnlyBy, ReadsInv
<1>2. /\ file # NoFile => file' # NoFile
      /\ Len(history) <= Len(history') /\ Len(history') \in Nat /\ Len(history) \in Nat
      /\ lock = s => file' = file
  <2>1. CASE LogStays
    BY <2>1, Lengths DEF LogStays
  <2>2. CASE ~LogStays
    <3>1. lock = t
      BY <2>2 DEF Around, LogGrows
    <3> QED BY <2>2, <3>1, Lengths, SeqIsList DEF Around, LogGrows
  <2> QED BY <2>1, <2>2
<1>3. ASSUME AtRead(s)' PROVE AtRead(s)
  BY <1>1, <1>3 DEF AtRead
<1>4. ASSUME AtRead(s)
      PROVE  /\ call'[s].covers \in Seq(Entries) /\ call'[s].old = TreeOf(call'[s].covers)
             /\ file' # NoFile /\ Len(call'[s].covers) <= Len(history')
             /\ call'[s].index < Len(call'[s].covers)
  <2>1. call[s].covers \in Seq(Entries) /\ Len(call[s].covers) <= Len(history)
    BY <1>1, <1>4 DEF ReadInv
  <2>2. Len(call[s].covers) \in Nat
    BY <2>1, SeqIsList
  <2>3. Len(call[s].covers) <= Len(history')
    BY <1>2, <2>1, <2>2
  <2> QED BY <1>1, <1>2, <1>4, <2>3 DEF ReadInv
<1>5. ASSUME AtRead(s), call'[s].op = "bundle" PROVE call'[s].old = file'
  <2>1. lock = s /\ call[s].old = file
    BY <1>1, <1>5 DEF ReadInv, AtRead
  <2> QED BY <1>1, <1>2, <2>1
<1>6. /\ pc'[s] # "idle" => call'[s].index \in Nat
      /\ pc'[s] \in {"absent", "lock", "state"} => call'[s].written = {}
      /\ pc'[s] = "entry" => call'[s].op \in {"entry", "bundle"}
      /\ pc'[s] = "proof" => call'[s].op \in {"proof", "bundle"}
      /\ pc'[s] \in {"view", "entry", "proof", "done"} /\ call'[s].op = "bundle" => lock' = s
  BY <1>1 DEF ReadInv
<1> QED BY <1>3, <1>4, <1>5, <1>6 DEF ReadInv

\* The log is left alone by a call that reads.
LEMMA ReaderAround ==
  ASSUME NEW t \in Threads, Around(t), pc[t] \notin {"replace", "sync"}
  PROVE  LogStays
BY DEF Around, LogGrows

\* The call that moves.
LEMMA ReadGoesOn ==
  ASSUME LogInv, ReadsInv, NEW t \in Threads, Around(t), EntryTaken(t) \/ ProofTaken(t)
  PROVE  ReadInv(t)'
<1>1. pc[t] \in {"entry", "proof"} /\ pc'[t] # "idle" /\ call[t].op \in Reads
  BY DEF EntryTaken, ProofTaken, LogInv, CallInv, OpAtStep
<1>2. ReadInv(t) /\ AtRead(t) /\ LogStays
  BY <1>1, ReaderAround DEF ReadsInv, AtRead
<1>3. /\ call'[t].op = call[t].op /\ call'[t].index = call[t].index /\ call'[t].old = call[t].old
      /\ call'[t].covers = call[t].covers
      /\ pc'[t] \in {"proof", "done"} /\ (pc'[t] = "proof" => call[t].op = "bundle")
      /\ lock = t => lock' = t
  BY <1>1 DEF EntryTaken, ProofTaken, SameRequest, Around
<1> QED BY <1>1, <1>2, <1>3 DEF ReadInv, AtRead, LogStays

LEMMA NoteIsTree ==
  ASSUME LogInv, TreeInv, ReadsInv, NEW t \in Threads, Around(t), Noted(t)
  PROVE  ReadInv(t)'
<1>1. pc[t] = "view" /\ LogStays /\ ReadInv(t) /\ call[t].op \in Reads
  BY ReaderAround DEF Noted, ReadsInv, LogInv, CallInv, OpAtStep
<1>2. /\ call'[t].op = call[t].op /\ call'[t].index = call[t].index /\ call'[t].old = file
      /\ call'[t].covers = history /\ file # NoFile /\ call[t].index < file.size
      /\ pc'[t] \in {"entry", "proof"} /\ (pc'[t] = "entry" => call[t].op \in {"entry", "bundle"})
      /\ pc'[t] = "proof" => call[t].op = "proof"
      /\ lock = t => lock' = t
  BY <1>1 DEF Noted, SameRequest, Around, Reads
<1>3. file = TreeOf(history) /\ history \in Seq(Entries) /\ file.size = Len(history) /\ Len(history) \in Nat
  BY <1>2, Lengths DEF TreeInv, CheckpointIsTree, LogInv, Counted
<1> QED BY <1>1, <1>2, <1>3 DEF ReadInv, AtRead, LogStays

LEMMA ReadOfOne ==
  ASSUME LogInv, TreeInv, ReadsInv, NEW t \in Threads, Around(t), Moved(t)
  PROVE  ReadInv(t)'
<1>1. ReadInv(t)
  BY DEF ReadsInv
<1>2. CASE Begun(t)
  BY <1>2 DEF Begun, ReadInv, AtRead
<1>3. CASE Ended(t)
  BY <1>3 DEF Ended, ReadInv, AtRead
<1>4. CASE Failed(t)
  BY <1>1, <1>4 DEF Failed, ReadInv, AtRead
<1>5. CASE GoesOn(t)
  <2>1. /\ call'[t] = call[t] /\ pc[t] # "idle" /\ pc'[t] \in {"lock", "state", "view", "temp", "replace", "sync", "done"}
        /\ pc'[t] \in {"lock", "state"} => pc[t] \in {"absent", "lock"}
        /\ pc'[t] = "view" => lock' = t
        /\ pc'[t] = "done" => pc[t] = "sync"
    BY <1>5 DEF GoesOn, Onward
  <2>2. pc[t] = "sync" => call[t].op \in {"create", "append"}
    BY DEF LogInv, CallInv, OpAtStep, Writing
  <2> QED BY <1>1, <2>1, <2>2 DEF ReadInv, AtRead, Reads
<1>6. CASE Created(t) \/ Loaded(t) \/ Wrote(t) \/ Checked(t)
  <2>1. pc[t] # "idle" /\ pc'[t] \in {"sign", "write"} /\ call'[t].index = call[t].index
    BY <1>6 DEF Created, Loaded, Wrote, Checked, SameRequest
  <2> QED BY <1>1, <2>1 DEF ReadInv, AtRead
<1>7. CASE Noted(t) \/ EntryTaken(t) \/ ProofTaken(t)
  BY <1>7, ReadGoesOn, NoteIsTree
<1> QED BY <1>2, <1>3, <1>4, <1>5, <1>6, <1>7 DEF Moved

LEMMA ReadsStep ==
  ASSUME LogConstants, LogInv, TreeInv, ReadsInv, [Next]_vars
  PROVE  ReadsInv'
<1>1. CASE UNCHANGED <<ioVars, pc, call, history, kept>>
  BY <1>1 DEF ReadsInv, ReadInv, AtRead, ioVars
<1>2. CASE PowerLoss
  <2>1. /\ file' \in {file, durable} /\ durable' = file' /\ kept' = history'
        /\ history' = IF file' = file THEN history ELSE kept
        /\ \A t \in Threads : pc'[t] = "idle"
    BY <1>2 DEF PowerLoss, PowerLossIO
  <2>2. Len(kept') <= Len(history')
    BY <2>1, Lengths
  <2> QED BY <2>1, <2>2 DEF ReadsInv, ReadInv, AtRead
<1>3. ASSUME NEW t \in Threads, Acts(t) PROVE ReadsInv'
  <2>1. Around(t) /\ Moved(t)
    BY <1>3, ActsAround, Moves
  <2>2. \A s \in Threads : ReadInv(s)'
    BY <2>1, ReadsOfOthers, ReadOfOne
  <2>3. (durable' # NoFile => file' # NoFile) /\ Len(kept') <= Len(history')
    <3>1. (durable # NoFile => file # NoFile) /\ Len(kept) <= Len(history)
      BY DEF ReadsInv
    <3>2. CASE LogStays
      BY <3>1, <3>2 DEF LogStays
    <3>3. CASE /\ UNCHANGED <<durable, kept>> /\ file' # NoFile
               /\ history' \in Seq(Entries) /\ Len(history) <= Len(history')
      BY <3>1, <3>3, Lengths, SeqIsList
    <3>4. CASE UNCHANGED <<file, history>> /\ durable' = file /\ kept' = history
      BY <3>4, Lengths
    <3> QED BY <2>1, <3>2, <3>3, <3>4 DEF Around, LogGrows
  <2> QED BY <2>2, <2>3 DEF ReadsInv
<1>4. CASE \E name \in DOMAIN disk : Spoil(name)
  BY <1>1, <1>4 DEF Spoil
<1> QED BY <1>1, <1>2, <1>3, <1>4 DEF Next, vars, Acts

LEMMA ReadsInit ==
  ASSUME Init
  PROVE  ReadsInv
BY DEF Init, ReadsInv, ReadInv, AtRead

-----------------------------------------------------------------------------
(***************************************************************************)
(* The directory.  Nothing being damaged, it holds every file of the log   *)
(* the checkpoint covers, of the one a power loss leaves, and of those     *)
(* that reads go by; and, of the log that an append makes, the files that  *)
(* it has not still to write (Pend).                                       *)
(***************************************************************************)
Pend(c) ==
  /\ \A name : IsFile(name, Len(c.covers)) =>
       \/ name \in DOMAIN disk /\ Holding(disk[name], name, c.covers)
       \/ \E x : Among(x, c.todo) /\ x.name = name
  /\ \A x : Among(x, c.todo) => Owed(x, c.covers)
  /\ \A w \in c.written : Owed(w, c.covers) /\ w.name \in DOMAIN disk /\ disk[w.name] = w.data

CallHeld(t) ==
  /\ pc[t] = "write" => Pend(call[t])
  /\ pc[t] \in Signing => Holds(disk, call[t].covers)
  /\ AtRead(t) => Holds(disk, call[t].covers)

LogHeld ==
  /\ file # NoFile => Holds(disk, history)
  /\ durable # NoFile => Holds(disk, kept)

HeldInv == damage = 0 => LogHeld /\ \A t \in Threads : CallHeld(t)

LEMMA HoldsStay ==
  ASSUME CoveredKept, damage' = damage, file # NoFile, file.size \in Nat,
         NEW e, IsList(e), Len(e) <= file.size, Holds(disk, e)
  PROVE  Holds(disk', e)
<1>1. Len(e) \in Nat
  BY ListLen
<1> SUFFICES ASSUME NEW name, IsFile(name, Len(e))
             PROVE  name \in DOMAIN disk' /\ Holding(disk'[name], name, e)
  BY DEF Holds
<1>2. name \in DOMAIN disk /\ Holding(disk[name], name, e)
  BY DEF Holds
<1>3. name.n * TileWidth \in Nat /\ name.width \in 1..TileWidth /\ CoveredBy(name, Len(e)) /\ name.level \in Nat
  BY <1>1, FileIs DEF IsFile
<1>4. /\ LevelCount(Len(e), name.level) <= LevelCount(file.size, name.level)
      /\ LevelCount(Len(e), name.level) \in Nat /\ LevelCount(file.size, name.level) \in Nat
  BY <1>1, <1>3, LevelCounts
<1>5. CoveredBy(name, file.size)
  <2> DEFINE x == name.n * TileWidth
             low == LevelCount(Len(e), name.level)
             high == LevelCount(file.size, name.level)
  <2>0. x + name.width <= low
    BY <1>3, Zenon DEF CoveredBy
  <2>1. x \in Nat /\ name.width \in 1..TileWidth /\ low \in Nat /\ high \in Nat /\ low <= high
    BY <1>3, <1>4, Zenon
  <2>3. TileWidth \in Nat
    BY Units
  <2> HIDE DEF x, low, high
  <2>2. x + name.width <= high
    BY <2>0, <2>1, <2>3
  <2> QED BY <2>2, Zenon DEF CoveredBy, x, high
<1>6. disk'[name] = disk[name] /\ name \in DOMAIN disk'
  BY <1>2, <1>5 DEF CoveredKept
<1> QED BY <1>2, <1>6

LEMMA HeldOfOthers ==
  ASSUME LogInv, ReadsInv, CoveredKept, damage = 0, HeldInv, NEW t \in Threads, Around(t),
         NEW s \in Threads \ {t}
  PROVE  CallHeld(s)'
<1>1. pc'[s] = pc[s] /\ call'[s] = call[s] /\ CallHeld(s) /\ damage' = damage
  BY DEF Around, OnlyBy, HeldInv
<1>2. ASSUME pc[s] \in {"write"} \cup Signing PROVE disk' = disk
  <2>1. lock = s
    BY <1>2 DEF LogInv, CallInv, HoldsLock, Writing, Signing
  <2> QED BY <2>1 DEF Around, StoresNext
<1>3. ASSUME AtRead(s) PROVE Holds(disk', call[s].covers)
  <2>1. /\ call[s].covers \in Seq(Entries) /\ file # NoFile /\ Len(call[s].covers) <= Len(history)
        /\ Holds(disk, call[s].covers)
    BY <1>1, <1>3 DEF ReadsInv, ReadInv, CallHeld
  <2>2. IsList(call[s].covers) /\ file.size = Len(history) /\ file.size \in Nat
    BY <2>1, SeqIsList, Lengths
  <2> QED BY <1>1, <2>1, <2>2, HoldsStay
<1>4. pc'[s] = "write" => Pend(call[s])'
  BY <1>1, <1>2 DEF CallHeld, Pend
<1>5. pc'[s] \in Signing => Holds(disk', call'[s].covers)
  BY <1>1, <1>2 DEF CallHeld
<1>6. AtRead(s)' => Holds(disk', call'[s].covers)
  BY <1>1, <1>3 DEF AtRead
<1> QED BY <1>4, <1>5, <1>6 DEF CallHeld

LEMMA HeldLoaded ==
  ASSUME LogConstants, LogInv, ReadsInv, damage = 0, HeldInv, NEW t \in Threads, Around(t), Loaded(t)
  PROVE  Pend(call[t])'
<1> DEFINE b == call[t].batch
           f == history \o b
           todo == Writes(disk, Len(history), b)
<1>1. /\ file # NoFile /\ IsList(history) /\ IsList(b) /\ file.size = Len(history)
      /\ call'[t].todo = Writes(disk, file.size, b) /\ call'[t].covers = f
      /\ call'[t].written = call[t].written
  BY StateRead, SeqIsList DEF Loaded
<1>2. disk' = disk /\ call[t].written = {} /\ Holds(disk, history)
  BY <1>1 DEF Loaded, Around, StoresNext, ReadsInv, ReadInv, HeldInv, LogHeld
<1>3. /\ \A x : Among(x, todo) => Owed(x, f)
      /\ \A name : IsFile(name, Len(f)) /\ ~IsFile(name, Len(history)) => \E x : Among(x, todo) /\ x.name = name
  <2> HIDE DEF b
  <2>1. IsList(history) /\ IsList(b) /\ Holds(disk, history)
    BY <1>1, <1>2
  <2>2. \A x : Among(x, todo) => Owed(x, f)
    BY <2>1, WritesAreRight
  <2>3. \A name : IsFile(name, Len(f)) /\ ~IsFile(name, Len(history)) => \E x : Among(x, todo) /\ x.name = name
    BY <2>1, WritesAreRight
  <2> QED BY <2>2, <2>3
<1>4. call'[t].todo = todo
  BY <1>1
<1>5. Grown(history, f)
  BY <1>1, Together
<1> HIDE DEF todo, f, b
<1>6. ASSUME NEW name, IsFile(name, Len(f)), IsFile(name, Len(history))
      PROVE  name \in DOMAIN disk /\ Holding(disk[name], name, f)
  <2>1. name \in DOMAIN disk /\ Holding(disk[name], name, history)
    BY <1>2, <1>6 DEF Holds
  <2> QED BY <1>5, <1>6, <2>1, HoldingStays DEF Grown
<1> QED BY <1>1, <1>2, <1>3, <1>4, <1>6 DEF Pend

LEMMA HeldWrote ==
  ASSUME LogInv, WritesInv, damage = 0, HeldInv, NEW t \in Threads, Wrote(t)
  PROVE  Pend(call[t])'
<1> DEFINE c == call[t]
           next == Head(c.todo)
           f == c.covers
           todo == Tail(c.todo)
<1>1. /\ pc[t] = "write" /\ c.todo # <<>> /\ disk' = Stored(next.name, next.data)
      /\ call'[t].covers = f /\ call'[t].todo = todo /\ call'[t].written = c.written \cup {next}
  BY FileWritten DEF Wrote
<1>2. Pend(c) /\ IsList(c.todo)
  BY <1>1 DEF HeldInv, CallHeld, WritesInv, Ahead
<1>3. \A x : Among(x, c.todo) <=> x = next \/ Among(x, todo)
  <2>1. /\ IsList(todo) /\ next = c.todo[1] /\ Len(c.todo) > 0 /\ Len(todo) = Len(c.todo) - 1
        /\ \A i \in 1..(Len(c.todo) - 1) : todo[i] = c.todo[i + 1]
        /\ Len(c.todo) \in Nat
    BY <1>1, <1>2, TailIs, ListLen
  <2> HIDE DEF todo, next, c
  <2>2. ASSUME NEW x, Among(x, c.todo) PROVE x = next \/ Among(x, todo)
    <3>1. PICK i \in 1..Len(c.todo) : c.todo[i] = x
      BY <2>2 DEF Among
    <3>2. CASE i = 1
      BY <2>1, <3>1, <3>2
    <3>3. CASE i # 1
      <4>1. i - 1 \in 1..Len(todo) /\ todo[i - 1] = c.todo[(i - 1) + 1] /\ (i - 1) + 1 = i
        BY <2>1, <3>1, <3>3
      <4> QED BY <3>1, <4>1 DEF Among
    <3> QED BY <3>2, <3>3
  <2>3. ASSUME NEW x, x = next \/ Among(x, todo) PROVE Among(x, c.todo)
    <3>1. CASE x = next
      BY <2>1, <3>1 DEF Among
    <3>2. CASE Among(x, todo)
      <4>1. PICK i \in 1..Len(todo) : todo[i] = x
        BY <3>2 DEF Among
      <4>2. i + 1 \in 1..Len(c.todo) /\ c.todo[i + 1] = x
        BY <2>1, <4>1
      <4> QED BY <4>2 DEF Among
    <3> QED BY <2>3, <3>1, <3>2
  <2> QED BY <2>2, <2>3
<1>4. Owed(next, f)
  BY <1>2, <1>3 DEF Pend
<1>5. /\ next.name \in DOMAIN disk' /\ disk'[next.name] = next.data
      /\ \A name \in DOMAIN disk : name # next.name => name \in DOMAIN disk' /\ disk'[name] = disk[name]
  BY <1>1 DEF Stored
<1> HIDE DEF next, todo, f
<1>6. ASSUME NEW name, IsFile(name, Len(f))
      PROVE  \/ name \in DOMAIN disk' /\ Holding(disk'[name], name, f)
             \/ \E x : Among(x, todo) /\ x.name = name
  <2>1. CASE name = next.name
    BY <1>4, <1>5, <2>1 DEF Owed
  <2>2. CASE name # next.name
    <3>1. \/ name \in DOMAIN disk /\ Holding(disk[name], name, f)
          \/ \E x : Among(x, c.todo) /\ x.name = name
      BY <1>2, <1>6 DEF Pend, f
    <3> QED BY <1>3, <1>5, <2>2, <3>1
  <2> QED BY <2>1, <2>2
<1>7. ASSUME NEW w \in c.written \cup {next}
      PROVE  Owed(w, f) /\ w.name \in DOMAIN disk' /\ disk'[w.name] = w.data
  <2>1. CASE w = next
    BY <1>4, <1>5, <2>1
  <2>2. CASE w \in c.written
    <3>1. Owed(w, f) /\ w.name \in DOMAIN disk /\ disk[w.name] = w.data
      BY <1>2, <2>2 DEF Pend, f
    <3>2. CASE w.name = next.name
      <4>1. w.data = next.data
        BY <1>4, <3>1, <3>2, SameFiles DEF Owed
      <4> QED BY <1>5, <3>1, <3>2, <4>1
    <3>3. CASE w.name # next.name
      BY <1>5, <3>1, <3>3
    <3> QED BY <3>2, <3>3
  <2> QED BY <1>7, <2>1, <2>2
<1>8. \A x : Among(x, todo) => Owed(x, f)
  BY <1>2, <1>3 DEF Pend, f
<1> QED BY <1>1, <1>6, <1>7, <1>8 DEF Pend

LEMMA HeldOfOne ==
  ASSUME LogConstants, LogInv, WritesInv, ReadsInv, damage = 0, HeldInv, NEW t \in Threads, Around(t), Moved(t)
  PROVE  CallHeld(t)'
<1>1. CallHeld(t) /\ LogHeld
  BY DEF HeldInv
<1>2. CASE Begun(t) \/ Ended(t) \/ Failed(t)
  BY <1>2 DEF Begun, Ended, Failed, CallHeld, AtRead, Signing
<1>3. CASE GoesOn(t)
  <2>1. /\ call'[t] = call[t] /\ pc[t] # "write"
        /\ pc'[t] \in {"lock", "state", "view", "temp", "replace", "sync", "done"}
        /\ pc'[t] \in {"temp", "replace"} => pc[t] \in Signing
        /\ pc'[t] = "done" => pc[t] = "sync"
    BY <1>3 DEF GoesOn, Onward, Signing
  <2>2. pc[t] = "sync" => call[t].op \in {"create", "append"}
    BY DEF LogInv, CallInv, OpAtStep, Writing
  <2>3. disk' = disk
    BY <2>1 DEF Around, StoresNext
  <2> QED BY <1>1, <2>1, <2>2, <2>3 DEF CallHeld, AtRead, Signing, Reads
<1>4. CASE Created(t)
  <2>1. pc'[t] = "sign" /\ call'[t].covers = <<>>
    BY <1>4 DEF Created, LogInv, CallInv, Covers
  <2>2. Holds(disk', <<>>)
    BY EmptyHolds
  <2> QED BY <2>1, <2>2 DEF CallHeld, AtRead, Signing
<1>5. CASE Loaded(t)
  <2>1. pc'[t] = "write" /\ Pend(call[t])'
    BY <1>5, HeldLoaded DEF Loaded
  <2> QED BY <2>1 DEF CallHeld, AtRead, Signing
<1>6. CASE Wrote(t)
  <2>1. pc'[t] = "write" /\ Pend(call[t])'
    BY <1>6, HeldWrote DEF Wrote
  <2> QED BY <2>1 DEF CallHeld, AtRead, Signing
<1>7. CASE Checked(t)
  <2>1. /\ pc[t] = "write" /\ pc'[t] = "sign" /\ call[t].todo = <<>> /\ call'[t].covers = call[t].covers
        /\ disk' = disk
    BY <1>7 DEF Checked, Around, StoresNext
  <2>2. \A x : ~Among(x, call[t].todo)
    BY <2>1 DEF Among
  <2>3. Holds(disk, call[t].covers)
    BY <1>1, <2>1, <2>2 DEF CallHeld, Pend, Holds
  <2> QED BY <2>1, <2>3 DEF CallHeld, AtRead, Signing
<1>8. CASE Noted(t)
  <2>1. /\ pc'[t] \in {"entry", "proof"} /\ call'[t].covers = history /\ disk' = disk /\ Holds(disk, history)
    BY <1>1, <1>8 DEF Noted, Around, StoresNext, LogHeld
  <2> QED BY <2>1 DEF CallHeld, AtRead, Signing
<1>9. CASE EntryTaken(t) \/ ProofTaken(t)
  <2>1. /\ AtRead(t) /\ disk' = disk /\ call'[t].covers = call[t].covers /\ pc'[t] \in {"proof", "done"}
    BY <1>9 DEF EntryTaken, ProofTaken, AtRead, Around, StoresNext
  <2> QED BY <1>1, <2>1 DEF CallHeld, AtRead, Signing
<1> QED BY <1>2, <1>3, <1>4, <1>5, <1>6, <1>7, <1>8, <1>9 DEF Moved

LEMMA LogStaysHeld ==
  ASSUME LogInv, ReadsInv, CoveredKept, damage = 0, HeldInv, NEW t \in Threads, Around(t)
  PROVE  LogHeld'
<1>1. LogHeld /\ damage' = damage /\ CallHeld(t)
  BY DEF HeldInv, Around
<1>2. ASSUME file # NoFile PROVE Holds(disk', history)
  BY <1>1, <1>2, Lengths, HoldsStay DEF LogHeld
<1>3. ASSUME durable # NoFile PROVE Holds(disk', kept)
  <2>1. file # NoFile /\ Len(kept) <= Len(history)
    BY <1>3 DEF ReadsInv
  <2> QED BY <1>1, <1>3, <2>1, Lengths, HoldsStay DEF LogHeld
<1>4. CASE LogStays
  BY <1>2, <1>3, <1>4 DEF LogHeld, LogStays
<1>5. CASE /\ UNCHANGED <<durable, kept>> /\ pc[t] = "replace" /\ history' = call[t].covers
  <2>1. disk' = disk /\ Holds(disk, call[t].covers)
    BY <1>1, <1>5 DEF Around, StoresNext, CallHeld, Signing
  <2> QED BY <1>3, <1>5, <2>1 DEF LogHeld
<1>6. CASE UNCHANGED <<file, history>> /\ durable' = file /\ kept' = history
  BY <1>2, <1>6 DEF LogHeld
<1> QED BY <1>4, <1>5, <1>6 DEF Around, LogGrows

LEMMA HeldStep ==
  ASSUME LogConstants, LogInv, TreeInv, WritesInv, ReadsInv, HeldInv, [Next]_vars
  PROVE  HeldInv'
<1> SUFFICES ASSUME damage' = 0 PROVE LogHeld' /\ \A t \in Threads : CallHeld(t)'
  BY DEF HeldInv
<1>1. [CoveredKept]_vars
  BY CoveredStep
<1>2. CASE UNCHANGED vars
  BY <1>2 DEF vars, ioVars, HeldInv, LogHeld, CallHeld, Pend, AtRead
<1>3. CASE PowerLoss
  <2>1. /\ file' \in {file, durable} /\ durable' = file' /\ kept' = history'
        /\ history' = IF file' = file THEN history ELSE kept
        /\ UNCHANGED <<disk, damage>> /\ \A t \in Threads : pc'[t] = "idle"
    BY <1>3 DEF PowerLoss, PowerLossIO
  <2>2. LogHeld
    BY <2>1 DEF HeldInv
  <2>3. LogHeld'
    BY <2>1, <2>2 DEF LogHeld
  <2> QED BY <2>1, <2>3 DEF CallHeld, AtRead, Signing
<1>4. ASSUME NEW t \in Threads, Acts(t) PROVE LogHeld' /\ \A s \in Threads : CallHeld(s)'
  <2>1. Around(t) /\ Moved(t)
    BY <1>4, ActsAround, Moves
  <2>2. damage = 0
    BY <2>1 DEF Around
  <2>3. CoveredKept
    <3>1. CASE UNCHANGED vars
      BY <3>1 DEF vars, CoveredKept
    <3> QED BY <1>1, <3>1
  <2> QED BY <2>1, <2>2, <2>3, HeldOfOthers, HeldOfOne, LogStaysHeld
<1>5. CASE \E name \in DOMAIN disk : Spoil(name)
  <2>1. damage' = damage + 1 /\ damage \in Nat
    BY <1>5 DEF Spoil, WritesInv
  <2> QED BY <2>1
<1> QED BY <1>2, <1>3, <1>4, <1>5 DEF Next, Acts

LEMMA HeldInit ==
  ASSUME Init
  PROVE  HeldInv
BY DEF Init, HeldInv, LogHeld, CallHeld, AtRead, Signing

-----------------------------------------------------------------------------
(***************************************************************************)
(* What a read has found so far.                                           *)
(***************************************************************************)
PathIn(c) == PathOf(Mth(Hashes(c.covers)), c.index, 0, Len(c.covers))

Found(t) ==
  /\ \/ pc[t] = "done" /\ call[t].op = "entry"
     \/ pc[t] \in {"proof", "done"} /\ call[t].op = "bundle"
     => call[t].entry = call[t].covers[call[t].index + 1]
  /\ pc[t] = "done" /\ call[t].op \in {"proof", "bundle"} => call[t].proof = PathIn(call[t])

FoundInv == damage = 0 => \A t \in Threads : Found(t)

LEMMA ViewIsRead ==
  ASSUME LogInv, ReadsInv, damage = 0, HeldInv, NEW t \in Threads, AtRead(t)
  PROVE  LET c == call[t] IN
         /\ ViewSize(t) = Len(c.covers) /\ IsList(c.covers) /\ Holds(disk, c.covers)
         /\ c.index \in Nat /\ c.index < Len(c.covers)
         /\ Old(t) = Len(c.covers) /\ c.old.root = MerkleRoot(Hashes(c.covers))
<1> DEFINE e == call[t].covers
<1>1. /\ e \in Seq(Entries) /\ call[t].old = TreeOf(e) /\ call[t].index \in Nat /\ call[t].index < Len(e)
      /\ call[t].op = "bundle" => call[t].old = file
      /\ Holds(disk, e)
  BY DEF ReadsInv, ReadInv, HeldInv, CallHeld, AtRead
<1>2. IsList(e)
  BY <1>1, SeqIsList
<1>3. call[t].old.size = Len(e) /\ call[t].old.root = MerkleRoot(Hashes(e))
  <2> HIDE DEF e
  <2> QED BY <1>1 DEF TreeOf, Checkpoint
<1> QED BY <1>1, <1>2, <1>3 DEF ViewSize, Old

LEMMA FoundOfOne ==
  ASSUME LogInv, ReadsInv, damage = 0, HeldInv, FoundInv, NEW t \in Threads, Around(t), Moved(t)
  PROVE  Found(t)'
<1>1. Found(t)
  BY DEF FoundInv
<1>2. CASE EntryTaken(t)
  <2>1. AtRead(t)
    BY <1>2 DEF EntryTaken, AtRead
  <2>2. EntryAt(ViewSize(t), call[t].index) = call[t].covers[call[t].index + 1]
    <3> DEFINE e == call[t].covers
               i == call[t].index
    <3>1. ViewSize(t) = Len(e) /\ IsList(e) /\ Holds(disk, e) /\ i \in Nat /\ i < Len(e)
      BY <2>1, ViewIsRead
    <3> HIDE DEF e, i
    <3>2. EntryAt(Len(e), i) = e[i + 1]
      BY <3>1, EntryIs
    <3> QED BY <3>1, <3>2 DEF e, i
  <2>3. /\ call'[t].entry = call[t].covers[call[t].index + 1] /\ call'[t].covers = call[t].covers
        /\ call'[t].index = call[t].index /\ call'[t].op = call[t].op
        /\ pc'[t] = IF call[t].op = "bundle" THEN "proof" ELSE "done"
    BY <1>2, <2>2 DEF EntryTaken, SameRequest
  <2>4. call[t].op # "proof"
    BY <1>2 DEF EntryTaken, ReadsInv, ReadInv
  <2> QED BY <2>3, <2>4 DEF Found
<1>3. CASE ProofTaken(t)
  <2>1. AtRead(t)
    BY <1>3 DEF ProofTaken, AtRead
  <2>2. PathOf(ViewMth(disk, ViewSize(t)), call[t].index, 0, ViewSize(t)) = PathIn(call[t])
    <3> DEFINE e == call[t].covers
               i == call[t].index
    <3>1. ViewSize(t) = Len(e) /\ IsList(e) /\ Holds(disk, e) /\ i \in Nat
      BY <2>1, ViewIsRead
    <3> HIDE DEF e, i
    <3>2. PathOf(ViewMth(disk, Len(e)), i, 0, Len(e)) = PathOf(Mth(Hashes(e)), i, 0, Len(e))
      BY <3>1, ProofIs
    <3> QED BY <3>1, <3>2 DEF e, i, PathIn
  <2>3. /\ call'[t].proof = PathIn(call[t]) /\ call'[t].covers = call[t].covers
        /\ call'[t].index = call[t].index /\ call'[t].op = call[t].op /\ call'[t].entry = call[t].entry
        /\ pc[t] = "proof" /\ pc'[t] = "done"
    BY <1>3, <2>2 DEF ProofTaken, SameRequest
  <2>4. PathIn(call'[t]) = PathIn(call[t])
    BY <2>3 DEF PathIn
  <2>5. call[t].op # "entry"
    BY <1>3 DEF ProofTaken, ReadsInv, ReadInv
  <2> QED BY <1>1, <2>3, <2>4, <2>5 DEF Found
<1>4. CASE ~EntryTaken(t) /\ ~ProofTaken(t)
  <2>1. \/ pc'[t] \notin {"proof", "done"}
        \/ pc[t] = "sync" /\ call'[t] = call[t]
        \/ pc[t] = "view" /\ pc'[t] = "proof" /\ call[t].op = "proof" /\ call'[t].op = call[t].op
    <3>1. CASE Noted(t)
      BY <3>1 DEF Noted, SameRequest
    <3>2. CASE GoesOn(t)
      BY <3>2 DEF GoesOn, Onward
    <3> QED BY <1>4, <3>1, <3>2 DEF Moved, Begun, Ended, Failed, Created, Loaded, Wrote, Checked
  <2>2. pc[t] = "sync" => call[t].op \in {"create", "append"}
    BY DEF LogInv, CallInv, OpAtStep, Writing
  <2> QED BY <2>1, <2>2 DEF Found
<1> QED BY <1>2, <1>3, <1>4

LEMMA FoundStep ==
  ASSUME LogConstants, LogInv, WritesInv, ReadsInv, HeldInv, FoundInv, [Next]_vars
  PROVE  FoundInv'
<1> SUFFICES ASSUME damage' = 0 PROVE \A t \in Threads : Found(t)'
  BY DEF FoundInv
<1>1. CASE UNCHANGED <<pc, call, damage>>
  BY <1>1 DEF FoundInv, Found
<1>2. CASE PowerLoss
  BY <1>2 DEF PowerLoss, Found
<1>3. ASSUME NEW t \in Threads, Acts(t) PROVE \A s \in Threads : Found(s)'
  <2>1. Around(t) /\ Moved(t)
    BY <1>3, ActsAround, Moves
  <2>2. damage = 0
    BY <2>1 DEF Around
  <2>3. \A s \in Threads \ {t} : Found(s)'
    BY <2>1, <2>2 DEF Around, OnlyBy, FoundInv, Found
  <2> QED BY <2>1, <2>2, <2>3, FoundOfOne
<1>4. CASE \E name \in DOMAIN disk : Spoil(name)
  <2>1. damage' = damage + 1 /\ damage \in Nat
    BY <1>4 DEF Spoil, WritesInv
  <2> QED BY <2>1
<1> QED BY <1>1, <1>2, <1>3, <1>4 DEF Next, Acts, vars

LEMMA FoundInit ==
  ASSUME Init
  PROVE  FoundInv
BY DEF Init, FoundInv, Found

-----------------------------------------------------------------------------
\* The invariants together.
DirInv == LogInv /\ TreeInv /\ WritesInv /\ ReadsInv /\ HeldInv /\ FoundInv

LEMMA DirInvAlways ==
  ASSUME LogConstants
  PROVE  Spec => []DirInv
<1>1. Init => DirInv
  <2>1. Init => TreeInv /\ WritesInv
    BY DEF Init, TreeInv, CheckpointIsTree, SigningIsTree, Signing, WritesInv
  <2> QED BY <2>1, LogInit, ReadsInit, HeldInit, FoundInit DEF DirInv
<1>2. DirInv /\ [Next]_vars => DirInv'
  <2> SUFFICES ASSUME DirInv, [Next]_vars PROVE DirInv'
    OBVIOUS
  <2>1. LogInv' /\ TreeInv' /\ WritesInv'
    BY LogStep, TreeStep, WritesStep DEF DirInv
  <2>2. ReadsInv' /\ HeldInv' /\ FoundInv'
    BY ReadsStep, HeldStep, FoundStep DEF DirInv
  <2> QED BY <2>1, <2>2 DEF DirInv
<1> QED BY <1>1, <1>2, PTL DEF Spec

LEMMA ProofAccepted ==
  ASSUME LogInv, ReadsInv, damage = 0, HeldInv, NEW t \in Threads, AtRead(t), call[t].proof = PathIn(call[t])
  PROVE  Proves(t, call[t].covers[call[t].index + 1], call[t].proof)
<1> DEFINE e == call[t].covers
           i == call[t].index
<1>1. /\ IsList(e) /\ i \in Nat /\ i < Len(e) /\ Old(t) = Len(e) /\ call[t].old.root = MerkleRoot(Hashes(e))
  BY ViewIsRead
<1> HIDE DEF e, i
<1>2. VerifyInclusion(leaf_hash(e[i + 1]), i, Len(e), PathOf(Mth(Hashes(e)), i, 0, Len(e)), MerkleRoot(Hashes(e)))
  BY <1>1, ProofVerifies
<1>3. call[t].proof = PathOf(Mth(Hashes(e)), i, 0, Len(e))
  BY DEF PathIn, e, i
<1>4. VerifyInclusion(leaf_hash(e[i + 1]), i, Old(t), call[t].proof, call[t].old.root)
  BY <1>1, <1>2, <1>3
<1> QED BY <1>4 DEF Proves, e, i

(***************************************************************************)
(* Reads without the lock are of the checkpoint they began with, and what  *)
(* they return verifies against it, as does what a proof bundle has, while *)
(* appends rewrite the files around them and whatever stopped appends left *)
(* there (entry, inclusion_proof, proof_bundle, verify_bundle).            *)
(***************************************************************************)
THEOREM ReadsOfLogVerify ==
  ASSUME LogConstants
  PROVE  Spec => []ReadsVerify
<1>1. DirInv => ReadsVerify
  <2> SUFFICES ASSUME DirInv, damage = 0, NEW t \in Threads, pc[t] = "done"
               PROVE  /\ call[t].op = "entry" => call[t].entry = call[t].covers[call[t].index + 1]
                      /\ call[t].op = "proof" => Proves(t, call[t].covers[call[t].index + 1], call[t].proof)
                      /\ call[t].op = "bundle" => Proves(t, call[t].entry, call[t].proof)
    BY DEF ReadsVerify, ReadsAreRight, BundleVerifies
  <2>1. Found(t) /\ LogInv /\ ReadsInv /\ HeldInv
    BY DEF DirInv, FoundInv
  <2>2. ASSUME call[t].op \in {"proof", "bundle"}
        PROVE  Proves(t, call[t].covers[call[t].index + 1], call[t].proof)
    <3>1. AtRead(t) /\ call[t].proof = PathIn(call[t])
      BY <2>1, <2>2 DEF AtRead, Reads, Found
    <3> QED BY <2>1, <3>1, ProofAccepted
  <2> QED BY <2>1, <2>2 DEF Found
<1> QED BY <1>1, DirInvAlways, PTL

-----------------------------------------------------------------------------
(***************************************************************************)
(* The directory verifies, and is the log if it does.                      *)
(***************************************************************************)
EntriesAreRead == Missing \notin Entries

LEMMA HistoryIsRead ==
  ASSUME EntriesAreRead, NEW e \in Seq(Entries)
  PROVE  \A i \in 1..Len(e) : e[i] # Missing
BY DEF EntriesAreRead

LEMMA DirectoryVerifies ==
  ASSUME EntriesAreRead, DirInv
  PROVE  LogDirVerifies
<1> SUFFICES ASSUME file # NoFile, damage = 0 PROVE VerifyLogDir(disk, file) /\ EntriesKept
  BY DEF LogDirVerifies
<1>1. /\ IsList(history) /\ Holds(disk, history) /\ file = TreeOf(history) /\ file.size = Len(history)
      /\ \A i \in 1..Len(history) : history[i] # Missing
  BY Lengths, HistoryIsRead DEF DirInv, HeldInv, LogHeld, TreeInv, CheckpointIsTree, LogInv, Counted
<1>2. /\ VerifyLogDir(disk, TreeOf(history))
      /\ \A n \in 1..FilesIn(Len(history), 0) : EntriesAt(disk, Len(history), n - 1) = Chunks(history)[n]
  BY <1>1, VerifyHolds
<1>3. EntriesKept
  BY <1>1, <1>2, Zenon DEF EntriesKept
<1> QED BY <1>1, <1>2, <1>3

LEMMA VerifiedDirectory ==
  ASSUME LogInv, TreeInv
  PROVE  VerifiedIsWhole
<1> SUFFICES ASSUME file # NoFile, VerifyLogDir(disk, file) PROVE EntriesKept
  BY DEF VerifiedIsWhole
<1>1. IsList(history) /\ file = TreeOf(history) /\ file.size = Len(history)
  BY Lengths DEF TreeInv, CheckpointIsTree
<1>2. VerifyLogDir(disk, TreeOf(history))
  BY <1>1
<1>3. \A n \in 1..FilesIn(Len(history), 0) : EntriesAt(disk, Len(history), n - 1) = Chunks(history)[n]
  BY <1>1, <1>2, VerifiedIsLog
<1> QED BY <1>1, <1>3, Zenon DEF EntriesKept

LEMMA LeftoversAreHarmless ==
  ASSUME LogConstants, DirInv
  PROVE  LeftoversHarmless
<1> SUFFICES ASSUME NEW t \in Threads, pc[t] = "write", call[t].todo = <<>>, damage = 0
             PROVE  TreeIsRight(t)
  BY DEF LeftoversHarmless
<1>1. /\ call[t].batch \in Batches /\ call[t].old = file /\ file # NoFile
      /\ call[t].covers = history \o call[t].batch
  BY DEF DirInv, LogInv, CallInv, OpAtStep, Covers
<1>2. /\ IsList(call[t].batch) /\ call[t].batch # <<>>
  BY <1>1, SeqIsList DEF LogConstants
<1>3. IsList(history) /\ call[t].old = TreeOf(history) /\ Holds(disk, history)
  BY <1>1, Lengths DEF DirInv, TreeInv, CheckpointIsTree, HeldInv, LogHeld
<1>4. Pend(call[t])
  BY DEF DirInv, HeldInv, CallHeld
<1>5. \A x : ~Among(x, call[t].todo)
  BY DEF Among
<1>6. Holds(disk, history \o call[t].batch)
  BY <1>1, <1>4, <1>5 DEF Pend, Holds
<1>7. \A w \in call[t].written : w.name \in DOMAIN disk /\ disk[w.name] = w.data
  BY <1>4 DEF Pend
<1> QED BY <1>2, <1>3, <1>6, <1>7, RightTree

-----------------------------------------------------------------------------
(***************************************************************************)
(* What the files of a directory are, damaged or not: values of the type   *)
(* and the number that their names say.                                    *)
(***************************************************************************)
NameOK(name) == name.width \in 1..TileWidth /\ name.kind \in {"tile", "entries"}

FileOK(name, data) == NameOK(name) /\ IsList(data) /\ Len(data) = name.width

LEMMA WriteIsOK ==
  ASSUME NEW s, NEW kind \in {"tile", "entries"}, NEW old, NEW level, NEW p, IsList(p),
         WritesAre(s, kind, old, level, p), NEW x, Among(x, s)
  PROVE  FileOK(x.name, x.data)
<1>1. PICK i \in Nat : i * TileWidth < Len(p) /\ s[i + 1] = x
  BY AmongWrites
<1>2. WriteIs(x, kind, old, level, p, i)
  BY <1>1 DEF WritesAre
<1>3. Room(Len(p), i) \in 1..TileWidth
  BY <1>1, ListLen, RoomIs
<1>4. x.name.kind = kind /\ x.name.width = Room(Len(p), i)
  BY <1>2 DEF WriteIs
<1> QED BY <1>2, <1>3, <1>4 DEF WriteIs, FileOK, NameOK

LEMMA WritesAreOK ==
  ASSUME NEW dir, NEW old \in Nat, NEW batch, IsList(batch), NEW x, Among(x, Writes(dir, old, batch))
  PROVE  FileOK(x.name, x.data)
<1> DEFINE h == Hashes(batch)
           F == Fresh(dir, old, h)
           b == BundleWrites(dir, old, batch)
           t == TileWrites(dir, old, h)
<1>1. IsList(h)
  BY HashesAre
<1>2. WritesAre(b, "entries", old, 0, ToBundle(dir, old, batch)) /\ IsList(ToBundle(dir, old, batch))
  BY BundleWritesAre, ToBundleIs DEF PendingHolds
<1>3. IsList(b)
  BY <1>2 DEF WritesAre
<1> HIDE DEF h
<1>4. IsList(t) /\ (Among(x, t) => \E l \in Nat : Among(x, LevelWrites(dir, old, l, F[l])))
  BY <1>1, TileWritesAre
<1>5. Among(x, b) \/ Among(x, t)
  <2>1. Writes(dir, old, batch) = b \o t
    BY DEF Writes, h
  <2> HIDE DEF b, t
  <2> QED BY <1>3, <1>4, <2>1, AmongBoth
<1>6. CASE Among(x, b)
  BY <1>2, <1>6, WriteIsOK
<1>7. CASE Among(x, t)
  <2>1. PICK l \in Nat : Among(x, LevelWrites(dir, old, l, F[l]))
    BY <1>4, <1>7
  <2>2. IsList(F[l])
    BY <1>1, FreshIsList
  <2> HIDE DEF F
  <2>3. /\ WritesAre(LevelWrites(dir, old, l, F[l]), "tile", old, l, ToWrite(dir, old, l, F[l]))
        /\ IsList(ToWrite(dir, old, l, F[l]))
    BY <2>2, LevelWritesAre, ToWriteIs
  <2> QED BY <2>1, <2>3, WriteIsOK
<1> QED BY <1>5, <1>6, <1>7

FilesOK ==
  /\ \A name \in DOMAIN disk : FileOK(name, disk[name])
  /\ \A t \in Threads : pc[t] = "write" => \A x : Among(x, call[t].todo) => FileOK(x.name, x.data)

SizesOK ==
  /\ Len(history) <= MaxSize /\ Len(kept) <= MaxSize
  /\ \A t \in Threads : pc[t] \in {"write"} \cup Signing => Len(call[t].covers) <= MaxSize

StatesOK ==
  /\ temps \subseteq Threads \cup {Nobody}
  /\ lock \in Threads \cup {Nobody}
  /\ pc \in [Threads -> InFlight \cup {"idle"}]
  /\ \A t \in Threads : pc[t] = "idle" <=> call[t] = NoCall
  /\ damage \in 0..MaxDamage

TypesInv == FilesOK /\ SizesOK /\ StatesOK

NoCallIsNone == ~CallShape(NoCall)

LEMMA StoredIsOK ==
  ASSUME \A name \in DOMAIN disk : FileOK(name, disk[name]), NEW n, NEW data, FileOK(n, data),
         disk' = Stored(n, data)
  PROVE  \A name \in DOMAIN disk' : FileOK(name, disk'[name])
BY DEF Stored

LEMMA SpoiledIsOK ==
  ASSUME \A name \in DOMAIN disk : FileOK(name, disk[name]), NEW n \in DOMAIN disk, Spoil(n)
  PROVE  \A name \in DOMAIN disk' : FileOK(name, disk'[name])
<1>1. CASE disk' = [m \in DOMAIN disk \ {n} |-> disk[m]]
  BY <1>1
<1>2. CASE disk' = [disk EXCEPT ![n] = [i \in DOMAIN @ |-> Spoiled]]
  <2> DEFINE f == [i \in DOMAIN disk[n] |-> Spoiled]
  <2>1. FileOK(n, disk[n])
    OBVIOUS
  <2>2. DOMAIN disk[n] = 1..Len(disk[n]) /\ Len(disk[n]) \in Nat /\ Len(disk[n]) = n.width /\ NameOK(n)
    BY <2>1, ListLen DEF FileOK
  <2>3. IsList(f) /\ Len(f) = Len(disk[n])
    <3>1. f = [i \in 1..Len(disk[n]) |-> f[i]]
      BY <2>2
    <3> HIDE DEF f
    <3> QED BY <2>2, <3>1, FunctionIsList
  <2>4. FileOK(n, f)
    BY <2>2, <2>3 DEF FileOK
  <2>5. disk' = [disk EXCEPT ![n] = f]
    BY <1>2
  <2> HIDE DEF f
  <2>6. ASSUME NEW name \in DOMAIN disk' PROVE FileOK(name, disk'[name])
    <3>1. name \in DOMAIN disk
      BY <2>5
    <3>2. CASE name = n
      BY <2>4, <2>5, <3>1, <3>2
    <3>3. CASE name # n
      BY <2>5, <3>1, <3>3
    <3> QED BY <3>2, <3>3
  <2> QED BY <2>6
<1> QED BY <1>1, <1>2 DEF Spoil

LEMMA FilesOfActs ==
  ASSUME LogConstants, LogInv, WritesInv, FilesOK, NEW t \in Threads, Around(t), Moved(t)
  PROVE  FilesOK'
<1>1. \A name \in DOMAIN disk' : FileOK(name, disk'[name])
  <2>1. CASE disk' = disk
    BY <2>1 DEF FilesOK
  <2>2. CASE StoresNext(t)
    <3>1. pc[t] = "write" /\ call[t].todo # <<>> /\ IsList(call[t].todo)
      BY <2>2 DEF StoresNext, WritesInv, Ahead
    <3>2. Among(Head(call[t].todo), call[t].todo)
      <4> DEFINE next == Head(call[t].todo)
      <4>1. next = call[t].todo[1] /\ 1 \in 1..Len(call[t].todo)
        BY <3>1, TailIs, ListLen
      <4> HIDE DEF next
      <4>2. Among(next, call[t].todo)
        BY <4>1 DEF Among
      <4> QED BY <4>2 DEF next
    <3>3. FileOK(Head(call[t].todo).name, Head(call[t].todo).data)
      BY <3>1, <3>2 DEF FilesOK
    <3> QED BY <2>2, <3>3, StoredIsOK DEF StoresNext, FilesOK
  <2> QED BY <2>1, <2>2 DEF Around
<1>2. ASSUME NEW s \in Threads \ {t}, pc'[s] = "write", NEW x, Among(x, call'[s].todo)
      PROVE  FileOK(x.name, x.data)
  BY <1>2 DEF Around, OnlyBy, FilesOK
<1>3. ASSUME pc'[t] = "write", NEW x, Among(x, call'[t].todo) PROVE FileOK(x.name, x.data)
  <2>1. Loaded(t) \/ Wrote(t)
    BY <1>3 DEF Moved, Begun, Ended, Failed, GoesOn, Onward, Created, Checked, Noted, EntryTaken, ProofTaken
  <2>2. CASE Loaded(t)
    <3>1. IsList(call[t].batch) /\ file.size \in Nat /\ call'[t].todo = Writes(disk, file.size, call[t].batch)
      BY <2>2, StateRead, SeqIsList DEF Loaded
    <3> QED BY <1>3, <3>1, WritesAreOK
  <2>3. CASE Wrote(t)
    <3>1. pc[t] = "write" /\ call[t].todo # <<>> /\ call'[t].todo = Tail(call[t].todo) /\ IsList(call[t].todo)
      BY <2>3, FileWritten DEF Wrote, WritesInv, Ahead
    <3>2. /\ IsList(Tail(call[t].todo)) /\ Len(Tail(call[t].todo)) = Len(call[t].todo) - 1
          /\ \A i \in 1..(Len(call[t].todo) - 1) : Tail(call[t].todo)[i] = call[t].todo[i + 1]
          /\ Len(call[t].todo) \in Nat
      BY <3>1, TailIs, ListLen
    <3>3. Among(x, call[t].todo)
      BY <1>3, <3>1, <3>2 DEF Among
    <3> QED BY <3>1, <3>3 DEF FilesOK
  <2> QED BY <2>1, <2>2, <2>3
<1> QED BY <1>1, <1>2, <1>3 DEF FilesOK

LEMMA SizesOfActs ==
  ASSUME LogConstants, LogInv, SizesOK, NEW t \in Threads, Around(t), Moved(t)
  PROVE  SizesOK'
<1>1. Len(history') <= MaxSize /\ Len(kept') <= MaxSize
  BY DEF Around, LogGrows, LogStays, SizesOK, Signing
<1>2. ASSUME NEW s \in Threads \ {t}, pc'[s] \in {"write"} \cup Signing PROVE Len(call'[s].covers) <= MaxSize
  BY <1>2 DEF Around, OnlyBy, SizesOK
<1>3. ASSUME pc'[t] \in {"write"} \cup Signing PROVE Len(call'[t].covers) <= MaxSize
  <2>1. CASE Loaded(t)
    <3>1. /\ call'[t].covers = history \o call[t].batch /\ file.size = Len(history)
          /\ history \in Seq(Entries) /\ call[t].batch \in Seq(Entries)
      BY <2>1, StateRead DEF Loaded
    <3>2. file.size + Len(call[t].batch) <= MaxSize
      BY <2>1 DEF Loaded, ReadState
    <3>3. Len(history \o call[t].batch) = Len(history) + Len(call[t].batch)
      BY <3>1
    <3> QED BY <3>1, <3>2, <3>3
  <2>2. CASE Wrote(t)
    BY <2>2, FileWritten DEF Wrote, SizesOK
  <2>3. CASE Created(t)
    <3>1. call'[t].covers = <<>>
      BY <2>3 DEF Created, LogInv, CallInv, Covers
    <3> QED BY <3>1, BoundAssumption
  <2>4. CASE Checked(t)
    BY <2>4 DEF Checked, SizesOK
  <2>5. CASE GoesOn(t)
    <3>1. pc[t] \in Signing /\ call'[t] = call[t]
      BY <1>3, <2>5 DEF GoesOn, Onward, Signing
    <3> QED BY <3>1 DEF SizesOK
  <2> QED BY <1>3, <2>1, <2>2, <2>3, <2>4, <2>5
      DEF Moved, Begun, Ended, Failed, Noted, EntryTaken, ProofTaken, Signing
<1> QED BY <1>1, <1>2, <1>3 DEF SizesOK

LEMMA StatesOfActs ==
  ASSUME NoCallIsNone, LogInv, StatesOK, NEW t \in Threads, Acts(t), Around(t), Moved(t)
  PROVE  StatesOK'
<1>1. temps' \subseteq temps \cup {t, Nobody}
  <2>1. CASE UNCHANGED temps
    BY <2>1
  <2>2. CASE Calls(t) \/ TakeLogLock(t) \/ Return(t) \/ Reading(t)
    BY <2>1, <2>2 DEF Calls, CreateCall, AppendCall, EntryCall, ProofCall, BundleCall, Start, TakeLogLock,
           Return, Reading, ReadNote, NoNote, ReadEntry, ReadProof, Raise, ioVars
  <2>3. CASE Crash(t)
    BY <2>3 DEF Crash, KillIO, Orphaned
  <2>4. CASE CheckpointTemp(t) \/ CheckpointReplace(t) \/ CheckpointFails(t)
    BY <2>4 DEF CheckpointTemp, CheckpointReplace, CheckpointFails, Replace, DropTemp
  <2>5. CASE Appends(t) /\ ~CheckpointTemp(t) /\ ~CheckpointReplace(t) /\ ~CheckpointFails(t)
    BY <2>1, <2>5 DEF Appends, FindsNoLog, ReadState, NoState, WriteFile, WriteFails, CheckWritten, RefuseWritten,
         Sign, RefuseSign, CheckpointSync, Raise, ioVars
  <2> QED BY <2>2, <2>3, <2>4, <2>5 DEF Acts
<1>2. lock' \in {lock, t, Nobody}
  <2>1. CASE UNCHANGED lock
    BY <2>1
  <2>2. CASE TakeLogLock(t) \/ Return(t) \/ Crash(t)
    BY <2>2 DEF TakeLogLock, TakeLock, Return, ReleaseLock, Crash, KillIO
  <2>3. CASE Calls(t) \/ Reading(t)
    BY <2>1, <2>3 DEF Calls, CreateCall, AppendCall, EntryCall, ProofCall, BundleCall, Start,
           Reading, ReadNote, NoNote, ReadEntry, ReadProof, Raise, ioVars
  <2>4. CASE Appends(t)
    BY <2>1, <2>4 DEF Appends, FindsNoLog, ReadState, NoState, WriteFile, WriteFails, CheckWritten, RefuseWritten,
         Sign, RefuseSign, CheckpointTemp, CheckpointReplace, CheckpointSync, CheckpointFails, Raise, ioVars
  <2> QED BY <2>2, <2>3, <2>4 DEF Acts
<1>3. \E label : pc' = [pc EXCEPT ![t] = label]
  <2>1. CASE \E label : Goto(t, label)
    BY <2>1 DEF Goto
  <2>2. CASE WriteFile(t)
    <3>1. pc' = [pc EXCEPT ![t] = pc[t]]
      BY <2>2 DEF WriteFile, StatesOK
    <3> QED BY <3>1
  <2>3. CASE Calls(t) \/ TakeLogLock(t) \/ Return(t) \/ Crash(t) \/ Reading(t)
    BY <2>1, <2>3 DEF Calls, CreateCall, AppendCall, EntryCall, ProofCall, BundleCall, Start, TakeLogLock,
           Return, Crash, Reading, ReadNote, NoNote, ReadEntry, ReadProof, Raise
  <2>4. CASE Appends(t)
    BY <2>1, <2>2, <2>4 DEF Appends, FindsNoLog, ReadState, NoState, WriteFails, CheckWritten, RefuseWritten,
         Sign, RefuseSign, CheckpointTemp, CheckpointReplace, CheckpointSync, CheckpointFails, Raise
  <2> QED BY <2>3, <2>4 DEF Acts
<1>4. /\ pc'[t] \in InFlight \cup {"idle"}
      /\ pc'[t] = "idle" <=> call'[t] = NoCall
  <2>1. CASE Begun(t) \/ Ended(t)
    BY <2>1 DEF Begun, Ended, NoCallIsNone, InFlight
  <2>2. CASE Failed(t) \/ GoesOn(t)
    BY <2>2 DEF Failed, GoesOn, Onward, StatesOK, InFlight
  <2>3. CASE Created(t) \/ Loaded(t) \/ Wrote(t) \/ Checked(t) \/ Noted(t) \/ EntryTaken(t) \/ ProofTaken(t)
    <3>1. CallShape(call'[t])
      BY <2>3 DEF Created, Loaded, Wrote, Checked, Noted, EntryTaken, ProofTaken, SameRequest
    <3>2. pc'[t] \in {"sign", "write", "entry", "proof", "done"}
      BY <2>3 DEF Created, Loaded, Wrote, Checked, Noted, EntryTaken, ProofTaken
    <3> QED BY <3>1, <3>2 DEF NoCallIsNone, InFlight
  <2> QED BY <2>1, <2>2, <2>3 DEF Moved
<1>5. pc' \in [Threads -> InFlight \cup {"idle"}]
  BY <1>3, <1>4 DEF StatesOK
<1>6. \A s \in Threads : pc'[s] = "idle" <=> call'[s] = NoCall
  BY <1>4 DEF Around, OnlyBy, StatesOK
<1>7. damage' = damage
  BY DEF Around
<1> QED BY <1>1, <1>2, <1>5, <1>6, <1>7 DEF StatesOK

LEMMA TypesStep ==
  ASSUME LogConstants, NoCallIsNone, LogInv, WritesInv, TypesInv, [Next]_vars
  PROVE  TypesInv'
<1>1. CASE UNCHANGED vars
  BY <1>1 DEF vars, ioVars, TypesInv, FilesOK, SizesOK, StatesOK
<1>2. CASE PowerLoss
  <2>1. /\ history' \in {history, kept} /\ kept' = history' /\ UNCHANGED <<disk, damage>>
        /\ temps' \in {{}, Orphaned(Threads)} /\ lock' = Nobody
        /\ pc' = [t \in Threads |-> "idle"] /\ call' = [t \in Threads |-> NoCall]
    BY <1>2 DEF PowerLoss, PowerLossIO
  <2>2. FilesOK' /\ SizesOK'
    BY <2>1 DEF TypesInv, FilesOK, SizesOK, Signing
  <2>3. temps' \subseteq Threads \cup {Nobody}
    BY <2>1 DEF TypesInv, StatesOK, Orphaned
  <2>4. StatesOK'
    BY <2>1, <2>3 DEF TypesInv, StatesOK
  <2> QED BY <2>2, <2>4 DEF TypesInv
<1>3. ASSUME NEW t \in Threads, Acts(t) PROVE TypesInv'
  BY <1>3, ActsAround, Moves, FilesOfActs, SizesOfActs, StatesOfActs DEF TypesInv
<1>4. ASSUME NEW n \in DOMAIN disk, Spoil(n) PROVE TypesInv'
  <2>1. UNCHANGED <<ioVars, pc, call, history, kept>> /\ damage < MaxDamage /\ damage' = damage + 1
    BY <1>4 DEF Spoil
  <2>2. \A name \in DOMAIN disk' : FileOK(name, disk'[name])
    BY <1>4, SpoiledIsOK DEF TypesInv, FilesOK
  <2>3. FilesOK' /\ SizesOK'
    BY <2>1, <2>2 DEF TypesInv, FilesOK, SizesOK
  <2>4. damage' \in 0..MaxDamage
    BY <2>1, BoundAssumption DEF TypesInv, StatesOK
  <2>5. StatesOK'
    BY <2>1, <2>4 DEF TypesInv, StatesOK, ioVars
  <2> QED BY <2>3, <2>5 DEF TypesInv
<1> QED BY <1>1, <1>2, <1>3, <1>4 DEF Next, Acts

LEMMA TypesInit ==
  ASSUME Init
  PROVE  TypesInv
<1>1. FilesOK
  BY DEF Init, FilesOK
<1>2. SizesOK
  BY BoundAssumption DEF Init, SizesOK, Signing
<1>3. StatesOK
  BY BoundAssumption DEF Init, StatesOK
<1> QED BY <1>1, <1>2, <1>3 DEF TypesInv

LEMMA TypesGive ==
  ASSUME LogInv, TypesInv
  PROVE  LogTypeOK
<1>1. file # NoFile => file.size \in 0..MaxSize
  BY Lengths, BoundAssumption DEF TypesInv, SizesOK
<1>2. durable # NoFile => durable.size \in 0..MaxSize
  BY Lengths, BoundAssumption DEF TypesInv, SizesOK, LogInv, Counted
<1>3. \A name \in DOMAIN disk : /\ name.width \in 1..TileWidth
                                /\ name.kind \in {"tile", "entries"}
                                /\ Len(disk[name]) <= name.width
  <2> SUFFICES ASSUME NEW name \in DOMAIN disk
               PROVE  /\ name.width \in 1..TileWidth
                      /\ name.kind \in {"tile", "entries"}
                      /\ Len(disk[name]) <= name.width
    OBVIOUS
  <2>1. FileOK(name, disk[name])
    BY DEF TypesInv, FilesOK
  <2>2. TileWidth \in Nat
    BY Units
  <2> QED BY <2>1, <2>2 DEF FileOK, NameOK
<1> QED BY <1>1, <1>2, <1>3 DEF TypesInv, StatesOK, LogTypeOK

-----------------------------------------------------------------------------
(***************************************************************************)
(* With every file there or on its way, whatever earlier appends left: the *)
(* directory verifies at every step, in the middle of an append too, and   *)
(* an append that has written its files is not refused; and, damaged or    *)
(* not, a directory that verifies reads back as the entries appended, in   *)
(* a log of any size (verify_log_dir, append_all, _check_written).         *)
(***************************************************************************)
THEOREM DirectoryOfLogHolds ==
  ASSUME LogConstants, EntriesAreRead, NoCallIsNone
  PROVE  Spec => []DirectoryHolds
<1>1. Init => TypesInv
  BY TypesInit
<1>2. DirInv /\ TypesInv /\ [Next]_vars => TypesInv'
  BY TypesStep DEF DirInv
<1>3. DirInv /\ TypesInv => DirectoryHolds
  BY TypesGive, DirectoryVerifies, VerifiedDirectory, LeftoversAreHarmless DEF DirInv, DirectoryHolds
<1> QED BY <1>1, <1>2, <1>3, DirInvAlways, PTL DEF Spec
=============================================================================
