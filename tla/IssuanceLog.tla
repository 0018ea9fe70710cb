----------------------------- MODULE IssuanceLog -----------------------------
(***************************************************************************)
(* entrovouch/tlog.py: IssuanceLog, an append-only log in a directory.     *)
(* StateIO's file is the signed checkpoint [size, root], its lock the      *)
(* state_lock on the checkpoint; `disk` is everything under tile/.  The    *)
(* log key signs or fails (SignerState says how); one key signs here.      *)
(*                                                                         *)
(* An append:  lock -> state -> write* -> sign -> temp -> replace -> sync  *)
(*               -> done | raise -> idle                                   *)
(* entry and inclusion_proof read without the lock, proof_bundle with it.  *)
(***************************************************************************)
EXTENDS StateIO, Merkle

CONSTANTS TileHeight, TileWidth,  \* TILE_HEIGHT, TILE_WIDTH
          Batches,     \* what append_all is called with, none of it empty
          MaxSize,     \* bound on the entries of the log
          MaxDamage,   \* bound on the files spoiled by something else
          NoCall

ASSUME TileAssumption == TileHeight \in Nat \ {0} /\ TileWidth = Pow2[TileHeight]
ASSUME BoundAssumption == MaxSize \in Nat /\ MaxDamage \in Nat

VARIABLES disk,      \* the tiles and bundles: what each file there is holds
          pc, call,  \* control point and request of each call
          damage,    \* files spoiled so far
          history,   \* history: the entries the checkpoint covers
          kept       \* history: those a power loss would leave covered

vars == <<ioVars, disk, pc, call, damage, history, kept>>

-----------------------------------------------------------------------------
(***************************************************************************)
(* The files of a log directory: hash tiles and entry bundles of TileWidth *)
(* values, a partial one under a name of its own that says how much it     *)
(* holds.  `dir`, here, maps the names of the files to what they hold.     *)
(***************************************************************************)
Hashes(entries) == [i \in 1..Len(entries) |-> leaf_hash(entries[i])]

TileName(level, n, width) == [kind |-> "tile", level |-> level, n |-> n, width |-> width]
BundleName(n, width) == [kind |-> "entries", level |-> 0, n |-> n, width |-> width]

\* Hashes stored at a level for a tree of `size` leaves, and those in tile n.
LevelCount(size, level) == size \div Pow2[TileHeight * level]

WidthOf(size, level, n) ==
  LET rest == LevelCount(size, level) - n * TileWidth
  IN IF rest < TileWidth THEN rest ELSE TileWidth

-----------------------------------------------------------------------------
(***************************************************************************)
(* Reading (class _Tiles): the file named for this size's width, else the  *)
(* full one.  A file that is missing or does not hold what its name says   *)
(* is an error, carried here by the value Missing.                         *)
(***************************************************************************)
Missing == <<"missing">>

Full(name) == [name EXCEPT !.width = TileWidth]

\* Fault in Read: a full file is preferred to the partial one.
ReadFullFirst(dir, name) ==
  LET held == IF Full(name) \in DOMAIN dir THEN Full(name) ELSE name IN
  IF held \in DOMAIN dir /\ Len(dir[held]) = held.width
    THEN SubSeq(dir[held], 1, name.width)
    ELSE [i \in 1..name.width |-> Missing]

Read(dir, name) ==
  LET held == IF name \in DOMAIN dir THEN name ELSE Full(name) IN
  IF held \in DOMAIN dir /\ Len(dir[held]) = held.width
    THEN SubSeq(dir[held], 1, name.width)
    ELSE [i \in 1..name.width |-> Missing]

TileAt(dir, size, level, n) == Read(dir, TileName(level, n, WidthOf(size, level, n)))
EntriesAt(dir, size, n) == Read(dir, BundleName(n, WidthOf(size, 0, n)))

FilesIn(size, level) == (LevelCount(size, level) + TileWidth - 1) \div TileWidth

\* The entries of a log of `size` from those of file `first` on.
StoredFrom(dir, size, first) ==
  LET from[n \in Nat] == IF n <= first THEN <<>> ELSE from[n - 1] \o EntriesAt(dir, size, n - 1)
  IN from[FilesIn(size, 0)]

\* What is missing below is missing above: the read raises.
Joined(left, right) == IF Missing \in {left, right} THEN Missing ELSE node_hash(left, right)

\* node[<<height, index>>]: the hash of the complete subtree of 2^height leaves at that position.
NodeAt(dir, size) ==
  LET node[a \in Nat \X Nat] ==
        IF a[1] % TileHeight = 0
          THEN TileAt(dir, size, a[1] \div TileHeight, a[2] \div TileWidth)[(a[2] % TileWidth) + 1]
          ELSE Joined(node[<<a[1] - 1, 2 * a[2]>>], node[<<a[1] - 1, 2 * a[2] + 1>>])
  IN node

Log2(n) == CHOOSE h \in 0..n : Pow2[h] = n

\* mth of a view: complete subtrees come from the tiles.
ViewMth(dir, size) ==
  LET mth[r \in Nat \X Nat] ==
        IF r[2] = 0 THEN EmptyRoot
        ELSE IF PowerOfTwo(r[2]) /\ r[1] % r[2] = 0
          THEN NodeAt(dir, size)[<<Log2(r[2]), r[1] \div r[2]>>]
          ELSE Joined(mth[LeftOf(r)], mth[RightOf(r)])
  IN mth

-----------------------------------------------------------------------------
(***************************************************************************)
(* Writing: what an append of `batch` to a tree of `old` leaves writes, in *)
(* order.  The values that share the first file with it are carried over.  *)
(***************************************************************************)
\* Fault in Chunks: a file is filled with one value too many.
LongChunks(pending) ==
  [i \in 1..((Len(pending) + TileWidth) \div (TileWidth + 1)) |->
     SubSeq(pending, (i - 1) * (TileWidth + 1) + 1,
            IF i * (TileWidth + 1) < Len(pending) THEN i * (TileWidth + 1) ELSE Len(pending))]

Chunks(pending) ==
  [i \in 1..((Len(pending) + TileWidth - 1) \div TileWidth) |->
     SubSeq(pending, (i - 1) * TileWidth + 1,
            IF i * TileWidth < Len(pending) THEN i * TileWidth ELSE Len(pending))]

Pending(old, level, carried, fresh) ==
  IF LevelCount(old, level) % TileWidth = 0 THEN fresh ELSE carried \o fresh

BundleWrites(dir, old, batch) ==
  LET first  == old \div TileWidth
      chunks == Chunks(Pending(old, 0, EntriesAt(dir, old, first), batch))
  IN [i \in 1..Len(chunks) |-> [name |-> BundleName(first + i - 1, Len(chunks[i])), data |-> chunks[i]]]

\* Only a full tile is hashed into the level above.
Completed(pending) ==
  [i \in 1..(Len(pending) \div TileWidth) |->
     MerkleRoot(SubSeq(pending, (i - 1) * TileWidth + 1, i * TileWidth))]

\* What is written at a level from its first file on, for the hashes that are new there.
ToWrite(dir, old, level, fresh) ==
  IF fresh = <<>> THEN <<>>
  ELSE Pending(old, level, TileAt(dir, old, level, LevelCount(old, level) \div TileWidth), fresh)

Fresh(dir, old, hashes) ==
  LET fresh[level \in Nat] ==
        IF level = 0 THEN hashes ELSE Completed(ToWrite(dir, old, level - 1, fresh[level - 1]))
  IN fresh

LevelWrites(dir, old, level, fresh) ==
  LET first  == LevelCount(old, level) \div TileWidth
      chunks == Chunks(ToWrite(dir, old, level, fresh))
  IN [i \in 1..Len(chunks) |-> [name |-> TileName(level, first + i - 1, Len(chunks[i])), data |-> chunks[i]]]

\* From the leaves up: a tree has fewer levels than leaves, and those above it have nothing to write.
TileWrites(dir, old, hashes) ==
  LET fresh == Fresh(dir, old, hashes)
      below[level \in Nat] ==
        IF level = 0 THEN <<>> ELSE below[level - 1] \o LevelWrites(dir, old, level - 1, fresh[level - 1])
  IN below[old + Len(hashes)]

Writes(dir, old, batch) == BundleWrites(dir, old, batch) \o TileWrites(dir, old, Hashes(batch))

-----------------------------------------------------------------------------
Checkpoint(size, root) == [size |-> size, root |-> root]

InFlight == {"lock", "absent", "state", "write", "sign", "temp", "replace", "sync",
             "view", "entry", "proof", "done", "raise"}

LogTypeOK ==
  /\ file # NoFile => file.size \in 0..MaxSize
  /\ durable # NoFile => durable.size \in 0..MaxSize
  /\ temps \subseteq Threads \cup {Nobody}
  /\ lock \in Threads \cup {Nobody}
  /\ \A name \in DOMAIN disk : /\ name.width \in 1..TileWidth
                               /\ name.kind \in {"tile", "entries"}
                               /\ Len(disk[name]) <= name.width
  /\ pc \in [Threads -> InFlight \cup {"idle"}]
  /\ \A t \in Threads : pc[t] = "idle" <=> call[t] = NoCall
  /\ damage \in 0..MaxDamage

Init ==
  /\ file = NoFile /\ durable = NoFile /\ temps = {} /\ lock = Nobody
  /\ disk = <<>>
  /\ pc = [t \in Threads |-> "idle"]
  /\ call = [t \in Threads |-> NoCall]
  /\ damage = 0
  /\ history = <<>> /\ kept = <<>>

Goto(t, label) == pc' = [pc EXCEPT ![t] = label]

\* A call that raises on the way does nothing more but give back its lock.
Raise(t) == Goto(t, "raise") /\ UNCHANGED <<ioVars, disk, call, damage, history, kept>>

-----------------------------------------------------------------------------
(***************************************************************************)
(* Calls start.  `old` is the checkpoint a call goes by, `new` the one it  *)
(* signs, `todo` and `written` the files it writes, `covers` (history) the *)
(* entries the checkpoint it goes by, or signs, covers.                    *)
(***************************************************************************)
Request(op, batch, index) ==
  [op |-> op, batch |-> batch, index |-> index, old |-> NoFile, new |-> NoFile,
   todo |-> <<>>, written |-> {}, covers |-> <<>>, entry |-> Missing, proof |-> <<>>]

Start(t, request, label) ==
  /\ pc[t] = "idle"
  /\ call' = [call EXCEPT ![t] = request]
  /\ Goto(t, label)
  /\ UNCHANGED <<ioVars, disk, damage, history, kept>>

CreateCall(t) == Start(t, Request("create", <<>>, 0), "absent")
AppendCall(t, batch) == Start(t, Request("append", batch, 0), "lock")
EntryCall(t, index) == Start(t, Request("entry", <<>>, index), "view")
ProofCall(t, index) == Start(t, Request("proof", <<>>, index), "view")
BundleCall(t, index) == Start(t, Request("bundle", <<>>, index), "lock")

\* create looks for a log before it has the lock.
FindsNoLog(t) ==
  /\ pc[t] = "absent"
  /\ IF file = NoFile /\ disk = <<>>
       THEN Goto(t, "lock") /\ UNCHANGED <<ioVars, disk, call, damage, history, kept>>
       ELSE Raise(t)

AfterLock(t) == CASE call[t].op = "create" -> "sign"
                  [] call[t].op = "append" -> "state"
                  [] call[t].op = "bundle" -> "view"

TakeLogLock(t) ==
  /\ pc[t] = "lock"
  /\ TakeLock(t)
  /\ Goto(t, AfterLock(t))
  /\ call' = IF call[t].op = "create"
               THEN [call EXCEPT ![t].new = Checkpoint(0, EmptyRoot)]
               ELSE call
  /\ UNCHANGED <<file, durable, temps, disk, damage, history, kept>>

-----------------------------------------------------------------------------
(***************************************************************************)
(* append_all: the files first, each replaced as a whole; the tree that is *)
(* then on the disk is read back, and signed if it is the right one.       *)
(***************************************************************************)
Old(t) == call[t].old.size
NewSize(t) == Old(t) + Len(call[t].batch)

ReadState(t) ==
  /\ pc[t] = "state"
  /\ file # NoFile
  /\ file.size + Len(call[t].batch) <= MaxSize
  /\ call' = [call EXCEPT ![t].old = file, ![t].todo = Writes(disk, file.size, call[t].batch),
                          ![t].covers = history \o call[t].batch]
  /\ Goto(t, "write")
  /\ UNCHANGED <<ioVars, disk, damage, history, kept>>

\* state() raises without a checkpoint.  The bound on the log's size ends here too.
NoState(t) ==
  /\ pc[t] = "state"
  /\ file # NoFile => file.size + Len(call[t].batch) > MaxSize
  /\ Raise(t)

HoldsMissing(data) == \E i \in 1..Len(data) : data[i] = Missing

\* Fault in Stored: a partial file that a fuller one replaces is removed.
StoredAndPruned(name, data) ==
  LET partial == {n \in DOMAIN disk : n.width < name.width /\ [n EXCEPT !.width = name.width] = name}
  IN [n \in (DOMAIN disk \cup {name}) \ partial |-> IF n = name THEN data ELSE disk[n]]

\* _write_new: a leftover under the name is replaced.
Stored(name, data) ==
  [n \in DOMAIN disk \cup {name} |-> IF n = name THEN data ELSE disk[n]]

WriteFile(t) ==
  /\ pc[t] = "write" /\ call[t].todo # <<>>
  /\ LET next == Head(call[t].todo) IN
       /\ ~HoldsMissing(next.data)
       /\ disk' = Stored(next.name, next.data)
       /\ call' = [call EXCEPT ![t].todo = Tail(@), ![t].written = @ \cup {next}]
  /\ UNCHANGED <<ioVars, pc, damage, history, kept>>

\* A file to carry over cannot be read, or the write fails: before or after its rename.
WriteFails(t) ==
  /\ pc[t] = "write" /\ call[t].todo # <<>>
  /\ LET next == Head(call[t].todo) IN
       disk' \in {disk} \cup IF HoldsMissing(next.data) THEN {} ELSE {Stored(next.name, next.data)}
  /\ Goto(t, "raise")
  /\ UNCHANGED <<ioVars, call, damage, history, kept>>

\* The root the entries appended give on top of the tree the last checkpoint signed.
Expected(t) ==
  LET oldMth == ViewMth(disk, Old(t))
      newMth == Mth(Hashes(call[t].batch))
      sum[r \in Nat \X Nat] ==
        IF r[1] + r[2] <= Old(t) THEN oldMth[r]
        ELSE IF r[1] >= Old(t) THEN newMth[<<r[1] - Old(t), r[2]>>]
        ELSE node_hash(sum[LeftOf(r)], sum[RightOf(r)])
  IN sum[<<0, NewSize(t)>>]

\* Fault in WrittenIsRight: nothing is read back.
NothingReadBack(t) == TRUE

\* _check_written.
WrittenIsRight(t) ==
  LET skip == Old(t) % TileWidth
      stored == StoredFrom(disk, NewSize(t), Old(t) \div TileWidth)
      newMth == ViewMth(disk, NewSize(t))
      oldMth == ViewMth(disk, Old(t))
  IN /\ \A w \in call[t].written : w.name \in DOMAIN disk /\ disk[w.name] = w.data
     /\ SubSeq(stored, skip + 1, skip + Len(call[t].batch)) = call[t].batch
     /\ oldMth[<<0, Old(t)>>] = call[t].old.root
     /\ skip > 0 => Hashes(SubSeq(stored, 1, skip)) = TileAt(disk, Old(t), 0, Old(t) \div TileWidth)
     /\ newMth[<<0, NewSize(t)>>] = Expected(t)

\* The consistency check append_all makes by itself, whatever was read back.
ExtendsLast(t) ==
  LET mth == ViewMth(disk, NewSize(t))
      root == mth[<<0, NewSize(t)>>]
  IN /\ root # Missing
     /\ VerifyConsistency(Old(t), NewSize(t), call[t].old.root, root,
                          IF Old(t) = 0 THEN <<>> ELSE SubproofOf(mth, Old(t), 0, NewSize(t), TRUE))

TreeIsRight(t) == WrittenIsRight(t) /\ ExtendsLast(t)

CheckWritten(t) ==
  /\ pc[t] = "write" /\ call[t].todo = <<>>
  /\ TreeIsRight(t)
  /\ call' = [call EXCEPT ![t].new =
                Checkpoint(NewSize(t), ViewMth(disk, NewSize(t))[<<0, NewSize(t)>>])]
  /\ Goto(t, "sign")
  /\ UNCHANGED <<ioVars, disk, damage, history, kept>>

RefuseWritten(t) ==
  pc[t] = "write" /\ call[t].todo = <<>> /\ ~TreeIsRight(t) /\ Raise(t)

-----------------------------------------------------------------------------
(***************************************************************************)
(* _sign_checkpoint: never a smaller tree than the last one, nor a second  *)
(* root for its size.  The key may refuse to sign (TlogError).             *)
(***************************************************************************)
\* Fault in Signable: the last checkpoint is not looked at.
AnySignable(new) == TRUE

Signable(new) ==
  file # NoFile => new.size > file.size \/ new = file

Sign(t) ==
  /\ pc[t] = "sign"
  /\ Signable(call[t].new)
  /\ Goto(t, "temp")
  /\ UNCHANGED <<ioVars, disk, call, damage, history, kept>>

\* Not signable, or the log key is used up, gone, rolled back or cannot be saved.
RefuseSign(t) == pc[t] = "sign" /\ Raise(t)

\* No stale temporary copy is looked for here: it holds no secret.
CheckpointTemp(t) ==
  /\ pc[t] = "temp"
  /\ temps' = temps \cup {t}
  /\ Goto(t, "replace")
  /\ UNCHANGED <<file, durable, lock, disk, call, damage, history, kept>>

CheckpointReplace(t) ==
  /\ pc[t] = "replace"
  /\ Replace(t, call[t].new)
  /\ history' = call[t].covers
  /\ Goto(t, "sync")
  /\ UNCHANGED <<durable, lock, disk, call, damage, kept>>

CheckpointSync(t) ==
  /\ pc[t] = "sync"
  /\ SyncDirectory
  /\ kept' = history
  /\ Goto(t, "done")
  /\ UNCHANGED <<file, temps, lock, disk, call, damage, history>>

CheckpointFails(t) ==
  /\ pc[t] \in {"temp", "replace", "sync"}
  /\ DropTemp(t)
  /\ Goto(t, "raise")
  /\ UNCHANGED <<file, durable, lock, disk, call, damage, history, kept>>

-----------------------------------------------------------------------------
(***************************************************************************)
(* Reading.  entry and inclusion_proof take the checkpoint, then the files *)
(* of its size; proof_bundle takes the checkpoint, and then calls both.    *)
(***************************************************************************)
Reads == {"entry", "proof", "bundle"}

ReadNote(t) ==
  /\ pc[t] = "view"
  /\ file # NoFile /\ call[t].index < file.size
  /\ call' = [call EXCEPT ![t].old = file, ![t].covers = history]
  /\ Goto(t, IF call[t].op = "proof" THEN "proof" ELSE "entry")
  /\ UNCHANGED <<ioVars, disk, damage, history, kept>>

NoNote(t) ==
  pc[t] = "view" /\ (file # NoFile => call[t].index >= file.size) /\ Raise(t)

\* Fault in ViewSize: every read takes the checkpoint again.
CurrentSize(t) == file.size

\* The view a read works on: proof_bundle's calls take the checkpoint again.
ViewSize(t) == IF call[t].op = "bundle" THEN file.size ELSE Old(t)

EntryAt(size, index) == EntriesAt(disk, size, index \div TileWidth)[(index % TileWidth) + 1]

ReadEntry(t) ==
  /\ pc[t] = "entry"
  /\ LET entry == EntryAt(ViewSize(t), call[t].index) IN
       IF entry = Missing
         THEN Raise(t)
         ELSE /\ call' = [call EXCEPT ![t].entry = entry]
              /\ Goto(t, IF call[t].op = "bundle" THEN "proof" ELSE "done")
              /\ UNCHANGED <<ioVars, disk, damage, history, kept>>

ReadProof(t) ==
  /\ pc[t] = "proof"
  /\ LET proof == PathOf(ViewMth(disk, ViewSize(t)), call[t].index, 0, ViewSize(t)) IN
       IF HoldsMissing(proof)
         THEN Raise(t)
         ELSE /\ call' = [call EXCEPT ![t].proof = proof]
              /\ Goto(t, "done")
              /\ UNCHANGED <<ioVars, disk, damage, history, kept>>

Return(t) ==
  /\ pc[t] \in {"done", "raise"}
  /\ ReleaseLock(t)
  /\ call' = [call EXCEPT ![t] = NoCall]
  /\ Goto(t, "idle")
  /\ UNCHANGED <<file, durable, temps, disk, damage, history, kept>>

-----------------------------------------------------------------------------
(***************************************************************************)
(* Around the log: its processes are killed, the power goes, and something *)
(* else (a failing disk, another program) loses or spoils one of its files.*)
(***************************************************************************)
Crash(t) ==
  /\ pc[t] # "idle"
  /\ KillIO({t})
  /\ Goto(t, "idle")
  /\ call' = [call EXCEPT ![t] = NoCall]
  /\ UNCHANGED <<disk, damage, history, kept>>

PowerLoss ==
  /\ PowerLossIO
  /\ history' = IF file' = file THEN history ELSE kept
  /\ kept' = history'
  /\ pc' = [t \in Threads |-> "idle"]
  /\ call' = [t \in Threads |-> NoCall]
  /\ UNCHANGED <<disk, damage>>

\* What can be read, and is not what was written.
Spoiled == <<"spoiled">>

Spoil(name) ==
  /\ damage < MaxDamage
  /\ damage' = damage + 1
  /\ disk' \in {[n \in DOMAIN disk \ {name} |-> disk[n]],
                [disk EXCEPT ![name] = [i \in DOMAIN @ |-> Spoiled]]}
  /\ UNCHANGED <<ioVars, pc, call, history, kept>>

-----------------------------------------------------------------------------
Appends(t) ==
  \/ FindsNoLog(t) \/ ReadState(t) \/ NoState(t)
  \/ WriteFile(t) \/ WriteFails(t) \/ CheckWritten(t) \/ RefuseWritten(t)
  \/ Sign(t) \/ RefuseSign(t)
  \/ CheckpointTemp(t) \/ CheckpointReplace(t) \/ CheckpointSync(t) \/ CheckpointFails(t)

Reading(t) == ReadNote(t) \/ NoNote(t) \/ ReadEntry(t) \/ ReadProof(t)

Calls(t) ==
  \/ CreateCall(t)
  \/ \E batch \in Batches : AppendCall(t, batch)
  \/ \E index \in 0..(MaxSize - 1) :
       EntryCall(t, index) \/ ProofCall(t, index) \/ BundleCall(t, index)

Next ==
  \/ \E t \in Threads : \/ Calls(t) \/ TakeLogLock(t) \/ Return(t)
                        \/ Appends(t) \/ Reading(t) \/ Crash(t)
  \/ PowerLoss
  \/ \E name \in DOMAIN disk : Spoil(name)

Spec == Init /\ [][Next]_vars

-----------------------------------------------------------------------------
(***************************************************************************)
(* The signed root is the root of the entries appended so far, also when   *)
(* files were spoiled while an append was under way (_check_written:       *)
(* "refusing to sign"); so is the one that a power loss would leave.       *)
(***************************************************************************)
TreeOf(entries) == Checkpoint(Len(entries), MerkleRoot(Hashes(entries)))

CheckpointIsTree ==
  /\ file # NoFile => file = TreeOf(history)
  /\ durable # NoFile => durable = TreeOf(kept)

\* Fault in VerifyLogDir: the tiles are not compared with the entries.
VerifyLogDirByRoot(d, note) == ViewMth(d, note.size)[<<0, note.size>>] = note.root

\* The hashes each level of tiles holds.
LevelsOf(hashes) == LET at[level \in Nat] == IF level = 0 THEN hashes ELSE Completed(at[level - 1]) IN at

\* Entries, every tile of the signed tree recomputed from them, and the root.
VerifyLogDir(d, note) ==
  LET entries == StoredFrom(d, note.size, 0)
      hashes == LevelsOf(Hashes(entries))
  IN /\ ~HoldsMissing(entries)
     /\ \A level \in 0..note.size :
          LET chunks == Chunks(hashes[level])
          IN \A n \in 1..Len(chunks) : TileAt(d, note.size, level, n - 1) = chunks[n]
     /\ ViewMth(d, note.size)[<<0, note.size>>] = note.root

EntriesKept ==
  \A n \in 1..FilesIn(file.size, 0) : EntriesAt(disk, file.size, n - 1) = Chunks(history)[n]

(***************************************************************************)
(* What stopped appends left behind is never read: at every moment, in the *)
(* middle of an append too, the directory verifies and reads back as the   *)
(* entries that were appended (verify_log_dir).                            *)
(***************************************************************************)
LogDirVerifies == file # NoFile /\ damage = 0 => VerifyLogDir(disk, file) /\ EntriesKept

(***************************************************************************)
(* A directory that verifies holds what was appended, whatever has been    *)
(* lost or spoiled in it (verify_log_dir).                                 *)
(***************************************************************************)
VerifiedIsWhole == file # NoFile /\ VerifyLogDir(disk, file) => EntriesKept

(***************************************************************************)
(* Nor do they stop later appends: the tree an append has written is the   *)
(* right one, and is not refused, whatever earlier ones left in its way    *)
(* (_Tiles._read, _write_new).                                             *)
(***************************************************************************)
LeftoversHarmless ==
  \A t \in Threads : pc[t] = "write" /\ call[t].todo = <<>> /\ damage = 0 => TreeIsRight(t)

(***************************************************************************)
(* A file the checkpoint covers is never rewritten nor removed             *)
(* (docs/SIGNING.md: "It never rewrites or removes a file a checkpoint     *)
(* covers").                                                               *)
(***************************************************************************)
CoveredBy(name, size) ==
  name.n * TileWidth + name.width <= LevelCount(size, name.level)

CoveredKept ==
  \A name \in DOMAIN disk :
    file # NoFile /\ CoveredBy(name, file.size) /\ damage' = damage =>
      name \in DOMAIN disk' /\ disk'[name] = disk[name]

CoveredFilesKept == [][CoveredKept]_vars

(***************************************************************************)
(* A read without the lock gives the entry, and a proof, of the checkpoint *)
(* it started from, whatever is appended meanwhile (entry,                 *)
(* inclusion_proof).                                                       *)
(***************************************************************************)
Proves(t, entry, proof) ==
  VerifyInclusion(leaf_hash(entry), call[t].index, Old(t), proof, call[t].old.root)

ReadsAreRight ==
  \A t \in Threads : pc[t] = "done" /\ damage = 0 =>
    /\ call[t].op = "entry" => call[t].entry = call[t].covers[call[t].index + 1]
    /\ call[t].op = "proof" => Proves(t, call[t].covers[call[t].index + 1], call[t].proof)

(***************************************************************************)
(* A proof bundle verifies against the checkpoint in it (proof_bundle,     *)
(* verify_bundle).                                                         *)
(***************************************************************************)
BundleVerifies ==
  \A t \in Threads : pc[t] = "done" /\ call[t].op = "bundle" /\ damage = 0 =>
    Proves(t, call[t].entry, call[t].proof)

(***************************************************************************)
(* An append that returns is in the log a power loss leaves (append_all:   *)
(* the checkpoint is synced before it returns).                            *)
(***************************************************************************)
ReturnedIsKept ==
  \A t \in Threads : pc[t] = "done" /\ call[t].op = "append" =>
    durable = call[t].new /\ kept = call[t].covers

(***************************************************************************)
(* The three questions asked of a log together: what is signed, what is in *)
(* the directory and what its readers get.                                 *)
(***************************************************************************)
\* Damage or not, what is signed is the tree of the entries appended, and an append that returned is on disk.
SignedIsKept == CheckpointIsTree /\ ReturnedIsKept

\* The directory verifies at every step, and is whole if it does; what stopped appends left stops no later one.
DirectoryHolds == LogTypeOK /\ LogDirVerifies /\ VerifiedIsWhole /\ LeftoversHarmless

\* Reads without the lock are of the checkpoint they began with, and a proof bundle verifies.
ReadsVerify == ReadsAreRight /\ BundleVerifies

(***************************************************************************)
(* The directory, its leftovers and its failures implement an append-only  *)
(* log.                                                                    *)
(***************************************************************************)
AOL == INSTANCE AppendOnlyLog WITH Batches <- Batches, history <- history, kept <- kept
ImplementsAppendOnlyLog == AOL!Spec
=============================================================================
