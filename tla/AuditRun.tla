------------------------------ MODULE AuditRun ------------------------------
(***************************************************************************)
(* What a run reads while somebody may write to its tree: the reads that   *)
(* every tool shares (_reads.py), and the audit made of them (_audit).     *)
(*                                                                         *)
(* _reads.py: during a run every read of a file gives the bytes the run    *)
(* read first, or the run stops.  Somebody else may rewrite any file at    *)
(* any time, make it unreadable, or put it back.  A hash is the content    *)
(* hashed.  The walk of the tree (manifests.py) comes first in every run:  *)
(* once_per_run makes it one, and it is where files are judged by size.    *)
(***************************************************************************)
EXTENDS Integers, FiniteSets, Functions, Sequences

CONSTANTS Files, Contents,
          SizeOf,      \* the size of each content
          LinkTextMax, \* a file larger than this is no link checked out as text
          HoldLimit,   \* a file larger than this is never held for a type check
          Unreadable,  \* what an open finds when it fails
          NoBytes,     \* no version recorded
          NoFile       \* nothing read yet

ASSUME SizesAssumption ==
  /\ SizeOf \in [Contents -> Nat]
  /\ LinkTextMax \in Nat
  /\ HoldLimit \in Nat

ASSUME SentinelsAssumption ==
  Unreadable \notin Contents /\ NoBytes \notin Contents /\ NoFile \notin Files

VARIABLES
  disk,    \* what is in each file now
  depth,   \* one_read_per_file blocks open, one inside another
  stopped, \* FileChangedDuringRun was raised
  seen,    \* the version recorded for each file
  floor,   \* require_more_than: any read must hold more than this
  last,    \* the file read last, with its bytes
  toWalk,  \* files the walk has yet to look at
  onDisk,  \* history: what each file has held since the run began
  given    \* history: the bytes each file's readers were given in this run

memory == <<seen, floor, last>>
readVars == <<disk, depth, stopped, seen, floor, last, toWalk, onDisk, given>>

NoFloor == -1
Nothing == [file |-> NoFile, bytes |-> NoBytes]
Running == depth > 0 /\ ~stopped

(* Fault in Fresh: the file held last is kept for the next run. *)
KeepsLast == /\ seen' = [f \in Files |-> NoBytes]
             /\ floor' = [f \in Files |-> NoFloor]
             /\ UNCHANGED last

Fresh == /\ seen' = [f \in Files |-> NoBytes]
         /\ floor' = [f \in Files |-> NoFloor]
         /\ last' = Nothing

Init == /\ disk \in [Files -> Contents]
        /\ depth = 0
        /\ stopped = FALSE
        /\ seen = [f \in Files |-> NoBytes]
        /\ floor = [f \in Files |-> NoFloor]
        /\ last = Nothing
        /\ toWalk = {}
        /\ onDisk = [f \in Files |-> {disk[f]}]
        /\ given = [f \in Files |-> {}]

Give(f, b) == given' = [given EXCEPT ![f] = @ \cup {b}]

-----------------------------------------------------------------------------
(* The operations.  Each takes the file and the bytes it answers with. *)

(* Faults in Refused: no version compared, the size judged off by one. *)
RefusedBySize(f, b) == SizeOf[b] <= floor[f]
RefusedBelow(f, b) == \/ SizeOf[b] < floor[f]
                      \/ seen[f] # NoBytes /\ seen[f] # b

Refused(f, b) == \/ SizeOf[b] <= floor[f]
                 \/ seen[f] # NoBytes /\ seen[f] # b

Record(f, b) == /\ ~Refused(f, b)
                /\ seen' = [seen EXCEPT ![f] = b]

FromMemory(f, b) == /\ last.file = f
                    /\ b = last.bytes
                    /\ Give(f, b)
                    /\ UNCHANGED memory

FromDisk(f, b) == /\ disk[f] \in Contents
                  /\ b = disk[f]
                  /\ Record(f, b)
                  /\ Give(f, b)
                  /\ UNCHANGED floor

ReadBytes(f, b) == \/ FromMemory(f, b)
                   \/ /\ last.file # f
                      /\ FromDisk(f, b)
                      /\ last' = [file |-> f, bytes |-> b]

Stream(f, b) == FromDisk(f, b) /\ UNCHANGED last

DigestInto(f, b) == \/ FromMemory(f, b)
                    \/ last.file # f /\ Stream(f, b)

(* The size that decides how the head is read may be that of a version     *)
(* somebody has replaced since.                                            *)
ReadHead(f, b) == \/ /\ \E c \in onDisk[f] : c \in Contents => SizeOf[c] <= HoldLimit
                     /\ ReadBytes(f, b)
                  \/ /\ \E c \in onDisk[f] \cap Contents : SizeOf[c] > HoldLimit
                     /\ Stream(f, b)

(* The open fails, or the file is another version than the run's. *)
Fails(f) == last.file # f /\ disk[f] = Unreadable
Stops(f) == last.file # f /\ disk[f] \in Contents /\ Refused(f, disk[f])

-----------------------------------------------------------------------------
(* A run of any tool. *)

Rewrite(f) == /\ \E c \in Contents \cup {Unreadable} :
                   /\ c # disk[f]
                   /\ disk' = [disk EXCEPT ![f] = c]
                   /\ onDisk' = [onDisk EXCEPT ![f] = @ \cup {c}]
              /\ UNCHANGED <<depth, stopped, seen, floor, last, toWalk, given>>

Open == /\ depth = 0
        /\ depth' = 1
        /\ stopped' = FALSE
        /\ Fresh
        /\ toWalk' = Files
        /\ onDisk' = [f \in Files |-> {disk[f]}]
        /\ given' = [f \in Files |-> {}]
        /\ UNCHANGED disk

(* A block inside a run: the outer run's versions hold. *)
Nest == /\ Running
        /\ depth < 2
        /\ depth' = depth + 1
        /\ UNCHANGED <<disk, stopped, seen, floor, last, toWalk, onDisk, given>>

Close == /\ depth > 0
         /\ depth' = IF stopped THEN 0 ELSE depth - 1
         /\ IF depth' = 0 THEN Fresh ELSE UNCHANGED memory
         /\ UNCHANGED <<disk, stopped, toWalk, onDisk, given>>

Stop(f) == /\ Running
           /\ Stops(f)
           /\ stopped' = TRUE
           /\ UNCHANGED <<disk, depth, seen, floor, last, toWalk, onDisk, given>>

(* _is_link_placeholder: by the size alone, or by the text. *)
WalkBySize(f) ==
  /\ Running /\ f \in toWalk
  /\ \E c \in onDisk[f] \cap Contents : SizeOf[c] > LinkTextMax
  /\ floor' = [floor EXCEPT ![f] = LinkTextMax]
  /\ toWalk' = toWalk \ {f}
  /\ UNCHANGED <<disk, depth, stopped, seen, last, onDisk, given>>

WalkByText(f) ==
  /\ Running /\ f \in toWalk
  /\ \/ /\ \E c \in onDisk[f] \cap Contents : SizeOf[c] <= LinkTextMax
        /\ \E b \in Contents : ReadBytes(f, b)
     \/ Unreadable \in onDisk[f] /\ UNCHANGED <<memory, given>>
  /\ toWalk' = toWalk \ {f}
  /\ UNCHANGED <<disk, depth, stopped, onDisk>>

Read(f) == /\ Running /\ toWalk = {}
           /\ \E b \in Contents : ReadBytes(f, b) \/ DigestInto(f, b) \/ ReadHead(f, b)
           /\ UNCHANGED <<disk, depth, stopped, toWalk, onDisk>>

Next == \/ Open \/ Nest \/ Close
        \/ \E f \in Files : \/ Rewrite(f) \/ Stop(f)
                            \/ WalkBySize(f) \/ WalkByText(f) \/ Read(f)

Spec == Init /\ [][Next]_readVars

-----------------------------------------------------------------------------
Versions == Contents \cup {NoBytes}

ReadTypeOK ==
  /\ disk \in [Files -> Contents \cup {Unreadable}]
  /\ depth \in 0..2
  /\ stopped \in BOOLEAN
  /\ seen \in [Files -> Versions]
  /\ floor \in [Files -> {NoFloor, LinkTextMax}]
  /\ last \in [file : Files \cup {NoFile}, bytes : Versions]
  /\ toWalk \subseteq Files
  /\ onDisk \in [Files -> SUBSET (Contents \cup {Unreadable})]
  /\ given \in [Files -> SUBSET Contents]

(* Whatever a run read a file for (its kind, its analysis, its digest), it  *)
(* was given one version, while somebody rewrote the file in between.       *)
OneVersion == \A f \in Files : \A b, c \in given[f] : b = c

(* A file judged by its size alone never hands over bytes that size denies. *)
SizeAgrees == \A f \in Files : floor[f] # NoFloor => \A b \in given[f] : SizeOf[b] > floor[f]

(* Bytes were on disk during the run they are given in: nothing is kept     *)
(* from an earlier run.                                                     *)
GivenWasThere == \A f \in Files : given[f] \subseteq onDisk[f]

(* The three together: whatever somebody writes meanwhile, a run's reads     *)
(* agree with each other and with what was decided from them.               *)
ReadsAgree == OneVersion /\ SizeAgrees /\ GivenWasThere

(* The inductive form: what was given is what is recorded, what is held is  *)
(* what was given, and sizes are judged before anything is read.            *)
GivenIsSeen == depth > 0 => \A f \in Files : given[f] \subseteq {seen[f]}
SeenWasThere == \A f \in Files : seen[f] # NoBytes => seen[f] \in given[f]
HeldIsGiven == last # Nothing => last.file \in Files /\ last.bytes \in given[last.file]
WalkedFirst == \A f \in toWalk : floor[f] = NoFloor /\ given[f] = {}
DiskIsKnown == \A f \in Files : disk[f] \in onDisk[f]
ReadInv == /\ DiskIsKnown /\ ReadTypeOK /\ OneVersion /\ SizeAgrees /\ GivenWasThere
           /\ GivenIsSeen /\ SeenWasThere /\ HeldIsGiven /\ WalkedFirst

-----------------------------------------------------------------------------
(***************************************************************************)
(* _audit: one run over such a tree.  Each file goes to the first reader   *)
(* whose test its name and head pass; the manifest pass reads some files a *)
(* second time; a file that cannot be opened is listed.  A digest is the   *)
(* content digested.                                                       *)
(***************************************************************************)
CONSTANTS
  Names,     \* the kinds of file name the tree may hold
  Python, Shell, \* contents with such a shebang
  Compiled,  \* contents that begin as an executable does
  Binary,    \* contents with a NUL byte
  Flagged    \* contents a reader reports something in

VARIABLES
  name,     \* the kind of each file's name
  phase,    \* where _audit is
  cur,      \* the file it is at, and what is being done with it
  todo,     \* files this pass has yet to come to
  links,    \* files the walk took for links
  tree,     \* the digest entries: Absent, Unread or a content
  scanned,  \* files_scanned
  unscanned,\* files_by_extension: a count for each kind of name
  findings, \* files with a finding
  mtree,    \* files the manifest pass read
  judged    \* history: the contents each file was judged by

runVars == <<name, phase, cur, todo, links, tree, scanned, unscanned, findings, mtree, judged>>
auditVars == <<readVars, runVars>>

Absent == "absent"
UnreadDigest == "unread"
None == [file |-> NoFile, do |-> "none", test |-> 0]
Raises == "raises"

-----------------------------------------------------------------------------
(* The tests of the elif chain, in order: what the head must be, what an    *)
(* open that fails counts as, and the reader a pass leads to.               *)
Test(heads, failing, reader) == [heads |-> heads, failing |-> failing, reader |-> reader]

CompiledTest == Test(Compiled, Raises, "artifact")

Tests(n) ==
  CASE n = "bare" -> <<Test(Python, Raises, "source"), CompiledTest, Test(Shell, Raises, "script")>>
    [] n = "pth" -> <<Test(Contents \ Binary, "fails", "source"), Test(Binary, "passes", "artifact")>>
    [] n = "artifact" -> <<Test(Binary, "passes", "artifact")>>
    [] n \in {"js", "shell", "versioned"} -> <<CompiledTest>>
    [] OTHER -> <<>>

Otherwise(n) ==
  CASE n \in {"python", "setup", "notebook"} -> "source"
    [] n \in {"js", "shell", "included"} -> "script"
    [] n = "manifest" -> "leave"
    [] OTHER -> "count"

(* Fault in Swallows: no reader's failed open is listed. *)
AllSwallow(reader) == TRUE

(* _check_ecmascript, _check_markup and _check_script take an open that     *)
(* fails for a file with nothing in it.                                     *)
Swallows(reader) == reader = "script"

IsManifestPath(n) == n \in {"manifest", "setup"}
Included(n) == n = "required"          \* a requirements file named otherwise

At(f, do, test) == [file |-> f, do |-> do, test |-> test]

Dispatch(f, k) == IF k <= Len(Tests(name[f])) THEN At(f, "test", k) ELSE At(f, Otherwise(name[f]), 0)

-----------------------------------------------------------------------------
AuditInit ==
  /\ Init
  /\ name \in [Files -> Names]
  /\ phase = "idle" /\ cur = None /\ todo = {} /\ links = {}
  /\ tree = [f \in Files |-> Absent]
  /\ scanned = 0
  /\ unscanned = [n \in Names |-> 0]
  /\ findings = {} /\ mtree = {}
  /\ judged = [f \in Files |-> {}]

Judge(f, b) == judged' = [judged EXCEPT ![f] = @ \cup {b}]
Quiet == UNCHANGED <<disk, depth, stopped, toWalk, onDisk>>

Someone == \E f \in Files : Rewrite(f) /\ UNCHANGED runVars

Begin == phase = "idle" /\ Open /\ phase' = "walk"
         /\ UNCHANGED <<name, cur, todo, links, tree, scanned, unscanned, findings, mtree, judged>>

(* The walk leaves out what it takes for a link checked out as text. *)
Walk(f) == /\ phase = "walk"
           /\ WalkBySize(f) \/ WalkByText(f)
           /\ links' \in {links, links \cup {f}}
           /\ links' # links => floor'[f] = NoFloor /\ given'[f] # {}
           /\ UNCHANGED <<name, phase, cur, todo, tree, scanned, unscanned, findings, mtree, judged>>

Walked == Files \ links

EndWalk == /\ phase = "walk" /\ toWalk = {}
           /\ phase' = "source" /\ todo' = Walked
           /\ UNCHANGED <<readVars, name, cur, links, tree, scanned, unscanned, findings, mtree, judged>>

Counted(do) == do \in {"source", "script"}

(* The reader a file goes to counts it before it opens it. *)
GoTo(next) == /\ cur' = next
              /\ scanned' = scanned + (IF Counted(next.do) THEN 1 ELSE 0)

Take(f) == /\ phase = "source" /\ cur = None /\ f \in todo
           /\ todo' = todo \ {f}
           /\ GoTo(Dispatch(f, 1))
           /\ UNCHANGED <<readVars, name, phase, links, tree, unscanned, findings, mtree, judged>>

Passed(f, t) == GoTo(At(f, Tests(name[f])[t].reader, 0))
Missed(f, t) == GoTo(Dispatch(f, t + 1))

(* Fault in ListUnread: the file is tried again until it opens. *)
TriesAgain(f) == UNCHANGED auditVars

(* except OSError *)
ListUnread(f) == /\ findings' = findings \cup {f}
                 /\ tree' = [tree EXCEPT ![f] = UnreadDigest]
                 /\ cur' = None
                 /\ UNCHANGED <<readVars, name, phase, todo, links, unscanned, mtree, judged>>

TestHead == LET f == cur.file t == cur.test test == Tests(name[f])[t] IN
  /\ phase = "source" /\ cur.do = "test"
  /\ \/ \E b \in Contents : /\ ReadHead(f, b)
                            /\ Judge(f, b)
                            /\ IF b \in test.heads THEN Passed(f, t) ELSE Missed(f, t)
                            /\ Quiet
                            /\ UNCHANGED <<name, phase, todo, links, tree, unscanned, findings, mtree>>
     \/ /\ Fails(f) /\ test.failing # Raises
        /\ IF test.failing = "passes" THEN Passed(f, t) ELSE Missed(f, t)
        /\ UNCHANGED <<readVars, name, phase, todo, links, tree, unscanned, findings, mtree, judged>>
     \/ Fails(f) /\ test.failing = Raises /\ ListUnread(f) /\ UNCHANGED scanned

Analyse == LET f == cur.file IN
  /\ phase = "source" /\ Counted(cur.do)
  /\ \/ \E b \in Contents : /\ ReadBytes(f, b)
                            /\ Judge(f, b)
                            /\ findings' = IF b \in Flagged THEN findings \cup {f} ELSE findings
                            /\ cur' = At(f, "digest", 0)
                            /\ Quiet
                            /\ UNCHANGED <<name, phase, todo, links, tree, scanned, unscanned, mtree>>
     \/ /\ Fails(f) /\ Swallows(cur.do)
        /\ cur' = At(f, "digest", 0)
        /\ UNCHANGED <<readVars, name, phase, todo, links, tree, scanned, unscanned, findings, mtree, judged>>
     \/ Fails(f) /\ ~Swallows(cur.do) /\ ListUnread(f) /\ UNCHANGED scanned

Enter(f, b) == tree' = [tree EXCEPT ![f] = b]

Digest == LET f == cur.file IN
  /\ phase = "source" /\ cur.do = "digest"
  /\ \/ \E b \in Contents : ReadBytes(f, b) /\ Enter(f, b) /\ cur' = None /\ Quiet
                            /\ UNCHANGED <<name, phase, todo, links, scanned, unscanned, findings, mtree, judged>>
     \/ Fails(f) /\ ListUnread(f) /\ UNCHANGED scanned

(* An artifact is digested, held or as it streams, before it is reported. *)
DigestArtifact == LET f == cur.file IN
  /\ phase = "source" /\ cur.do = "artifact"
  /\ \/ \E b \in Contents : /\ ReadBytes(f, b) \/ DigestInto(f, b)
                            /\ Enter(f, b) /\ cur' = At(f, "describe", 0) /\ Quiet
                            /\ UNCHANGED <<name, phase, todo, links, scanned, unscanned, findings, mtree, judged>>
     \/ Fails(f) /\ ListUnread(f) /\ UNCHANGED scanned

(* What kind of executable it is, read again for the finding's text. *)
Describe == LET f == cur.file IN
  /\ phase = "source" /\ cur.do = "describe"
  /\ \/ \E b \in Contents : /\ ReadHead(f, b) /\ Judge(f, b)
                            /\ findings' = findings \cup {f} /\ cur' = None /\ Quiet
                            /\ UNCHANGED <<name, phase, todo, links, tree, scanned, unscanned, mtree>>
     \/ Fails(f) /\ ListUnread(f) /\ UNCHANGED scanned

Leave == /\ phase = "source" /\ cur.do \in {"leave", "count"}
         /\ unscanned' = [unscanned EXCEPT ![name[cur.file]] = @ + (IF cur.do = "count" THEN 1 ELSE 0)]
         /\ cur' = None
         /\ UNCHANGED <<readVars, name, phase, todo, links, tree, scanned, findings, mtree, judged>>

EndSource == /\ phase = "source" /\ cur = None /\ todo = {}
             /\ phase' = "manifests"
             /\ todo' = {f \in Walked : IsManifestPath(name[f])}
             /\ UNCHANGED <<readVars, name, cur, links, tree, scanned, unscanned, findings, mtree, judged>>

-----------------------------------------------------------------------------
(* _check_manifests. *)
NamedBy(f) == IF name[f] = "manifest" THEN {g \in Walked \ mtree : Included(name[g])} ELSE {}

ReadManifest(f) ==
  /\ phase = "manifests" /\ f \in todo
  /\ \/ \E b \in Contents : /\ ReadBytes(f, b)
                            /\ Judge(f, b)
                            /\ findings' = IF b \in Flagged THEN findings \cup {f} ELSE findings
                            /\ mtree' = mtree \cup {f}
                            /\ todo' = (todo \ {f}) \cup NamedBy(f)
                            /\ Quiet
                            /\ UNCHANGED <<name, phase, cur, links, tree, scanned, unscanned>>
     \/ /\ Fails(f)
        /\ findings' = findings \cup {f}
        /\ todo' = todo \ {f}
        /\ UNCHANGED <<readVars, name, phase, cur, links, tree, scanned, unscanned, mtree, judged>>

EndManifests == /\ phase = "manifests" /\ todo = {}
                /\ phase' = "merge" /\ todo' = mtree
                /\ UNCHANGED <<readVars, name, cur, links, tree, scanned, unscanned, findings, mtree, judged>>

(* Each manifest's digest; what the source pass entered is entered once, and *)
(* what it counted as not read is taken back.                               *)
NeverAlready(f) == FALSE               \* Fault in Already: each manifest is entered anew.
Already(f) == tree[f] # Absent

KeptCount(f) == unscanned              \* Fault in TakenBack: the count is left as it was.
TakenBack(f) == IF Already(f) \/ IsManifestPath(name[f]) \/ unscanned[name[f]] = 0 THEN unscanned
                ELSE [unscanned EXCEPT ![name[f]] = @ - 1]

Merge(f) ==
  /\ phase = "merge" /\ f \in todo
  /\ todo' = todo \ {f}
  /\ \E b \in Contents : ReadBytes(f, b) /\ IF Already(f) THEN UNCHANGED tree ELSE Enter(f, b)
  /\ Quiet
  /\ scanned' = IF Already(f) THEN scanned ELSE scanned + 1
  /\ unscanned' = TakenBack(f)
  /\ UNCHANGED <<name, phase, cur, links, findings, mtree, judged>>

(* An OSError outside the source pass's except ends the run in main; a file  *)
(* that changed ends it in _cli.run.                                        *)
CurrentReads == CASE phase = "source" /\ cur.do \notin {"none", "leave", "count"} -> {cur.file}
                  [] phase \in {"manifests", "merge"} -> todo
                  [] phase = "walk" -> toWalk
                  [] OTHER -> {}

Abort == /\ \/ phase = "merge" /\ (\E f \in todo : Fails(f)) /\ UNCHANGED readVars
            \/ \E f \in CurrentReads : Stop(f)
         /\ phase' = "aborted"
         /\ UNCHANGED <<name, cur, todo, links, tree, scanned, unscanned, findings, mtree, judged>>

Report == /\ phase = "merge" /\ todo = {}
          /\ phase' = "reported"
          /\ UNCHANGED <<readVars, name, cur, todo, links, tree, scanned, unscanned, findings, mtree, judged>>

Verdict == IF findings # {} THEN "FINDINGS" ELSE IF scanned = 0 THEN "NOT-ANALYSED" ELSE "CLEAN"

ExitCode == IF phase = "reported" THEN CASE Verdict = "CLEAN" -> 0 [] Verdict = "FINDINGS" -> 1 [] OTHER -> 2
                                  ELSE 2

RunStep == \/ Begin \/ EndWalk \/ TestHead \/ Analyse \/ Digest \/ DigestArtifact \/ Describe \/ Leave
           \/ EndSource \/ EndManifests \/ Abort \/ Report
           \/ \E f \in Files : Walk(f) \/ Take(f) \/ ReadManifest(f) \/ Merge(f)

AuditNext == RunStep \/ Someone

AuditSpec == AuditInit /\ [][AuditNext]_auditVars

(* The run itself is scheduled; nothing is asked of whoever writes. *)
FairAudit == AuditSpec /\ WF_auditVars(RunStep)

-----------------------------------------------------------------------------
(* The digest a report carries binds the very contents that decided each    *)
(* file's reader and were analysed, while somebody rewrote files in between. *)
JudgedIsDigested == phase = "reported" =>
  \A f \in Files : tree[f] \in Contents => judged[f] \subseteq {tree[f]}

(* "no run reports a clean result over it" (10886): exit code 0 means that   *)
(* no file stands as unread and that every file in the digest was judged by *)
(* the content digested.                                                    *)
CleanIsRead == ExitCode = 0 =>
  \A f \in Walked : /\ tree[f] # UnreadDigest
                    /\ tree[f] \in Contents => tree[f] \in judged[f]

(* Every walked file is in the digest, counted as not read, or a manifest    *)
(* reported as unread: one of the three, and once.                          *)
NotInDigest == {f \in Walked : tree[f] = Absent /\ IsManifestPath(name[f])}
EachFileOnce == phase = "reported" =>
  /\ NotInDigest \subseteq findings
  /\ \A n \in Names : unscanned[n] = Cardinality({f \in Walked \ NotInDigest : tree[f] = Absent /\ name[f] = n})

(* files_scanned counts what readers were given: no more than stands in the  *)
(* digest, and no less than what of it is neither an artifact nor unread.   *)
ScannedIsRead == phase = "reported" =>
  LET entered == {f \in Walked : tree[f] # Absent}
  IN  /\ scanned <= Cardinality(entered)
      /\ scanned >= Cardinality(entered \ findings)

(* Together: each file is accounted for, by what was read of it.            *)
FilesAccounted == EachFileOnce /\ ScannedIsRead /\ JudgedIsDigested

(* A run ends, whoever writes to the tree meanwhile.                        *)
RunEnds == phase = "walk" ~> phase \in {"reported", "aborted"}
=============================================================================
