--------------------------- MODULE AuditRun_proofs ---------------------------
(***************************************************************************)
(* Theorems about the reads of AuditRun, for every set of files and        *)
(* contents, about its audits, for every finite tree: whatever its files   *)
(* hold, while somebody writes to them; about StreamDigest, for files of   *)
(* every length, however they are cut; and about Inventory, for every      *)
(* walk and every mix of contents, while somebody rewrites and locks them. *)
(***************************************************************************)
EXTENDS AuditRun, StreamDigest, Inventory, FiniteSetTheorems, SequenceTheorems, TLAPS

-----------------------------------------------------------------------------
(* A run begins with nothing given, and so does the program. *)
LEMMA InitInv == Init => ReadInv
<1> SUFFICES ASSUME Init PROVE ReadInv
  OBVIOUS
<1>1. ReadTypeOK
  <2>1. /\ disk \in [Files -> Contents \cup {Unreadable}]
        /\ onDisk \in [Files -> SUBSET (Contents \cup {Unreadable})]
    BY DEF Init
  <2>2. depth \in 0..2 /\ toWalk \subseteq Files
    BY DEF Init
  <2>3. stopped \in BOOLEAN
    BY Zenon DEF Init
  <2>4. seen \in [Files -> Versions] /\ floor \in [Files -> {NoFloor, LinkTextMax}]
    BY DEF Init, Versions
  <2>5. given \in [Files -> SUBSET Contents]
    BY DEF Init
  <2>6. last \in [file : Files \cup {NoFile}, bytes : Versions]
    BY DEF Init, Nothing, Versions
  <2>7. QED  BY <2>1, <2>2, <2>3, <2>4, <2>5, <2>6 DEF ReadTypeOK
<1>2. OneVersion /\ SizeAgrees /\ GivenWasThere /\ DiskIsKnown
  BY DEF Init, OneVersion, SizeAgrees, GivenWasThere, DiskIsKnown
<1>3. GivenIsSeen /\ SeenWasThere /\ HeldIsGiven /\ WalkedFirst
  BY DEF Init, GivenIsSeen, SeenWasThere, HeldIsGiven, WalkedFirst
<1>4. QED  BY <1>1, <1>2, <1>3 DEF ReadInv

(* Bytes that were not refused may be given: they are the recorded version. *)
LEMMA DiskStep ==
  ASSUME ReadInv, Running, NEW f \in Files, NEW b \in Contents, FromDisk(f, b),
         last' = last \/ last' = [file |-> f, bytes |-> b],
         UNCHANGED <<disk, depth, stopped, onDisk>>,
         toWalk' = toWalk \ {f}
  PROVE  ReadInv'
<1>1. /\ b = disk[f] /\ ~Refused(f, b)
      /\ seen' = [seen EXCEPT ![f] = b]
      /\ given' = [given EXCEPT ![f] = @ \cup {b}]
      /\ floor' = floor
  BY DEF FromDisk, Record, Give
<1>2. ReadTypeOK'
  BY <1>1 DEF ReadInv, ReadTypeOK, Versions
<1>3. OneVersion'
  BY <1>1, SentinelsAssumption DEF ReadInv, ReadTypeOK, OneVersion, GivenIsSeen, Refused, Running
<1>4. SizeAgrees'
  <2> SUFFICES ASSUME NEW g \in Files, floor'[g] # NoFloor, NEW c \in given'[g]
               PROVE  SizeOf[c] > floor'[g]
    BY DEF SizeAgrees
  <2>1. CASE c \in given[g]
    BY <1>1, <2>1 DEF ReadInv, SizeAgrees
  <2>2. CASE g = f /\ c = b
    <3>1. SizeOf[b] \in Int /\ floor[f] \in Int
      BY SizesAssumption DEF ReadInv, ReadTypeOK, NoFloor
    <3>2. QED  BY <1>1, <2>2, <3>1 DEF Refused
  <2>3. QED  BY <1>1, <2>1, <2>2 DEF ReadInv, ReadTypeOK
<1>5. GivenWasThere' /\ DiskIsKnown'
  BY <1>1 DEF ReadInv, ReadTypeOK, GivenWasThere, DiskIsKnown
<1>6. GivenIsSeen' /\ SeenWasThere'
  BY <1>1, SentinelsAssumption DEF ReadInv, ReadTypeOK, GivenIsSeen, SeenWasThere, Refused, Running
<1>7. HeldIsGiven'
  BY <1>1 DEF ReadInv, ReadTypeOK, HeldIsGiven, Nothing
<1>8. WalkedFirst'
  BY <1>1 DEF ReadInv, ReadTypeOK, WalkedFirst
<1>9. QED  BY <1>2, <1>3, <1>4, <1>5, <1>6, <1>7, <1>8 DEF ReadInv

(* The file read last answers with bytes that were given before. *)
LEMMA MemoryStep ==
  ASSUME ReadInv, Running, NEW f \in Files, NEW b \in Contents, FromMemory(f, b),
         UNCHANGED <<disk, depth, stopped, onDisk>>,
         toWalk' = toWalk \ {f}
  PROVE  ReadInv'
<1>1. last # Nothing
  BY SentinelsAssumption DEF FromMemory, Nothing
<1>2. b \in given[f]
  BY <1>1 DEF ReadInv, HeldIsGiven, FromMemory
<1>3. given' = given
  BY <1>2 DEF FromMemory, Give, ReadInv, ReadTypeOK
<1>4. UNCHANGED <<seen, floor, last>>
  BY DEF FromMemory, memory
<1>5. ReadTypeOK' /\ OneVersion' /\ SizeAgrees' /\ GivenWasThere' /\ DiskIsKnown'
  BY <1>3, <1>4 DEF ReadInv, ReadTypeOK, OneVersion, SizeAgrees, GivenWasThere, DiskIsKnown
<1>6. GivenIsSeen' /\ SeenWasThere' /\ HeldIsGiven' /\ WalkedFirst'
  BY <1>3, <1>4 DEF ReadInv, GivenIsSeen, SeenWasThere, HeldIsGiven, WalkedFirst, Nothing
<1>7. QED  BY <1>5, <1>6 DEF ReadInv

(* Either of the two is what a read of any kind does. *)
LEMMA ReadStep ==
  ASSUME ReadInv, Running, NEW f \in Files, NEW b \in Contents,
         ReadBytes(f, b) \/ DigestInto(f, b) \/ ReadHead(f, b),
         UNCHANGED <<disk, depth, stopped, onDisk>>,
         toWalk' = toWalk \ {f}
  PROVE  ReadInv'
<1>1. \/ FromMemory(f, b)
      \/ FromDisk(f, b) /\ (last' = last \/ last' = [file |-> f, bytes |-> b])
  BY DEF ReadBytes, DigestInto, ReadHead, Stream
<1>2. CASE FromMemory(f, b)
  BY <1>2, MemoryStep
<1>3. CASE FromDisk(f, b) /\ (last' = last \/ last' = [file |-> f, bytes |-> b])
  BY <1>3, DiskStep
<1>4. QED  BY <1>1, <1>2, <1>3

(* A file judged by its size has not been read: the walk is the first pass. *)
LEMMA SizeStep ==
  ASSUME ReadInv, NEW f \in Files, WalkBySize(f)
  PROVE  ReadInv'
<1>1. /\ f \in toWalk /\ toWalk' = toWalk \ {f}
      /\ floor' = [floor EXCEPT ![f] = LinkTextMax]
      /\ UNCHANGED <<disk, depth, stopped, seen, last, onDisk, given>>
  BY DEF WalkBySize
<1>2. ReadTypeOK' /\ OneVersion' /\ GivenWasThere' /\ DiskIsKnown'
  BY <1>1 DEF ReadInv, ReadTypeOK, OneVersion, GivenWasThere, DiskIsKnown
<1>3. SizeAgrees'
  BY <1>1 DEF ReadInv, ReadTypeOK, SizeAgrees, WalkedFirst
<1>4. GivenIsSeen' /\ SeenWasThere' /\ HeldIsGiven' /\ WalkedFirst'
  BY <1>1 DEF ReadInv, ReadTypeOK, GivenIsSeen, SeenWasThere, HeldIsGiven, WalkedFirst, Nothing
<1>5. QED  BY <1>2, <1>3, <1>4 DEF ReadInv

LEMMA StepInv == ReadInv /\ [Next]_readVars => ReadInv'
<1> SUFFICES ASSUME ReadInv, [Next]_readVars PROVE ReadInv'
  OBVIOUS
<1> USE DEF ReadInv
<1>1. CASE Open
  <2>1. ReadTypeOK'
    <3>1. /\ disk' \in [Files -> Contents \cup {Unreadable}]
          /\ onDisk' \in [Files -> SUBSET (Contents \cup {Unreadable})]
      BY <1>1 DEF Open, ReadTypeOK
    <3>2. depth' \in 0..2 /\ toWalk' \subseteq Files
      BY <1>1 DEF Open
    <3>3. stopped' \in BOOLEAN
      BY <1>1, Zenon DEF Open
    <3>4. seen' \in [Files -> Versions] /\ floor' \in [Files -> {NoFloor, LinkTextMax}]
      BY <1>1 DEF Open, Fresh, Versions
    <3>5. given' \in [Files -> SUBSET Contents]
      BY <1>1 DEF Open
    <3>6. last' \in [file : Files \cup {NoFile}, bytes : Versions]
      BY <1>1 DEF Open, Fresh, Nothing, Versions
    <3>7. QED  BY <3>1, <3>2, <3>3, <3>4, <3>5, <3>6 DEF ReadTypeOK
  <2>2. OneVersion' /\ SizeAgrees' /\ GivenWasThere' /\ DiskIsKnown'
    BY <1>1 DEF Open, Fresh, ReadTypeOK, OneVersion, SizeAgrees, GivenWasThere, DiskIsKnown
  <2>3. GivenIsSeen' /\ SeenWasThere' /\ HeldIsGiven' /\ WalkedFirst'
    BY <1>1 DEF Open, Fresh, GivenIsSeen, SeenWasThere, HeldIsGiven, WalkedFirst
  <2>4. QED  BY <2>1, <2>2, <2>3
<1>2. CASE Nest
  BY <1>2 DEF Nest, Running, ReadTypeOK, OneVersion, SizeAgrees, GivenWasThere, DiskIsKnown, GivenIsSeen,
     SeenWasThere, HeldIsGiven, WalkedFirst, Nothing
<1>3. CASE Close
  <2>1. depth' \in 0..2 /\ UNCHANGED <<disk, stopped, toWalk, onDisk, given>>
    BY <1>3 DEF Close, ReadTypeOK
  <2>2. CASE Fresh /\ depth' = 0
    <3>1. ReadTypeOK'
      BY <2>1, <2>2 DEF Fresh, ReadTypeOK, Nothing, Versions, NoFloor
    <3>2. OneVersion' /\ SizeAgrees' /\ GivenWasThere' /\ DiskIsKnown'
      BY <2>1, <2>2 DEF Fresh, OneVersion, SizeAgrees, GivenWasThere, DiskIsKnown
    <3>3. GivenIsSeen' /\ SeenWasThere' /\ HeldIsGiven' /\ WalkedFirst'
      BY <2>1, <2>2 DEF Fresh, ReadTypeOK, GivenIsSeen, SeenWasThere, HeldIsGiven, WalkedFirst
    <3>4. QED  BY <3>1, <3>2, <3>3
  <2>3. CASE UNCHANGED memory
    <3>1. ReadTypeOK' /\ OneVersion' /\ SizeAgrees' /\ GivenWasThere' /\ DiskIsKnown'
      BY <2>1, <2>3 DEF memory, ReadTypeOK, OneVersion, SizeAgrees, GivenWasThere, DiskIsKnown
    <3>2. depth > 0
      BY <1>3 DEF Close
    <3>3. GivenIsSeen' /\ SeenWasThere' /\ HeldIsGiven' /\ WalkedFirst'
      BY <2>1, <2>3, <3>2 DEF memory, GivenIsSeen, SeenWasThere, HeldIsGiven, WalkedFirst, Nothing
    <3>4. QED  BY <3>1, <3>3
  <2>4. QED  BY <1>3, <2>2, <2>3 DEF Close
<1>4. ASSUME NEW f \in Files, Rewrite(f) PROVE ReadInv'
  <2>1. PICK c \in Contents \cup {Unreadable} : /\ disk' = [disk EXCEPT ![f] = c]
                                               /\ onDisk' = [onDisk EXCEPT ![f] = @ \cup {c}]
    BY <1>4 DEF Rewrite
  <2>2. UNCHANGED <<depth, stopped, seen, floor, last, toWalk, given>>
    BY <1>4 DEF Rewrite
  <2>3. ReadTypeOK' /\ GivenWasThere' /\ DiskIsKnown'
    BY <2>1, <2>2 DEF ReadTypeOK, GivenWasThere, DiskIsKnown
  <2>4. OneVersion' /\ SizeAgrees' /\ GivenIsSeen' /\ SeenWasThere' /\ HeldIsGiven' /\ WalkedFirst'
    BY <2>2 DEF OneVersion, SizeAgrees, GivenIsSeen, SeenWasThere, HeldIsGiven, WalkedFirst, Nothing
  <2>5. QED  BY <2>3, <2>4
<1>5. ASSUME NEW f \in Files, Stop(f) PROVE ReadInv'
  BY <1>5 DEF Stop, ReadTypeOK, OneVersion, SizeAgrees, GivenWasThere, DiskIsKnown, GivenIsSeen,
     SeenWasThere, HeldIsGiven, WalkedFirst, Nothing
<1>6. ASSUME NEW f \in Files, WalkBySize(f) PROVE ReadInv'
  BY <1>6, SizeStep
<1>7. ASSUME NEW f \in Files, WalkByText(f) PROVE ReadInv'
  <2>1. /\ Running /\ f \in toWalk /\ toWalk' = toWalk \ {f}
        /\ UNCHANGED <<disk, depth, stopped, onDisk>>
    BY <1>7 DEF WalkByText
  <2>2. CASE \E b \in Contents : ReadBytes(f, b)
    BY <2>1, <2>2, ReadStep
  <2>3. CASE UNCHANGED <<memory, given>>
    BY <2>1, <2>3 DEF memory, ReadTypeOK, OneVersion, SizeAgrees, GivenWasThere, DiskIsKnown, GivenIsSeen,
       SeenWasThere, HeldIsGiven, WalkedFirst, Nothing
  <2>4. QED  BY <1>7, <2>2, <2>3 DEF WalkByText
<1>8. ASSUME NEW f \in Files, Read(f) PROVE ReadInv'
  <2>1. /\ Running /\ toWalk' = toWalk \ {f}
        /\ UNCHANGED <<disk, depth, stopped, onDisk>>
    BY <1>8 DEF Read
  <2>2. PICK b \in Contents : ReadBytes(f, b) \/ DigestInto(f, b) \/ ReadHead(f, b)
    BY <1>8 DEF Read
  <2>3. QED  BY <2>1, <2>2, ReadStep
<1>9. CASE UNCHANGED readVars
  BY <1>9 DEF readVars, ReadTypeOK, OneVersion, SizeAgrees, GivenWasThere, DiskIsKnown, GivenIsSeen,
     SeenWasThere, HeldIsGiven, WalkedFirst, Nothing
<1>10. QED
  BY <1>1, <1>2, <1>3, <1>4, <1>5, <1>6, <1>7, <1>8, <1>9 DEF Next

(* The promises of _reads.py follow from the inductive invariant. *)
LEMMA RunInvariant == Spec => []ReadInv
BY InitInv, StepInv, PTL DEF Spec

(* A run's reads agree with each other and with what was decided from them. *)
THEOREM ReadsAlwaysAgree == Spec => []ReadsAgree
BY RunInvariant, PTL DEF ReadInv, ReadsAgree

(* Analysis, type check and digest of a file are about the same bytes. *)
THEOREM OneVersionPerRun == Spec => []OneVersion
BY RunInvariant, PTL DEF ReadInv

(* No read of a file contradicts what was decided from its size. *)
THEOREM SizesAgree == Spec => []SizeAgrees
BY RunInvariant, PTL DEF ReadInv

(* A run's bytes are its own: none survive from an earlier run. *)
THEOREM RunsAreFresh == Spec => []GivenWasThere
BY RunInvariant, PTL DEF ReadInv

-----------------------------------------------------------------------------
\* A tree is finite, and an entry that stands for no content is none.
AuditConstants == IsFiniteSet(Files) /\ Absent \notin Contents /\ UnreadDigest \notin Contents

-----------------------------------------------------------------------------
Dos == {"test", "source", "script", "digest", "artifact", "describe", "leave", "count"}

AuditTypeOK ==
  /\ name \in [Files -> Names]
  /\ phase \in {"idle", "walk", "source", "manifests", "merge", "aborted", "reported"}
  /\ cur = None \/ cur \in [file : Files, do : Dos, test : Nat]
  /\ todo \subseteq Files /\ links \subseteq Files
  /\ tree \in [Files -> Contents \cup {Absent, UnreadDigest}]
  /\ scanned \in Nat
  /\ unscanned \in [Names -> Nat]
  /\ findings \subseteq Files /\ mtree \subseteq Files
  /\ judged \in [Files -> SUBSET Contents]

(***************************************************************************)
(* The passes follow each other inside one run, and the walk, in which a   *)
(* file may still be judged by its size, is over before any is read.       *)
(***************************************************************************)
Passes ==
  /\ phase \in {"idle", "walk"} =>
       /\ todo = {} /\ mtree = {} /\ findings = {} /\ scanned = 0
       /\ \A f \in Files : tree[f] = Absent /\ judged[f] = {}
       /\ \A n \in Names : unscanned[n] = 0
  /\ phase \in {"walk", "source", "manifests", "merge"} => Running
  /\ phase \in {"source", "manifests", "merge"} => toWalk = {}
  /\ phase \notin {"source", "aborted"} => cur = None

\* What a file was judged by, and what of it was digested, is what readers were given.
DigestsGiven ==
  \A f \in Files : judged[f] \subseteq given[f] /\ (tree[f] \in Contents => tree[f] \in given[f])

(***************************************************************************)
(* The source pass comes to each walked file once, and the file it is at   *)
(* is not in the digest until its reader is done.                          *)
(***************************************************************************)
SourcePass == phase = "source" =>
  /\ todo \subseteq Walked /\ mtree = {}
  /\ \A f \in todo : tree[f] = Absent
  /\ cur # None =>
       /\ cur.file \in Walked \ todo
       /\ IF cur.do = "describe" THEN tree[cur.file] # Absent ELSE tree[cur.file] = Absent
       /\ cur.do = "test" => cur.test \in 1..Len(Tests(name[cur.file]))
       /\ cur.do = "leave" => IsManifestPath(name[cur.file])
       /\ cur.do = "count" => ~IsManifestPath(name[cur.file])

(***************************************************************************)
(* The manifest pass reads each manifest or lists it, and each one read is *)
(* entered.                                                                *)
(***************************************************************************)
ManifestPass ==
  /\ phase \in {"manifests", "merge"} =>
       /\ todo \subseteq Walked /\ mtree \subseteq Walked
       /\ \A f \in mtree : judged[f] # {}
  /\ phase = "manifests" =>
       /\ \A f \in Walked : IsManifestPath(name[f]) => f \in todo \cup mtree \cup findings
  /\ phase \in {"merge", "reported"} =>
       /\ todo \subseteq mtree
       /\ \A f \in mtree : f \in todo \/ tree[f] # Absent
       /\ \A f \in Walked : IsManifestPath(name[f]) => f \in mtree \cup findings
  /\ phase = "reported" => todo = {}

\* What the pass has yet to come to, or is at.
Pending == IF phase = "source" THEN todo \cup {cur.file} ELSE {}

LeftOut(n) == {f \in Walked \ Pending : tree[f] = Absent /\ name[f] = n /\ ~IsManifestPath(n)}

AfterWalk == phase \in {"source", "manifests", "merge", "reported"}

CountsAgree == AfterWalk => \A n \in Names : unscanned[n] = Cardinality(LeftOut(n))

Entered == {f \in Walked : tree[f] # Absent}
InReader == IF cur.do \in {"source", "script", "digest"} THEN 1 ELSE 0
Describing == IF cur.do = "describe" THEN {cur.file} ELSE {}

ScansAgree == AfterWalk =>
  /\ scanned <= Cardinality(Entered) + InReader
  /\ Cardinality((Entered \ findings) \ Describing) + InReader <= scanned

(***************************************************************************)
(* What is digested was judged, or is in a finding.  A file that a CI file *)
(* includes comes to its reader with no test before it, and is judged only *)
(* if that reader can open it.                                             *)
(***************************************************************************)
IsIncluded(f) == name[f] = "included"

JudgedFirst ==
  /\ \A f \in Files : tree[f] = UnreadDigest => f \in findings
  /\ \A f \in Files : tree[f] \in Contents => judged[f] # {} \/ IsIncluded(f) \/ f \in findings \cup Describing
  /\ cur.do \in {"script", "digest"} => judged[cur.file] # {} \/ IsIncluded(cur.file)

PassInv == AuditTypeOK /\ Passes /\ SourcePass /\ ManifestPass
AuditInv == PassInv /\ ReadInv /\ DigestsGiven /\ CountsAgree /\ ScansAgree /\ JudgedFirst

-----------------------------------------------------------------------------
LEMMA AtFile ==
  ASSUME AuditTypeOK
  PROVE  /\ cur.do = "none" <=> cur = None
         /\ cur # None => cur.file \in Files /\ cur.do \in Dos /\ cur.test \in Nat
BY DEF AuditTypeOK, None, Dos

(***************************************************************************)
(* Every step of an audit is a step of a run that reads as _reads.py does. *)
(***************************************************************************)
LEMMA ReadsAsOneRun ==
  ASSUME AuditTypeOK, Passes, ReadInv, [AuditNext]_auditVars
  PROVE  [Next]_readVars
<1>1. ASSUME phase \in {"source", "manifests", "merge"}, Quiet,
             NEW f \in Files, NEW b \in Contents, ReadBytes(f, b) \/ DigestInto(f, b) \/ ReadHead(f, b)
      PROVE  Next
  BY <1>1 DEF Passes, Quiet, Read, Next
<1>2. CASE UNCHANGED auditVars
  BY <1>2 DEF auditVars
<1>3. CASE \E f \in Files : Walk(f)
  BY <1>3 DEF Walk, Next
<1>4. CASE Begin \/ Someone
  BY <1>4 DEF Begin, Someone, Next
<1>5. CASE EndWalk \/ Leave \/ EndSource \/ EndManifests \/ Report \/ (\E f \in Files : Take(f))
  BY <1>5 DEF EndWalk, Leave, EndSource, EndManifests, Report, Take
<1>6. CASE TestHead
  <2>1. cur.file \in Files
    BY <1>6, AtFile DEF TestHead, None
  <2> QED BY <1>1, <1>6, <2>1 DEF TestHead, ListUnread
<1>7. CASE Analyse
  <2>1. cur.file \in Files
    BY <1>7, AtFile DEF Analyse, Counted, None
  <2> QED BY <1>1, <1>7, <2>1 DEF Analyse, ListUnread
<1>8. CASE Digest \/ DigestArtifact \/ Describe
  <2>1. cur.file \in Files
    BY <1>8, AtFile DEF Digest, DigestArtifact, Describe, None
  <2> QED BY <1>1, <1>8, <2>1 DEF Digest, DigestArtifact, Describe, ListUnread
<1>9. CASE \E f \in Files : ReadManifest(f) \/ Merge(f)
  BY <1>1, <1>9 DEF ReadManifest, Merge
<1>10. CASE Abort
  <2>1. CurrentReads \subseteq Files
    BY AtFile DEF CurrentReads, AuditTypeOK, ReadInv, ReadTypeOK, None
  <2> QED BY <1>10, <2>1 DEF Abort, Next
<1> QED BY <1>2, <1>3, <1>4, <1>5, <1>6, <1>7, <1>8, <1>9, <1>10 DEF AuditNext, RunStep

-----------------------------------------------------------------------------
(***************************************************************************)
(* The passes.  What each step of the source pass does to the file it is   *)
(* at: it goes on with it, lists it as unread, or is done with it.         *)
(***************************************************************************)
\* The readers a file's tests lead to.
LEMMA ReadersOf ==
  ASSUME NEW n, NEW t \in 1..Len(Tests(n))
  PROVE  /\ Tests(n)[t].reader \in {"source", "script", "artifact"}
         /\ Tests(n)[t].failing # Raises => n = "pth" \/ n = "artifact"
         /\ t + 1 \in Nat
BY DEF Tests, Test, CompiledTest, Raises

\* Where a file may be sent by its name, and by its tests.
Fits(f, next) ==
  /\ next \in [file : Files, do : Dos, test : Nat] /\ next.file = f /\ next # None
  /\ next.do \notin {"digest", "describe"}
  /\ next.do = "test" => next.test \in 1..Len(Tests(name[f]))
  /\ next.do = "leave" => IsManifestPath(name[f])
  /\ next.do = "count" => ~IsManifestPath(name[f])

LEMMA DispatchFits ==
  ASSUME AuditTypeOK, NEW f \in Files, NEW k \in Nat \ {0}
  PROVE  Fits(f, Dispatch(f, k))
<1>1. Len(Tests(name[f])) \in Nat
  BY DEF Tests, CompiledTest, Test
<1>2. Otherwise(name[f]) \in {"source", "script", "leave", "count"}
  BY DEF Otherwise
<1>3. /\ Otherwise(name[f]) = "leave" => IsManifestPath(name[f])
      /\ Otherwise(name[f]) = "count" => ~IsManifestPath(name[f])
  BY DEF Otherwise, IsManifestPath
<1>4. f # NoFile
  BY SentinelsAssumption
<1> QED BY <1>1, <1>2, <1>3, <1>4 DEF Fits, Dispatch, At, Dos, None

\* A test lists the file as unread or sends it on; only a head that was read sends it to a script's reader.
LEMMA TestStep ==
  ASSUME AuditTypeOK, SourcePass, TestHead
  PROVE  /\ phase = "source" /\ cur # None /\ cur.do = "test" /\ cur.file \in Files
         /\ \/ ListUnread(cur.file) /\ UNCHANGED scanned
            \/ \E next : /\ Fits(cur.file, next) /\ GoTo(next)
                         /\ UNCHANGED <<name, phase, todo, links, tree, unscanned, findings, mtree>>
                         /\ \/ \E b \in Contents : ReadHead(cur.file, b) /\ Judge(cur.file, b)
                            \/ UNCHANGED <<judged, readVars>> /\ next.do # "script"
<1> DEFINE f == cur.file
           t == cur.test
<1>1. /\ cur # None /\ cur.do = "test" /\ f \in Files /\ t \in 1..Len(Tests(name[f]))
      /\ t \in Nat /\ f # NoFile /\ phase = "source"
  BY AtFile, SentinelsAssumption DEF TestHead, None, SourcePass
<1> DEFINE pass == At(f, Tests(name[f])[t].reader, 0)
           miss == Dispatch(f, t + 1)
<1>2. /\ Tests(name[f])[t].reader \in {"source", "script", "artifact"}
      /\ Tests(name[f])[t].failing # Raises => name[f] \in {"pth", "artifact"}
  BY <1>1, ReadersOf
<1>3. Fits(f, pass)
  BY <1>1, <1>2 DEF Fits, At, Dos, None
<1>4. Fits(f, miss)
  BY <1>1, DispatchFits
<1>5. name[f] \in {"pth", "artifact"} => pass.do # "script" /\ miss.do # "script"
  BY <1>1 DEF Tests, Test, CompiledTest, At, Dispatch, Otherwise
<1> HIDE DEF pass, miss
<1>6. CASE ListUnread(f) /\ UNCHANGED scanned
  BY <1>1, <1>6
<1>7. ASSUME NEW b \in Contents, ReadHead(f, b), Judge(f, b), GoTo(pass) \/ GoTo(miss),
             UNCHANGED <<name, phase, todo, links, tree, unscanned, findings, mtree>>
      PROVE  \E next : /\ Fits(f, next) /\ GoTo(next)
                      /\ UNCHANGED <<name, phase, todo, links, tree, unscanned, findings, mtree>>
                      /\ \/ \E c \in Contents : ReadHead(f, c) /\ Judge(f, c)
                         \/ UNCHANGED <<judged, readVars>> /\ next.do # "script"
  BY <1>3, <1>4, <1>7
<1>8. ASSUME Tests(name[f])[t].failing # Raises, GoTo(pass) \/ GoTo(miss),
             UNCHANGED <<readVars, name, phase, todo, links, tree, unscanned, findings, mtree, judged>>
      PROVE  \E next : /\ Fits(f, next) /\ GoTo(next)
                      /\ UNCHANGED <<name, phase, todo, links, tree, unscanned, findings, mtree>>
                      /\ \/ \E c \in Contents : ReadHead(f, c) /\ Judge(f, c)
                         \/ UNCHANGED <<judged, readVars>> /\ next.do # "script"
  BY <1>2, <1>3, <1>4, <1>5, <1>8
<1>9. \/ \E b \in Contents :
           /\ ReadHead(f, b) /\ Judge(f, b) /\ (GoTo(pass) \/ GoTo(miss))
           /\ UNCHANGED <<name, phase, todo, links, tree, unscanned, findings, mtree>>
      \/ /\ Tests(name[f])[t].failing # Raises /\ (GoTo(pass) \/ GoTo(miss))
         /\ UNCHANGED <<readVars, name, phase, todo, links, tree, unscanned, findings, mtree, judged>>
      \/ ListUnread(f) /\ UNCHANGED scanned
  BY DEF TestHead, Passed, Missed, pass, miss
<1> QED BY <1>1, <1>6, <1>7, <1>8, <1>9

\* A file goes on to its next reader, or from it to the digest.
GoesOn(f, next) ==
  /\ cur.do \in {"test", "source", "script"}
  /\ next \in [file : Files, do : Dos, test : Nat] /\ next.file = f /\ next # None
  /\ next.do # "describe" /\ (cur.do # "test" => next.do = "digest")
  /\ next.do = "test" => next.test \in 1..Len(Tests(name[f]))
  /\ next.do = "leave" => IsManifestPath(name[f])
  /\ next.do = "count" => ~IsManifestPath(name[f])
  /\ cur' = next
  /\ scanned' = scanned + InReader' - InReader
  /\ findings' \in {findings, findings \cup {f}}
  /\ UNCHANGED <<name, phase, todo, links, tree, unscanned, mtree>>

\* Its digest is entered, and then an executable is described.
IsEntered(f, b) ==
  /\ Enter(f, b)
  /\ \/ cur.do = "digest" /\ cur' = None
     \/ cur.do = "artifact" /\ cur' = At(f, "describe", 0)
  /\ UNCHANGED <<name, phase, todo, links, scanned, unscanned, findings, mtree, judged>>

IsDescribed(f) ==
  /\ cur.do = "describe" /\ cur' = None
  /\ findings' = findings \cup {f}
  /\ UNCHANGED <<name, phase, todo, links, tree, scanned, unscanned, mtree>>

LEMMA SourceStep ==
  ASSUME AuditTypeOK, SourcePass,
         TestHead \/ Analyse \/ Digest \/ DigestArtifact \/ Describe
  PROVE  /\ phase = "source" /\ cur # None /\ cur.file \in Walked \ todo /\ cur.file \in Files
         /\ cur.do \in Dos
         /\ \/ ListUnread(cur.file) /\ UNCHANGED scanned
            \/ \E next : GoesOn(cur.file, next)
            \/ \E b \in Contents : IsEntered(cur.file, b)
            \/ IsDescribed(cur.file)
<1> DEFINE f == cur.file
<1>1. phase = "source" /\ cur # None /\ f \in Walked \ todo /\ f \in Files /\ cur.do \in Dos /\ f # NoFile
  BY AtFile, SentinelsAssumption DEF TestHead, Analyse, Digest, DigestArtifact, Describe, Counted, None, SourcePass
<1>2. scanned \in Nat
  BY DEF AuditTypeOK
<1>3. CASE TestHead
  <2>1. CASE ListUnread(f) /\ UNCHANGED scanned
    BY <1>1, <2>1
  <2>2. ASSUME NEW next, Fits(f, next), GoTo(next),
               UNCHANGED <<name, phase, todo, links, tree, unscanned, findings, mtree>>
        PROVE  GoesOn(f, next)
    BY <1>2, <1>3, <2>2 DEF Fits, GoTo, GoesOn, InReader, Counted, TestHead
  <2> QED BY <1>1, <1>3, <2>1, <2>2, TestStep
<1>4. CASE Analyse
  <2>1. CASE ListUnread(f) /\ UNCHANGED scanned
    BY <1>1, <2>1
  <2>2. CASE /\ cur' = At(f, "digest", 0) /\ UNCHANGED scanned
             /\ findings' \in {findings, findings \cup {f}}
             /\ UNCHANGED <<name, phase, todo, links, tree, unscanned, mtree>>
    <3>1. GoesOn(f, At(f, "digest", 0))
      BY <1>1, <1>2, <1>4, <2>2 DEF GoesOn, At, Dos, None, InReader, Analyse, Counted
    <3> QED BY <1>1, <3>1
  <2> QED BY <1>4, <2>1, <2>2 DEF Analyse
<1>5. CASE Digest \/ DigestArtifact
  BY <1>1, <1>5 DEF Digest, DigestArtifact, IsEntered
<1>6. CASE Describe
  BY <1>1, <1>6 DEF Describe, IsDescribed
<1> QED BY <1>3, <1>4, <1>5, <1>6

-----------------------------------------------------------------------------
\* Bytes a reader was given.
LEMMA ReadGives ==
  ASSUME ReadInv, NEW f \in Files, NEW b \in Contents,
         ReadBytes(f, b) \/ DigestInto(f, b) \/ ReadHead(f, b)
  PROVE  given' = [given EXCEPT ![f] = @ \cup {b}]
BY DEF ReadBytes, DigestInto, ReadHead, Stream, FromMemory, FromDisk, Give

\* What a step judges and digests is what its readers are given.
LEMMA GivenStep ==
  ASSUME AuditConstants, PassInv, ReadInv, DigestsGiven, [AuditNext]_auditVars
  PROVE  /\ judged' \in [Files -> SUBSET Contents] /\ DigestsGiven'
         /\ \A f \in Files : judged[f] \subseteq judged'[f]
<1> USE DEF PassInv
<1>1. /\ ReadInv' /\ given' \in [Files -> SUBSET Contents] /\ given \in [Files -> SUBSET Contents]
      /\ judged \in [Files -> SUBSET Contents] /\ tree \in [Files -> Contents \cup {Absent, UnreadDigest}]
      /\ Absent \notin Contents /\ UnreadDigest \notin Contents
  BY ReadsAsOneRun, StepInv DEF ReadInv, ReadTypeOK, AuditTypeOK, AuditConstants
<1>2. CASE UNCHANGED <<judged, tree, given>>
  BY <1>1, <1>2 DEF DigestsGiven
<1>3. CASE phase \in {"idle", "walk"} /\ UNCHANGED <<judged, tree>>
  BY <1>1, <1>3 DEF DigestsGiven, Passes
<1>4. ASSUME NEW f \in Files, NEW b \in Contents,
             ReadBytes(f, b) \/ DigestInto(f, b) \/ ReadHead(f, b),
             judged' = judged \/ Judge(f, b), tree' = tree \/ Enter(f, b)
      PROVE  /\ judged' \in [Files -> SUBSET Contents] /\ DigestsGiven'
             /\ \A g \in Files : judged[g] \subseteq judged'[g]
  <2>1. given' = [given EXCEPT ![f] = @ \cup {b}]
    BY <1>4, ReadGives
  <2>2. \A g \in Files : given[g] \subseteq given'[g] /\ b \in given'[f]
    BY <1>1, <2>1
  <2>3. /\ judged' \in [Files -> SUBSET Contents]
        /\ \A g \in Files : judged[g] \subseteq judged'[g] /\ judged'[g] \subseteq judged[g] \cup given'[g]
    BY <1>1, <1>4, <2>2 DEF Judge
  <2>4. \A g \in Files : tree'[g] = tree[g] \/ tree'[g] \in given'[g]
    BY <1>1, <1>4, <2>2 DEF Enter
  <2> QED BY <2>2, <2>3, <2>4 DEF DigestsGiven
<1>5. ASSUME NEW f \in Files, ListUnread(f)
      PROVE  /\ judged' \in [Files -> SUBSET Contents] /\ DigestsGiven'
             /\ \A g \in Files : judged[g] \subseteq judged'[g]
  <2>1. UNCHANGED <<judged, given>> /\ tree' = [tree EXCEPT ![f] = UnreadDigest]
    BY <1>5 DEF ListUnread, readVars
  <2> QED BY <1>1, <2>1 DEF DigestsGiven
<1>6. CASE Begin \/ (\E f \in Files : Walk(f)) 
  BY <1>3, <1>6 DEF Begin, Walk
<1>7. CASE Someone \/ EndWalk \/ Leave \/ EndSource \/ EndManifests \/ Report \/ Abort \/ (\E f \in Files : Take(f))
  BY <1>2, <1>7 DEF Someone, Rewrite, runVars, EndWalk, Leave, EndSource, EndManifests, Report, Abort, Stop, Take, readVars
<1>8. CASE TestHead
  <2>1. cur.file \in Files
    BY <1>8, AtFile DEF TestHead, None
  <2> QED BY <1>2, <1>4, <1>5, <1>8, <2>1 DEF TestHead, readVars
<1>9. CASE Analyse
  <2>1. cur.file \in Files
    BY <1>9, AtFile DEF Analyse, Counted, None
  <2> QED BY <1>2, <1>4, <1>5, <1>9, <2>1 DEF Analyse, readVars
<1>10. CASE Digest \/ DigestArtifact
  <2>1. cur.file \in Files
    BY <1>10, AtFile DEF Digest, DigestArtifact, None
  <2> QED BY <1>4, <1>5, <1>10, <2>1 DEF Digest, DigestArtifact
<1>11. CASE Describe
  <2>1. cur.file \in Files
    BY <1>11, AtFile DEF Describe, None
  <2> QED BY <1>4, <1>5, <1>11, <2>1 DEF Describe
<1>12. CASE \E f \in Files : ReadManifest(f)
  BY <1>2, <1>4, <1>12 DEF ReadManifest, readVars
<1>13. CASE \E f \in Files : Merge(f)
  BY <1>4, <1>13 DEF Merge
<1>14. CASE UNCHANGED auditVars
  BY <1>2, <1>14 DEF auditVars, readVars, runVars
<1> QED BY <1>6, <1>7, <1>8, <1>9, <1>10, <1>11, <1>12, <1>13, <1>14 DEF AuditNext, RunStep

-----------------------------------------------------------------------------
Kept == UNCHANGED <<depth, stopped, toWalk>>

LEMMA SourceKept ==
  ASSUME TestHead \/ Analyse \/ Digest \/ DigestArtifact \/ Describe
  PROVE  Kept
BY DEF TestHead, Analyse, Digest, DigestArtifact, Describe, ListUnread, Quiet, readVars, Kept

\* What a pass leaves of the invariant when the run stays in the source pass.
LEMMA SourcePassStep ==
  ASSUME AuditConstants, PassInv, judged' \in [Files -> SUBSET Contents], \A f \in Files : judged[f] \subseteq judged'[f],
         TestHead \/ Analyse \/ Digest \/ DigestArtifact \/ Describe
  PROVE  PassInv'
<1> DEFINE f == cur.file
<1>1. /\ phase = "source" /\ cur # None /\ f \in Walked \ todo /\ f \in Files /\ cur.do \in Dos
      /\ Kept /\ Running /\ toWalk = {} /\ todo \subseteq Walked /\ mtree = {}
      /\ \A g \in todo : tree[g] = Absent
      /\ tree \in [Files -> Contents \cup {Absent, UnreadDigest}] /\ findings \subseteq Files
      /\ scanned \in Nat
  BY SourceStep, SourceKept DEF PassInv, SourcePass, AuditTypeOK, Passes
<1>2. ASSUME phase' = phase, UNCHANGED <<name, todo, links, unscanned, mtree>>,
             tree' \in [Files -> Contents \cup {Absent, UnreadDigest}], findings' \subseteq Files, scanned' \in Nat,
             \A g \in Files \ {f} : tree'[g] = tree[g],
             \/ cur' = None
             \/ /\ cur' \in [file : Files, do : Dos, test : Nat] /\ cur' # None /\ cur'.file = f
                /\ IF cur'.do = "describe" THEN tree'[f] # Absent ELSE tree'[f] = Absent
                /\ cur'.do = "test" => cur'.test \in 1..Len(Tests(name[f]))
                /\ cur'.do = "leave" => IsManifestPath(name[f])
                /\ cur'.do = "count" => ~IsManifestPath(name[f])
      PROVE  PassInv'
  <2>1. AuditTypeOK'
    BY <1>2 DEF PassInv, AuditTypeOK
  <2>2. Passes' /\ ManifestPass'
    BY <1>1, <1>2 DEF Passes, ManifestPass, Running, Kept
  <2>3. \A g \in todo' : tree'[g] = Absent
    BY <1>1, <1>2 DEF Walked
  <2>4. SourcePass'
    BY <1>1, <1>2, <2>3 DEF SourcePass, Walked
  <2> QED BY <2>1, <2>2, <2>4 DEF PassInv
<1>3. CASE ListUnread(f) /\ UNCHANGED scanned
  BY <1>1, <1>2, <1>3 DEF ListUnread
<1>4. ASSUME NEW next, GoesOn(f, next) PROVE PassInv'
  <2>1. scanned' \in Nat
    BY <1>1, <1>4 DEF GoesOn, InReader
  <2>2. tree[f] = Absent
    BY <1>1, <1>4 DEF GoesOn, PassInv, SourcePass
  <2> QED BY <1>1, <1>2, <1>4, <2>1, <2>2 DEF GoesOn
<1>5. ASSUME NEW b \in Contents, IsEntered(f, b) PROVE PassInv'
  <2>1. tree' = [tree EXCEPT ![f] = b]
    BY <1>5 DEF IsEntered, Enter
  <2>2. b # Absent
    BY DEF AuditConstants
  <2> QED BY <1>1, <1>2, <1>5, <2>1, <2>2 DEF IsEntered, At, Dos, None
<1>6. CASE IsDescribed(f)
  BY <1>1, <1>2, <1>6 DEF IsDescribed
<1> QED BY <1>3, <1>4, <1>5, <1>6, SourceStep DEF PassInv

LEMMA PassStep ==
  ASSUME AuditConstants, PassInv, ReadInv, DigestsGiven, [AuditNext]_auditVars
  PROVE  PassInv'
<1>1. /\ judged' \in [Files -> SUBSET Contents] /\ \A f \in Files : judged[f] \subseteq judged'[f]
      /\ judged \in [Files -> SUBSET Contents]
  BY GivenStep DEF PassInv, AuditTypeOK
<1> USE DEF PassInv
<1>2. CASE UNCHANGED runVars /\ (Someone \/ UNCHANGED auditVars)
  <2>1. Kept
    BY <1>2 DEF Someone, Rewrite, auditVars, readVars, Kept
  <2> QED BY <1>2, <2>1 DEF runVars, Kept, Running, AuditTypeOK, Passes, SourcePass, ManifestPass, Walked
<1>3. CASE Begin
  <2>1. Running'
    BY <1>3 DEF Begin, Open, Running
  <2> QED BY <1>3, <2>1 DEF Begin, AuditTypeOK, Passes, SourcePass, ManifestPass
<1>4. ASSUME NEW f \in Files, Walk(f) PROVE PassInv'
  <2>1. /\ depth' = depth /\ stopped' = stopped /\ phase = "walk" /\ links' \subseteq Files
        /\ UNCHANGED <<name, phase, cur, todo, tree, scanned, unscanned, findings, mtree, judged>>
    BY <1>4 DEF Walk, WalkBySize, WalkByText, AuditTypeOK
  <2> QED BY <2>1 DEF Running, AuditTypeOK, Passes, SourcePass, ManifestPass
<1>5. CASE EndWalk
  BY <1>5 DEF EndWalk, readVars, Running, AuditTypeOK, Passes, SourcePass, ManifestPass, Walked
<1>6. ASSUME NEW f \in Files, Take(f) PROVE PassInv'
  <2>1. Fits(f, Dispatch(f, 1))
    BY DispatchFits
  <2>2. scanned' \in Nat
    BY <1>6 DEF Take, GoTo, AuditTypeOK
  <2>3. AuditTypeOK' /\ Passes' /\ ManifestPass'
    BY <1>6, <2>1, <2>2 DEF Take, GoTo, readVars, Running, AuditTypeOK, Passes, ManifestPass, Fits
  <2>4. SourcePass'
    BY <1>6, <2>1 DEF Take, GoTo, SourcePass, Fits, Walked
  <2> QED BY <2>3, <2>4
<1>7. CASE TestHead \/ Analyse \/ Digest \/ DigestArtifact \/ Describe
  BY <1>1, <1>7, SourcePassStep
<1>8. CASE Leave
  <2>1. phase = "source" /\ cur # None /\ cur.file \in Files
    BY <1>8, AtFile DEF Leave, None
  <2>2. unscanned' \in [Names -> Nat]
    <3>1. name[cur.file] \in Names
      BY <2>1 DEF AuditTypeOK
    <3> DEFINE more == IF cur.do = "count" THEN 1 ELSE 0
    <3>2. unscanned' = [unscanned EXCEPT ![name[cur.file]] = @ + more] /\ more \in Nat
      BY <1>8 DEF Leave
    <3> HIDE DEF more
    <3> QED BY <3>1, <3>2 DEF AuditTypeOK
  <2> QED BY <1>8, <2>1, <2>2 DEF Leave, readVars, Running, AuditTypeOK, Passes, SourcePass, ManifestPass, Walked
<1>9. CASE EndSource
  BY <1>9 DEF EndSource, readVars, Running, AuditTypeOK, Passes, SourcePass, ManifestPass, Walked
<1>10. ASSUME NEW f \in Files, ReadManifest(f) PROVE PassInv'
  <2>1. /\ phase = "manifests" /\ f \in todo /\ findings' \in {findings, findings \cup {f}} /\ Kept
        /\ UNCHANGED <<name, phase, cur, links, tree, scanned, unscanned>>
        /\ f \in Walked /\ NamedBy(f) \subseteq Walked
    BY <1>10 DEF ReadManifest, Quiet, readVars, Kept, ManifestPass, NamedBy
  <2>2. \/ judged'[f] # {} /\ mtree' = mtree \cup {f} /\ todo' = (todo \ {f}) \cup NamedBy(f)
        \/ findings' = findings \cup {f} /\ mtree' = mtree /\ todo' = todo \ {f}
    BY <1>1, <1>10 DEF ReadManifest, Judge
  <2>3. AuditTypeOK' /\ Passes' /\ SourcePass'
    BY <1>1, <2>1, <2>2 DEF Kept, Running, AuditTypeOK, Passes, SourcePass, Walked
  <2>4. ManifestPass'
    BY <1>1, <2>1, <2>2 DEF ManifestPass, Walked
  <2> QED BY <2>3, <2>4
<1>11. CASE EndManifests
  BY <1>11 DEF EndManifests, readVars, Running, AuditTypeOK, Passes, SourcePass, ManifestPass, Walked
<1>12. ASSUME NEW f \in Files, Merge(f) PROVE PassInv'
  <2>1. /\ phase = "merge" /\ f \in todo /\ todo' = todo \ {f} /\ Kept
        /\ UNCHANGED <<name, phase, cur, links, findings, mtree, judged>>
        /\ scanned' \in Nat
    BY <1>12 DEF Merge, Quiet, Kept, AuditTypeOK
  <2>2. /\ tree' \in [Files -> Contents \cup {Absent, UnreadDigest}]
        /\ tree'[f] # Absent /\ \A g \in Files \ {f} : tree'[g] = tree[g]
    BY <1>12 DEF Merge, Already, Enter, AuditTypeOK, AuditConstants
  <2>3. unscanned' \in [Names -> Nat]
    <3>1. unscanned' = TakenBack(f) /\ unscanned \in [Names -> Nat] /\ name[f] \in Names
      BY <1>12 DEF Merge, AuditTypeOK
    <3>2. CASE Already(f) \/ IsManifestPath(name[f]) \/ unscanned[name[f]] = 0
      BY <3>1, <3>2 DEF TakenBack
    <3>3. CASE ~(Already(f) \/ IsManifestPath(name[f]) \/ unscanned[name[f]] = 0)
      <4>1. unscanned' = [unscanned EXCEPT ![name[f]] = @ - 1]
        BY <3>1, <3>3 DEF TakenBack
      <4>2. unscanned[name[f]] - 1 \in Nat
        BY <3>1, <3>3
      <4> QED BY <3>1, <4>1, <4>2
    <3> QED BY <3>2, <3>3
  <2>4. AuditTypeOK' /\ Passes' /\ SourcePass'
    BY <2>1, <2>2, <2>3 DEF Kept, Running, AuditTypeOK, Passes, SourcePass, Walked
  <2>5. ManifestPass'
    BY <2>1, <2>2 DEF ManifestPass, Walked
  <2> QED BY <2>4, <2>5
<1>13. CASE Abort
  BY <1>13 DEF Abort, AuditTypeOK, Passes, SourcePass, ManifestPass
<1>14. CASE Report
  BY <1>14 DEF Report, readVars, Running, AuditTypeOK, Passes, SourcePass, ManifestPass, Walked
<1>15. Someone => UNCHANGED runVars
  BY DEF Someone
<1>16. UNCHANGED auditVars => UNCHANGED runVars
  BY DEF auditVars, runVars
<1> QED BY <1>2, <1>3, <1>4, <1>5, <1>6, <1>7, <1>8, <1>9, <1>10, <1>11, <1>12, <1>13, <1>14, <1>15, <1>16
        DEF AuditNext, RunStep

-----------------------------------------------------------------------------
(***************************************************************************)
(* The counts.  Files a pass has left out are as many as it counted.       *)
(***************************************************************************)
IsLeftOut(f) == f \notin Pending /\ tree[f] = Absent /\ ~IsManifestPath(name[f])

LEMMA LeftOutIs ==
  ASSUME AuditConstants, NEW n
  PROVE  /\ LeftOut(n) = {f \in Walked : name[f] = n /\ IsLeftOut(f)}
         /\ IsFiniteSet(LeftOut(n)) /\ Cardinality(LeftOut(n)) \in Nat
<1>1. LeftOut(n) = {f \in Walked : name[f] = n /\ IsLeftOut(f)}
  BY DEF LeftOut, IsLeftOut
<1>2. LeftOut(n) \subseteq Files
  BY DEF LeftOut, Walked
<1> QED BY <1>1, <1>2, FS_Subset, FS_CardinalityType DEF AuditConstants

\* The files a step neither counts nor takes back.
LEMMA SameCount ==
  ASSUME CountsAgree, AfterWalk, UNCHANGED <<name, links, unscanned>>,
         \A f \in Files \ links : IsLeftOut(f)' <=> IsLeftOut(f)
  PROVE  CountsAgree'
<1>1. \A n \in Names : {f \in Walked : name[f] = n /\ IsLeftOut(f)}' = {f \in Walked : name[f] = n /\ IsLeftOut(f)}
  BY DEF Walked
<1>2. \A n \in Names : LeftOut(n)' = LeftOut(n)
  BY <1>1 DEF LeftOut, IsLeftOut
<1> QED BY <1>2 DEF CountsAgree

LEMMA CountStep ==
  ASSUME AuditConstants, PassInv, PassInv', CountsAgree, [AuditNext]_auditVars
  PROVE  CountsAgree'
<1> USE DEF PassInv
<1>1. /\ \A f \in Files : f # NoFile
      /\ todo \subseteq Files /\ tree \in [Files -> Contents \cup {Absent, UnreadDigest}]
      /\ Absent # UnreadDigest /\ Absent \notin Contents
      /\ name \in [Files -> Names] /\ unscanned \in [Names -> Nat]
      /\ None.file = NoFile
  BY SentinelsAssumption DEF AuditTypeOK, Absent, UnreadDigest, AuditConstants, None
<1>2. CASE ~AfterWalk'
  BY <1>2 DEF CountsAgree
<1>3. CASE UNCHANGED runVars
  BY <1>3 DEF runVars, CountsAgree, AfterWalk, LeftOut, Walked, Pending
<1>4. CASE Begin \/ (\E f \in Files : Walk(f)) \/ Abort
  BY <1>2, <1>4 DEF Begin, Walk, Abort, AfterWalk
<1>5. CASE EndWalk
  <2>1. \A n \in Names : unscanned'[n] = 0
    BY <1>5 DEF EndWalk, Passes
  <2>2. \A n : LeftOut(n)' = {}
    BY <1>5 DEF EndWalk, LeftOut, Walked, Pending
  <2> QED BY <2>1, <2>2, FS_EmptySet DEF CountsAgree
<1>6. ASSUME NEW f \in Files, Take(f) PROVE CountsAgree'
  <2>1. phase = "source" /\ phase' = "source" /\ cur = None /\ f \in todo /\ todo' = todo \ {f}
        /\ UNCHANGED <<name, tree, links, unscanned>> /\ cur'.file = f
    BY <1>6, DispatchFits DEF Take, GoTo, Fits
  <2>2. \A g \in Files : g \in Pending' <=> g \in Pending
    BY <1>1, <2>1 DEF Pending
  <2> QED BY <2>1, <2>2, SameCount DEF IsLeftOut, AfterWalk
<1>7. CASE TestHead \/ Analyse \/ Digest \/ DigestArtifact \/ Describe
  <2> PICK f : f = cur.file
    OBVIOUS
  <2>1. /\ phase = "source" /\ f \in Walked \ todo /\ f \in Files /\ cur # None
        /\ \/ ListUnread(f) \/ (\E next : GoesOn(f, next))
           \/ (\E b \in Contents : IsEntered(f, b)) \/ IsDescribed(f)
    BY <1>7, SourceStep
  <2>2. /\ phase' = "source" /\ todo' = todo /\ UNCHANGED <<name, links, unscanned>>
        /\ \A g \in Files \ {f} : tree'[g] = tree[g]
        /\ tree'[f] # Absent \/ (cur'.file = f /\ tree' = tree)
    <3>1. CASE ListUnread(f)
      BY <1>1, <2>1, <3>1 DEF ListUnread
    <3>2. CASE \E next : GoesOn(f, next)
      BY <2>1, <3>2 DEF GoesOn
    <3>3. CASE \E b \in Contents : IsEntered(f, b)
      BY <1>1, <2>1, <3>3 DEF IsEntered, Enter
    <3>4. CASE IsDescribed(f)
      BY <2>1, <3>4 DEF IsDescribed, SourcePass
    <3> QED BY <2>1, <3>1, <3>2, <3>3, <3>4
  <2>3. cur' = None \/ cur'.file = f
    BY <2>1 DEF ListUnread, GoesOn, IsEntered, IsDescribed, At
  <2>4. \A g \in Files : IsLeftOut(g)' <=> IsLeftOut(g)
    <3>1. ~IsLeftOut(f) /\ ~IsLeftOut(f)'
      BY <2>1, <2>2 DEF IsLeftOut, Pending
    <3>2. ASSUME NEW g \in Files, g # f PROVE IsLeftOut(g)' <=> IsLeftOut(g)
      BY <1>1, <2>1, <2>2, <2>3, <3>2 DEF IsLeftOut, Pending
    <3> QED BY <3>1, <3>2
  <2> QED BY <2>1, <2>2, <2>4, SameCount DEF AfterWalk
<1>8. CASE Leave
  <2> DEFINE f == cur.file
             m == name[f]
  <2>1. /\ phase = "source" /\ cur # None /\ f \in Files /\ f \in Walked \ todo /\ tree[f] = Absent
        /\ cur.do \in {"leave", "count"} /\ cur' = None
        /\ UNCHANGED <<name, phase, todo, links, tree>>
        /\ cur.do = "leave" => IsManifestPath(m)
        /\ cur.do = "count" => ~IsManifestPath(m)
    BY <1>8, AtFile DEF Leave, None, SourcePass
  <2>2. Pending' \cap Files = todo /\ Pending = todo \cup {f}
    BY <1>1, <2>1 DEF Pending
  <2>3. CASE cur.do = "leave"
    <3>1. unscanned' = unscanned
      BY <1>1, <1>8, <2>1, <2>3 DEF Leave
    <3>2. \A g \in Files : IsLeftOut(g)' <=> IsLeftOut(g)
      BY <2>1, <2>2, <2>3 DEF IsLeftOut
    <3> QED BY <2>1, <3>1, <3>2, SameCount DEF AfterWalk
  <2>4. CASE cur.do = "count"
    <3>1. unscanned' = [unscanned EXCEPT ![m] = @ + 1] /\ m \in Names
      BY <1>1, <1>8, <2>1, <2>4 DEF Leave
    <3>2. ASSUME NEW n \in Names PROVE unscanned'[n] = Cardinality(LeftOut(n)')
      <4>1. IsFiniteSet(LeftOut(n)) /\ Cardinality(LeftOut(n)) \in Nat
        BY LeftOutIs
      <4>2. unscanned[n] = Cardinality(LeftOut(n))
        BY <2>1 DEF CountsAgree, AfterWalk
      <4>3. CASE n = m
        <5>1. LeftOut(n)' = LeftOut(n) \cup {f} /\ f \notin LeftOut(n)
          BY <2>1, <2>2, <2>4, <4>3 DEF LeftOut, Walked
        <5>2. Cardinality(LeftOut(n) \cup {f}) = Cardinality(LeftOut(n)) + 1
          BY <4>1, <5>1, FS_AddElement
        <5>3. unscanned'[n] = unscanned[n] + 1
          BY <1>1, <3>1, <4>3
        <5> QED BY <4>2, <5>1, <5>2, <5>3
      <4>4. CASE n # m
        <5>1. LeftOut(n)' = LeftOut(n)
          BY <2>1, <2>2, <2>4, <4>4 DEF LeftOut, Walked
        <5> QED BY <1>1, <3>1, <4>2, <4>4, <5>1
      <4> QED BY <4>3, <4>4
    <3> QED BY <3>2 DEF CountsAgree
  <2> QED BY <2>1, <2>3, <2>4
<1>9. CASE EndSource \/ EndManifests \/ Report \/ (\E f \in Files : ReadManifest(f))
  <2>1. /\ AfterWalk /\ UNCHANGED <<name, links, unscanned, tree>>
        /\ Pending \cap Files = {} /\ Pending' = {}
    BY <1>1, <1>9 DEF EndSource, EndManifests, Report, ReadManifest, AfterWalk, Pending
  <2> QED BY <2>1, SameCount DEF IsLeftOut
<1>10. ASSUME NEW f \in Files, Merge(f) PROVE CountsAgree'
  <2> DEFINE m == name[f]
  <2>1. /\ phase = "merge" /\ phase' = "merge" /\ f \in Walked /\ UNCHANGED <<name, links>>
        /\ Pending = {} /\ Pending' = {} /\ m \in Names
    BY <1>1, <1>10 DEF Merge, Pending, ManifestPass
  <2>2. CASE Already(f) \/ IsManifestPath(m)
    <3>1. unscanned' = unscanned
      BY <1>10, <2>2 DEF Merge, TakenBack
    <3>2. /\ \A g \in Files \ {f} : tree'[g] = tree[g]
          /\ ~IsManifestPath(m) => tree' = tree
      BY <1>1, <1>10, <2>2 DEF Merge, Enter
    <3>3. \A g \in Files : IsLeftOut(g)' <=> IsLeftOut(g)
      BY <2>1, <3>2 DEF IsLeftOut
    <3> QED BY <2>1, <3>1, <3>3, SameCount DEF AfterWalk
  <2>3. CASE ~Already(f) /\ ~IsManifestPath(m)
    <3>1. /\ tree[f] = Absent /\ tree'[f] # Absent /\ \A g \in Files \ {f} : tree'[g] = tree[g]
      BY <1>1, <1>10, <2>3 DEF Merge, Already, Enter
    <3>2. f \in LeftOut(m)
      BY <2>1, <2>3, <3>1 DEF LeftOut
    <3>3. unscanned[m] = Cardinality(LeftOut(m)) /\ unscanned[m] # 0
      BY <2>1, <3>2, LeftOutIs, FS_EmptySet DEF CountsAgree, AfterWalk
    <3>4. unscanned' = [unscanned EXCEPT ![m] = @ - 1]
      BY <1>10, <2>3, <3>3 DEF Merge, TakenBack
    <3>5. ASSUME NEW n \in Names PROVE unscanned'[n] = Cardinality(LeftOut(n)')
      <4>1. IsFiniteSet(LeftOut(n)) /\ Cardinality(LeftOut(n)) \in Nat
        BY LeftOutIs
      <4>2. unscanned[n] = Cardinality(LeftOut(n))
        BY <2>1 DEF CountsAgree, AfterWalk
      <4>3. CASE n = m
        <5>1. LeftOut(n)' = LeftOut(n) \ {f}
          BY <2>1, <3>1, <4>3 DEF LeftOut, Walked
        <5> QED BY <1>1, <2>1, <3>2, <3>4, <4>1, <4>2, <4>3, <5>1, FS_RemoveElement
      <4>4. CASE n # m
        <5>1. LeftOut(n)' = LeftOut(n)
          BY <2>1, <3>1, <4>4 DEF LeftOut, Walked
        <5> QED BY <1>1, <3>4, <4>2, <4>4, <5>1
      <4> QED BY <4>3, <4>4
    <3> QED BY <3>5 DEF CountsAgree
  <2> QED BY <2>2, <2>3
<1>11. Someone \/ UNCHANGED auditVars => UNCHANGED runVars
  BY DEF Someone, auditVars, runVars
<1> QED BY <1>3, <1>4, <1>5, <1>6, <1>7, <1>8, <1>9, <1>10, <1>11 DEF AuditNext, RunStep

-----------------------------------------------------------------------------
(***************************************************************************)
(* The files scanned.  A file is in a reader or entered once for each time *)
(* scanned went up.                                                        *)
(***************************************************************************)
Sound == (Entered \ findings) \ Describing

LEMMA EnteredIsFinite ==
  ASSUME AuditConstants
  PROVE  /\ IsFiniteSet(Entered) /\ Cardinality(Entered) \in Nat
         /\ IsFiniteSet(Sound) /\ Cardinality(Sound) \in Nat
<1>1. Entered \subseteq Files /\ Sound \subseteq Files
  BY DEF Entered, Sound, Walked
<1> QED BY <1>1, FS_Subset, FS_CardinalityType DEF AuditConstants

LEMMA EnteredIsFiniteNext ==
  ASSUME AuditConstants
  PROVE  /\ IsFiniteSet(Entered') /\ Cardinality(Entered') \in Nat
         /\ IsFiniteSet(Sound') /\ Cardinality(Sound') \in Nat
<1>1. Entered' \subseteq Files /\ Sound' \subseteq Files
  BY DEF Entered, Sound, Walked
<1> QED BY <1>1, FS_Subset, FS_CardinalityType DEF AuditConstants

\* A step that gives no reader's file to the digest.
LEMMA ScanStays ==
  ASSUME AuditConstants, scanned \in Nat, scanned' \in Nat, ScansAgree, AfterWalk,
         Entered \subseteq Entered', Sound' \subseteq Sound, scanned' = scanned - InReader + InReader'
  PROVE  ScansAgree'
<1>1. Cardinality(Entered) <= Cardinality(Entered') /\ Cardinality(Sound') <= Cardinality(Sound)
  BY EnteredIsFinite, EnteredIsFiniteNext, FS_Subset
<1>2. scanned <= Cardinality(Entered) + InReader /\ Cardinality(Sound) + InReader <= scanned
  BY DEF ScansAgree, Sound
<1>3. InReader \in Nat /\ InReader' \in Nat
  BY DEF InReader
<1>4. scanned' <= Cardinality(Entered') + InReader' /\ Cardinality(Sound') + InReader' <= scanned'
  <2>1. /\ Cardinality(Entered) \in Nat /\ Cardinality(Entered') \in Nat
        /\ Cardinality(Sound) \in Nat /\ Cardinality(Sound') \in Nat
    BY EnteredIsFinite, EnteredIsFiniteNext
  <2> QED BY <1>1, <1>2, <1>3, <2>1
<1> QED BY <1>4 DEF ScansAgree, Sound

\* A step that enters one file a reader was given.
LEMMA ScanEnters ==
  ASSUME AuditConstants, scanned \in Nat, scanned' \in Nat, ScansAgree, AfterWalk,
         NEW f \in Files \ Entered, Entered' = Entered \cup {f}, Sound' \subseteq Sound \cup {f},
         scanned' = scanned - InReader + InReader' + 1
  PROVE  ScansAgree'
<1>1. /\ Cardinality(Entered') = Cardinality(Entered) + 1
      /\ Cardinality(Sound \cup {f}) <= Cardinality(Sound) + 1
      /\ IsFiniteSet(Sound \cup {f}) /\ Cardinality(Sound \cup {f}) \in Nat
  <2>1. IsFiniteSet(Entered) /\ IsFiniteSet(Sound) /\ Cardinality(Sound) \in Nat
    BY EnteredIsFinite
  <2>2. Cardinality(Entered \cup {f}) = Cardinality(Entered) + 1
    BY <2>1, FS_AddElement
  <2>3. IsFiniteSet(Sound \cup {f}) /\ Cardinality(Sound \cup {f}) \in {Cardinality(Sound), Cardinality(Sound) + 1}
    BY <2>1, FS_AddElement
  <2> QED BY <2>1, <2>2, <2>3
<1>2. Cardinality(Sound') <= Cardinality(Sound) + 1
  <2>1. Cardinality(Sound') <= Cardinality(Sound \cup {f})
    BY <1>1, FS_Subset
  <2> QED BY <1>1, <2>1, EnteredIsFinite, EnteredIsFiniteNext
<1>3. scanned <= Cardinality(Entered) + InReader /\ Cardinality(Sound) + InReader <= scanned
  BY DEF ScansAgree, Sound
<1>4. InReader \in Nat /\ InReader' \in Nat
  BY DEF InReader
<1>5. scanned' <= Cardinality(Entered') + InReader' /\ Cardinality(Sound') + InReader' <= scanned'
  <2>1. /\ Cardinality(Entered) \in Nat /\ Cardinality(Entered') \in Nat
        /\ Cardinality(Sound) \in Nat /\ Cardinality(Sound') \in Nat
    BY EnteredIsFinite, EnteredIsFiniteNext
  <2> QED BY <1>1, <1>2, <1>3, <1>4, <2>1
<1> QED BY <1>5 DEF ScansAgree, Sound

LEMMA ScanStep ==
  ASSUME AuditConstants, PassInv, PassInv', ScansAgree, [AuditNext]_auditVars
  PROVE  ScansAgree'
<1> USE DEF PassInv
<1>1. /\ scanned \in Nat /\ scanned' \in Nat /\ Absent # UnreadDigest /\ Absent \notin Contents
      /\ tree \in [Files -> Contents \cup {Absent, UnreadDigest}]
      /\ cur = None => cur.do = "none"
  BY DEF AuditTypeOK, Absent, UnreadDigest, AuditConstants, None
<1>2. CASE ~AfterWalk'
  BY <1>2 DEF ScansAgree
<1>3. CASE Begin \/ (\E f \in Files : Walk(f)) \/ Abort
  BY <1>2, <1>3 DEF Begin, Walk, Abort, AfterWalk
<1>4. CASE EndWalk
  <2>1. scanned' = 0 /\ Entered' = {} /\ Sound' = {} /\ InReader' = 0
    <3>1. scanned' = 0 /\ cur' = None /\ \A f \in Files : tree'[f] = Absent
      BY <1>4 DEF EndWalk, Passes
    <3>2. Entered' = {} /\ InReader' = 0
      BY <3>1 DEF Entered, Walked, InReader, None
    <3> QED BY <3>1, <3>2 DEF Sound
  <2>2. 0 <= Cardinality(Entered') + InReader' /\ Cardinality(Sound') + InReader' <= 0
    BY <2>1, FS_EmptySet
  <2> QED BY <2>1, <2>2 DEF ScansAgree, Sound
<1>5. ASSUME UNCHANGED <<links, tree>>, AfterWalk, scanned' = scanned - InReader + InReader',
             findings \subseteq findings', Describing \subseteq Describing' \cup findings'
      PROVE  ScansAgree'
  <2>1. Entered' = Entered /\ Sound' \subseteq Sound
    BY <1>5 DEF Entered, Walked, Sound
  <2> QED BY <1>1, <1>5, <2>1, ScanStays
<1>6. CASE UNCHANGED runVars
  BY <1>6 DEF runVars, ScansAgree, AfterWalk, Entered, Walked, InReader, Describing
<1>7. ASSUME NEW f \in Files, Take(f) PROVE ScansAgree'
  <2>1. Fits(f, Dispatch(f, 1))
    BY DispatchFits
  <2>2. /\ UNCHANGED <<links, tree, findings>> /\ AfterWalk /\ cur = None
        /\ cur' = Dispatch(f, 1) /\ scanned' = scanned + (IF Counted(cur'.do) THEN 1 ELSE 0)
    BY <1>7 DEF Take, GoTo, AfterWalk
  <2>3. InReader = 0 /\ InReader' = (IF Counted(cur'.do) THEN 1 ELSE 0) /\ Describing = {}
    <3>1. cur.do = "none" /\ cur'.do # "digest"
      BY <1>1, <2>1, <2>2 DEF Fits
    <3> QED BY <3>1 DEF InReader, Counted, Describing
  <2> QED BY <1>1, <1>5, <2>2, <2>3
<1>8. CASE Leave \/ EndSource \/ EndManifests \/ Report
  <2>1. UNCHANGED <<links, tree, scanned, findings>> /\ AfterWalk
    BY <1>8 DEF Leave, EndSource, EndManifests, Report, AfterWalk
  <2>2. InReader = 0 /\ InReader' = 0 /\ Describing = {}
    BY <1>1, <1>8 DEF Leave, EndSource, EndManifests, Report, Passes, InReader, Describing, None
  <2> QED BY <1>1, <1>5, <2>1, <2>2
<1>9. ASSUME NEW f \in Files, ReadManifest(f) PROVE ScansAgree'
  <2>1. UNCHANGED <<links, tree, scanned, cur>> /\ AfterWalk /\ findings \subseteq findings' /\ cur = None
    BY <1>9 DEF ReadManifest, AfterWalk, Passes
  <2>2. InReader = 0 /\ InReader' = 0 /\ Describing = {}
    BY <1>1, <2>1 DEF InReader, Describing, None
  <2> QED BY <1>1, <1>5, <2>1, <2>2
<1>10. ASSUME NEW f \in Files, Merge(f) PROVE ScansAgree'
  <2>1. UNCHANGED <<links, cur, findings>> /\ AfterWalk /\ cur = None /\ phase = "merge" /\ f \in Walked
    BY <1>10 DEF Merge, AfterWalk, Passes, ManifestPass
  <2>2. InReader = 0 /\ InReader' = 0 /\ Describing = {}
    BY <1>1, <2>1 DEF InReader, Describing, None
  <2>3. CASE Already(f)
    <3>1. tree' = tree /\ scanned' = scanned
      BY <1>10, <2>3 DEF Merge
    <3> QED BY <1>1, <1>5, <2>1, <2>2, <3>1
  <2>4. CASE ~Already(f)
    <3>1. PICK b \in Contents : tree' = [tree EXCEPT ![f] = b]
      BY <1>10, <2>4 DEF Merge, Enter
    <3>2. scanned' = scanned - InReader + InReader' + 1
      BY <1>1, <1>10, <2>2, <2>4 DEF Merge
    <3>3. f \notin Entered /\ Entered' = Entered \cup {f} /\ Sound' \subseteq Sound \cup {f}
      <4>1. tree[f] = Absent /\ tree'[f] # Absent /\ \A g \in Files \ {f} : tree'[g] = tree[g]
        BY <1>1, <2>4, <3>1 DEF Already
      <4>2. f \notin Entered /\ Entered' = Entered \cup {f}
        BY <2>1, <4>1 DEF Entered, Walked
      <4> QED BY <2>1, <2>2, <4>2 DEF Sound
    <3> QED BY <1>1, <2>1, <3>2, <3>3, ScanEnters
  <2> QED BY <2>3, <2>4
<1>11. CASE TestHead \/ Analyse \/ Digest \/ DigestArtifact \/ Describe
  <2> PICK f : f = cur.file
    OBVIOUS
  <2>1. /\ phase = "source" /\ f \in Walked /\ f \in Files /\ cur # None /\ cur.do \in Dos /\ AfterWalk
        /\ \/ ListUnread(f) /\ UNCHANGED scanned
           \/ (\E next : GoesOn(f, next))
           \/ (\E b \in Contents : IsEntered(f, b))
           \/ IsDescribed(f)
    BY <1>11, SourceStep DEF AfterWalk
  <2>2. CASE ListUnread(f) /\ UNCHANGED scanned
    <3>1. /\ tree' = [tree EXCEPT ![f] = UnreadDigest] /\ findings' = findings \cup {f} /\ cur' = None
          /\ links' = links
      BY <2>2 DEF ListUnread
    <3>2. /\ InReader' = 0 /\ Describing' = {} /\ Describing \subseteq {f}
          /\ Entered' = Entered \cup {f} /\ Sound' \subseteq Sound
      <4>1. tree'[f] # Absent /\ \A g \in Files \ {f} : tree'[g] = tree[g]
        BY <1>1, <2>1, <3>1
      <4>2. Entered' = Entered \cup {f}
        BY <2>1, <3>1, <4>1 DEF Entered, Walked
      <4>3. InReader' = 0 /\ Describing' = {} /\ Describing \subseteq {f}
        BY <3>1 DEF InReader, Describing, None
      <4> QED BY <3>1, <4>2, <4>3 DEF Sound
    <3>3. CASE cur.do \in {"source", "script", "digest"}
      <4>1. f \notin Entered
        BY <2>1, <3>3 DEF SourcePass, Entered
      <4>2. scanned' = scanned - InReader + InReader' + 1
        BY <1>1, <2>2, <3>2, <3>3 DEF InReader
      <4> QED BY <1>1, <2>1, <3>2, <4>1, <4>2, ScanEnters
    <3>4. CASE cur.do \notin {"source", "script", "digest"}
      <4>1. scanned' = scanned - InReader + InReader'
        BY <1>1, <2>2, <3>2, <3>4 DEF InReader
      <4> QED BY <1>1, <2>1, <3>2, <4>1, ScanStays
    <3> QED BY <3>3, <3>4
  <2>3. ASSUME NEW next, GoesOn(f, next) PROVE ScansAgree'
    <3>1. /\ UNCHANGED <<links, tree>> /\ findings \subseteq findings'
          /\ scanned' = scanned + InReader' - InReader /\ Describing = {}
      BY <2>3 DEF GoesOn, Describing
    <3>2. InReader \in Nat /\ InReader' \in Nat
      BY DEF InReader
    <3> QED BY <1>1, <1>5, <2>1, <3>1, <3>2
  <2>4. ASSUME NEW b \in Contents, IsEntered(f, b) PROVE ScansAgree'
    <3>1. /\ tree' = [tree EXCEPT ![f] = b] /\ UNCHANGED <<links, findings, scanned>>
      BY <2>4 DEF IsEntered, Enter
    <3>2. f \notin Entered /\ Entered' = Entered \cup {f}
      <4>1. tree[f] = Absent
        BY <2>1, <2>4 DEF IsEntered, SourcePass
      <4>2. tree'[f] # Absent /\ \A g \in Files \ {f} : tree'[g] = tree[g]
        BY <1>1, <2>1, <3>1
      <4> QED BY <2>1, <3>1, <4>1, <4>2 DEF Entered, Walked
    <3>3. CASE cur.do = "digest"
      <4>1. InReader = 1 /\ InReader' = 0 /\ Describing = {}
        BY <2>4, <3>3 DEF IsEntered, InReader, Describing, None
      <4>2. scanned' = scanned - InReader + InReader' + 1 /\ Sound' \subseteq Sound \cup {f}
        BY <1>1, <3>1, <3>2, <4>1 DEF Sound
      <4> QED BY <1>1, <2>1, <3>2, <4>2, ScanEnters
    <3>4. CASE cur.do = "artifact"
      <4>1. InReader = 0 /\ InReader' = 0 /\ Describing = {} /\ Describing' = {f}
        BY <2>4, <3>4 DEF IsEntered, InReader, Describing, At
      <4>2. scanned' = scanned - InReader + InReader' /\ Sound' \subseteq Sound
        BY <1>1, <3>1, <3>2, <4>1 DEF Sound
      <4> QED BY <1>1, <2>1, <3>2, <4>2, ScanStays
    <3> QED BY <2>4, <3>3, <3>4 DEF IsEntered
  <2>5. CASE IsDescribed(f)
    <3>1. /\ UNCHANGED <<links, tree, scanned>> /\ findings' = findings \cup {f}
          /\ InReader = 0 /\ InReader' = 0 /\ Describing = {f}
      BY <2>5 DEF IsDescribed, InReader, Describing, None
    <3> QED BY <1>1, <1>5, <2>1, <3>1
  <2> QED BY <2>1, <2>2, <2>3, <2>4, <2>5
<1>12. Someone \/ UNCHANGED auditVars => UNCHANGED runVars
  BY DEF Someone, auditVars, runVars
<1> QED BY <1>3, <1>4, <1>6, <1>7, <1>8, <1>9, <1>10, <1>11, <1>12 DEF AuditNext, RunStep

-----------------------------------------------------------------------------
(***************************************************************************)
(* What is digested was judged.  A test that fails to open a file sends it *)
(* on to a reader that lists it, or to no reader: only a file that another *)
(* includes comes to a script's reader with no test before it.             *)
(***************************************************************************)
\* A step that enters nothing and leaves the file it is at.
\* Names are given once.
LEMMA NameStays == [AuditNext]_auditVars => name' = name
BY DEF AuditNext, RunStep, Someone, runVars, auditVars, Begin, EndWalk, TestHead, Analyse, Digest, DigestArtifact,
   Describe, Leave, EndSource, EndManifests, Abort, Report, Walk, Take, ReadManifest, Merge, ListUnread

LEMMA JudgedStays ==
  ASSUME AuditTypeOK, JudgedFirst, judged' \in [Files -> SUBSET Contents], name' = name,
         \A f \in Files : judged[f] \subseteq judged'[f],
         tree' = tree, findings \subseteq findings', Describing \subseteq Describing' \cup findings',
         cur' = cur \/ cur'.do \notin {"script", "digest"} \/ judged'[cur'.file] # {} \/ IsIncluded(cur'.file)
  PROVE  JudgedFirst'
<1>1. cur' = cur /\ cur.do \in {"script", "digest"} => judged'[cur'.file] # {} \/ IsIncluded(cur'.file)
  BY AtFile DEF JudgedFirst, None
<1> QED BY <1>1 DEF JudgedFirst, IsIncluded

LEMMA JudgedStep ==
  ASSUME AuditConstants, PassInv, ReadInv, DigestsGiven, JudgedFirst, [AuditNext]_auditVars
  PROVE  JudgedFirst'
<1> USE DEF PassInv
<1>1. /\ judged' \in [Files -> SUBSET Contents]
      /\ \A f \in Files : judged[f] \subseteq judged'[f]
      /\ tree \in [Files -> Contents \cup {Absent, UnreadDigest}]
      /\ Absent # UnreadDigest /\ Absent \notin Contents /\ UnreadDigest \notin Contents
      /\ cur = None => cur.do = "none"
      /\ None.do = "none"
      /\ name' = name
  BY GivenStep, NameStays DEF AuditTypeOK, Absent, UnreadDigest, AuditConstants, None
<1>2. CASE UNCHANGED <<tree, cur>> /\ findings \subseteq findings'
  BY <1>1, <1>2, JudgedStays DEF Describing
<1>3. CASE Someone \/ Begin \/ EndWalk \/ EndSource \/ EndManifests \/ Abort \/ Report \/ UNCHANGED auditVars
           \/ (\E f \in Files : Walk(f) \/ ReadManifest(f))
  BY <1>2, <1>3 DEF Someone, runVars, auditVars, Begin, EndWalk, EndSource, EndManifests, Abort, Report, Walk,
     ReadManifest
<1>4. ASSUME NEW f \in Files, Take(f) PROVE JudgedFirst'
  <2>1. Fits(f, Dispatch(f, 1))
    BY DispatchFits
  <2>2. Dispatch(f, 1).do # "script" \/ IsIncluded(f)
    BY DEF Dispatch, Tests, Test, CompiledTest, Otherwise, At, IsIncluded
  <2>3. /\ UNCHANGED <<tree, findings>> /\ cur = None /\ Describing = {}
        /\ cur'.do \notin {"script", "digest"} \/ IsIncluded(cur'.file)
    BY <1>1, <1>4, <2>1, <2>2 DEF Take, GoTo, Fits, Describing
  <2> QED BY <1>1, <2>3, JudgedStays
<1>5. CASE Leave
  <2>1. UNCHANGED <<tree, findings>> /\ cur' = None /\ Describing = {}
    BY <1>5 DEF Leave, Describing
  <2> QED BY <1>1, <2>1, JudgedStays
<1>6. ASSUME NEW f \in Files, Merge(f) PROVE JudgedFirst'
  <2>1. /\ UNCHANGED <<cur, findings, judged>> /\ judged[f] # {}
        /\ \A g \in Files \ {f} : tree'[g] = tree[g]
        /\ tree'[f] \in Contents \/ tree'[f] = tree[f]
    BY <1>1, <1>6 DEF Merge, Enter, ManifestPass
  <2> QED BY <1>1, <2>1 DEF JudgedFirst, Describing, IsIncluded
<1>7. ASSUME NEW f \in Files, f = cur.file, ListUnread(f) PROVE JudgedFirst'
  <2>1. /\ tree' = [tree EXCEPT ![f] = UnreadDigest] /\ findings' = findings \cup {f} /\ cur' = None
        /\ UNCHANGED judged /\ Describing \subseteq {f}
    BY <1>7 DEF ListUnread, Describing
  <2>2. /\ tree'[f] = UnreadDigest /\ f \in findings' /\ findings \cup Describing \subseteq findings'
        /\ \A g \in Files \ {f} : tree'[g] = tree[g]
    BY <1>1, <2>1
  <2> QED BY <1>1, <2>1, <2>2 DEF JudgedFirst, IsIncluded
<1>8. CASE TestHead
  <2>1. PICK f \in Files : f = cur.file
    BY <1>8, TestStep
  <2>2. CASE ListUnread(f)
    BY <1>7, <2>1, <2>2
  <2>3. ASSUME NEW next, Fits(f, next), cur' = next, UNCHANGED <<tree, findings>>,
               (\E b \in Contents : Judge(f, b)) \/ next.do # "script"
        PROVE  JudgedFirst'
    <3>1. next.do # "digest" /\ next.file = f
      BY <2>3 DEF Fits
    <3>2. (\E b \in Contents : Judge(f, b)) => judged'[f] # {}
      BY DEF Judge, AuditTypeOK
    <3>3. Describing = {}
      BY <1>8 DEF TestHead, Describing
    <3> QED BY <1>1, <2>3, <3>1, <3>2, <3>3, JudgedStays
  <2> QED BY <1>8, <2>1, <2>2, <2>3, TestStep DEF GoTo
<1>9. CASE Analyse
  <2>1. PICK f \in Files : f = cur.file
    BY <1>9, AtFile DEF Analyse, Counted, None
  <2>2. CASE ListUnread(f)
    BY <1>7, <2>1, <2>2
  <2>3. CASE ~ListUnread(f)
    <3>1. (\E b \in Contents : Judge(f, b)) => judged'[f] # {}
      BY DEF Judge, AuditTypeOK
    <3>2. cur.do = "script" => judged'[f] # {} \/ IsIncluded(f)
      BY <1>1, <2>1 DEF JudgedFirst
    <3>3. (judged'[f] # {} \/ IsIncluded(f)) /\ cur'.file = f /\ findings \subseteq findings' /\ tree' = tree /\ Describing = {}
      BY <1>9, <2>1, <2>3, <3>1, <3>2 DEF Analyse, Swallows, At, Describing, Counted
    <3> QED BY <1>1, <3>3, JudgedStays
  <2> QED BY <2>2, <2>3
<1>10. CASE Digest
  <2>1. PICK f \in Files : f = cur.file
    BY <1>10, AtFile DEF Digest, None
  <2>2. CASE ListUnread(f)
    BY <1>7, <2>1, <2>2
  <2>3. CASE ~ListUnread(f)
    <3>1. /\ judged[f] # {} \/ IsIncluded(f)
          /\ UNCHANGED <<judged, findings>> /\ cur' = None /\ Describing = {}
      BY <1>10, <2>1, <2>3 DEF Digest, JudgedFirst, Describing
    <3>2. PICK b \in Contents : tree' = [tree EXCEPT ![f] = b]
      BY <1>10, <2>1, <2>3 DEF Digest, Enter
    <3>3. tree'[f] \in Contents /\ \A g \in Files \ {f} : tree'[g] = tree[g]
      BY <1>1, <3>2
    <3> QED BY <1>1, <3>1, <3>3 DEF JudgedFirst, IsIncluded
  <2> QED BY <2>2, <2>3
<1>11. CASE DigestArtifact
  <2>1. PICK f \in Files : f = cur.file
    BY <1>11, AtFile DEF DigestArtifact, None
  <2>2. CASE ListUnread(f)
    BY <1>7, <2>1, <2>2
  <2>3. CASE ~ListUnread(f)
    <3>1. /\ UNCHANGED <<judged, findings>> /\ cur' = At(f, "describe", 0) /\ Describing = {}
      BY <1>11, <2>1, <2>3 DEF DigestArtifact, Describing
    <3>2. Describing' = {f} /\ cur'.do = "describe"
      BY <3>1 DEF Describing, At
    <3>3. PICK b \in Contents : tree' = [tree EXCEPT ![f] = b]
      BY <1>11, <2>1, <2>3 DEF DigestArtifact, Enter
    <3>4. tree'[f] \in Contents /\ \A g \in Files \ {f} : tree'[g] = tree[g]
      BY <1>1, <3>3
    <3> QED BY <1>1, <3>1, <3>2, <3>4 DEF JudgedFirst, IsIncluded
  <2> QED BY <2>2, <2>3
<1>12. CASE Describe
  <2>1. PICK f \in Files : f = cur.file
    BY <1>12, AtFile DEF Describe, None
  <2>2. CASE ListUnread(f)
    BY <1>7, <2>1, <2>2
  <2>3. CASE ~ListUnread(f)
    <3>1. /\ tree' = tree /\ findings' = findings \cup {f} /\ cur' = None /\ Describing = {f}
      BY <1>12, <2>1, <2>3 DEF Describe, Describing
    <3> QED BY <1>1, <3>1, JudgedStays
  <2> QED BY <2>2, <2>3
<1> QED BY <1>3, <1>4, <1>5, <1>6, <1>8, <1>9, <1>10, <1>11, <1>12 DEF AuditNext, RunStep

-----------------------------------------------------------------------------
(* An audit begins in the invariant, and no step leaves it. *)
LEMMA AuditInitInv ==
  ASSUME AuditConstants
  PROVE  AuditInit => AuditInv
<1> SUFFICES ASSUME AuditInit PROVE AuditInv
  OBVIOUS
<1>1. ReadInv /\ phase = "idle"
  BY InitInv DEF AuditInit
<1>2. AuditTypeOK
  <2>1. /\ name \in [Files -> Names] /\ tree \in [Files -> Contents \cup {Absent, UnreadDigest}]
        /\ unscanned \in [Names -> Nat] /\ judged \in [Files -> SUBSET Contents]
    BY DEF AuditInit
  <2>2. cur = None /\ todo = {} /\ links = {} /\ scanned = 0 /\ findings = {} /\ mtree = {}
    BY DEF AuditInit
  <2> QED BY <1>1, <2>1, <2>2 DEF AuditTypeOK
<1>3. /\ cur = None /\ todo = {} /\ mtree = {} /\ findings = {} /\ scanned = 0
      /\ \A f \in Files : tree[f] = Absent /\ judged[f] = {}
      /\ \A n \in Names : unscanned[n] = 0
  BY DEF AuditInit
<1>4. Passes /\ SourcePass /\ ManifestPass
  BY <1>1, <1>3 DEF Passes, SourcePass, ManifestPass
<1>5. CountsAgree /\ ScansAgree
  BY <1>1 DEF CountsAgree, ScansAgree, AfterWalk
<1>6. DigestsGiven /\ JudgedFirst
  BY <1>3 DEF DigestsGiven, JudgedFirst, AuditConstants, Absent, UnreadDigest, None
<1> QED BY <1>1, <1>2, <1>4, <1>5, <1>6 DEF AuditInv, PassInv

LEMMA AuditStepInv ==
  ASSUME AuditConstants
  PROVE  AuditInv /\ [AuditNext]_auditVars => AuditInv' /\ [Next]_readVars
<1> SUFFICES ASSUME AuditInv, [AuditNext]_auditVars PROVE AuditInv' /\ [Next]_readVars
  OBVIOUS
<1>1. [Next]_readVars
  BY ReadsAsOneRun DEF AuditInv, PassInv
<1>2. ReadInv'
  BY <1>1, StepInv DEF AuditInv
<1>3. PassInv' /\ DigestsGiven'
  BY PassStep, GivenStep DEF AuditInv
<1>4. CountsAgree' /\ ScansAgree' /\ JudgedFirst'
  BY <1>3, CountStep, ScanStep, JudgedStep DEF AuditInv
<1> QED BY <1>1, <1>2, <1>3, <1>4 DEF AuditInv

LEMMA AuditInvariant ==
  ASSUME AuditConstants
  PROVE  AuditSpec => []AuditInv
BY AuditInitInv, AuditStepInv, PTL DEF AuditSpec

(***************************************************************************)
(* An audit reads as a run of any tool does: its many passes over one tree *)
(* are one run of _reads.py, and whatever holds of those holds of it.      *)
(***************************************************************************)
THEOREM AuditReadsAsOneRun ==
  ASSUME AuditConstants
  PROVE  AuditSpec => Spec
<1>1. AuditInit => Init
  BY DEF AuditInit
<1> QED BY <1>1, AuditInvariant, AuditStepInv, PTL DEF AuditSpec, Spec

(***************************************************************************)
(* Each walked file is in the digest, counted as not read or a manifest    *)
(* reported as unread; files_scanned is what readers were given; and what  *)
(* is digested is what decided a file's reader and was analysed.           *)
(***************************************************************************)
THEOREM EachFileIsAccounted ==
  ASSUME AuditConstants
  PROVE  AuditSpec => []FilesAccounted
<1>1. AuditInv => FilesAccounted
  <2> SUFFICES ASSUME AuditInv, phase = "reported" PROVE FilesAccounted
    BY DEF FilesAccounted, EachFileOnce, ScannedIsRead, JudgedIsDigested
  <2> USE DEF AuditInv, PassInv
  <2>1. cur = None /\ todo = {} /\ Pending = {} /\ AfterWalk
    BY DEF Passes, ManifestPass, Pending, AfterWalk
  <2>2. EachFileOnce
    <3>1. NotInDigest \subseteq findings
      BY <2>1 DEF ManifestPass, NotInDigest
    <3>2. \A n \in Names : LeftOut(n) = {f \in Walked \ NotInDigest : tree[f] = Absent /\ name[f] = n}
      BY <2>1 DEF LeftOut, NotInDigest
    <3> QED BY <2>1, <3>1, <3>2 DEF EachFileOnce, CountsAgree
  <2>3. ScannedIsRead
    <3>1. InReader = 0 /\ Describing = {} /\ scanned \in Nat
      BY <2>1 DEF InReader, Describing, None, AuditTypeOK
    <3>2. scanned <= Cardinality(Entered) + 0 /\ Cardinality((Entered \ findings) \ {}) + 0 <= scanned
      BY <2>1, <3>1 DEF ScansAgree
    <3>3. Cardinality(Entered) \in Nat /\ Cardinality(Entered \ findings) \in Nat
      <4>1. Entered \subseteq Files /\ Entered \ findings \subseteq Files
        BY DEF Entered, Walked
      <4> QED BY <4>1, FS_Subset, FS_CardinalityType DEF AuditConstants
    <3>4. (Entered \ findings) \ {} = Entered \ findings
      OBVIOUS
    <3>5. scanned <= Cardinality(Entered) /\ scanned >= Cardinality(Entered \ findings)
      BY <3>1, <3>2, <3>3, <3>4
    <3> QED BY <3>5 DEF ScannedIsRead, Entered
  <2>4. JudgedIsDigested
    BY DEF JudgedIsDigested, DigestsGiven, ReadInv, OneVersion
  <2> QED BY <2>2, <2>3, <2>4 DEF FilesAccounted
<1> QED BY <1>1, AuditInvariant, PTL

(***************************************************************************)
(* "no run reports a clean result over it": exit code 0 means that no file *)
(* stands as unread, and that each file in the digest was judged by the    *)
(* content digested, but for the files that a CI file includes.            *)
(***************************************************************************)
CleanButIncluded == ExitCode = 0 =>
  \A f \in Walked : /\ tree[f] # UnreadDigest
                    /\ tree[f] \in Contents /\ ~IsIncluded(f) => tree[f] \in judged[f]

THEOREM CleanMeansRead ==
  ASSUME AuditConstants
  PROVE  AuditSpec => []CleanButIncluded
<1>1. AuditInv => CleanButIncluded
  <2> SUFFICES ASSUME AuditInv, ExitCode = 0 PROVE CleanButIncluded
    BY DEF CleanButIncluded
  <2> USE DEF AuditInv, PassInv
  <2>1. phase = "reported" /\ findings = {}
    BY DEF ExitCode, Verdict
  <2>2. Describing = {}
    BY <2>1 DEF Passes, Describing, None
  <2> SUFFICES ASSUME NEW f \in Walked
               PROVE  /\ tree[f] # UnreadDigest
                      /\ tree[f] \in Contents /\ ~IsIncluded(f) => tree[f] \in judged[f]
    BY DEF CleanButIncluded
  <2>3. f \in Files
    BY DEF Walked
  <2>4. tree[f] \in Contents /\ ~IsIncluded(f) => judged[f] # {}
    BY <2>1, <2>2, <2>3 DEF JudgedFirst
  <2>5. tree[f] \in Contents => judged[f] \subseteq {tree[f]}
    BY <2>3 DEF DigestsGiven, ReadInv, OneVersion
  <2> QED BY <2>1, <2>3, <2>4, <2>5 DEF JudgedFirst
<1> QED BY <1>1, AuditInvariant, PTL

(* Where no CI file includes another, nothing is left out of that.          *)
THEOREM CleanIsReadAlone ==
  ASSUME AuditConstants, "included" \notin Names
  PROVE  AuditSpec => []CleanIsRead
<1>1. AuditInv /\ CleanButIncluded => CleanIsRead
  <2> SUFFICES ASSUME AuditInv, CleanButIncluded PROVE CleanIsRead
    OBVIOUS
  <2>1. \A f \in Files : ~IsIncluded(f)
    BY DEF AuditInv, PassInv, AuditTypeOK, IsIncluded
  <2> QED BY <2>1 DEF CleanButIncluded, CleanIsRead, Walked
<1> QED BY <1>1, AuditInvariant, CleanMeansRead, PTL

-----------------------------------------------------------------------------
(***************************************************************************)
(* The digest of a file that streams past in chunks.  The folds of         *)
(* StreamDigest are recursive functions over a sequence's prefixes: what   *)
(* they make of two sequences joined is what they make of each (Folded,    *)
(* where no CRLF lies across the cut).                                     *)
(***************************************************************************)
UpTo(s) == 0..Len(s)
IndexRank(i) == i
FoldBody(s, f, i) ==
  IF i = 0 THEN <<>>
  ELSE IF s[i] = "cr" /\ i < Len(s) /\ s[i + 1] = "lf" THEN f[i - 1]
  ELSE Append(f[i - 1], s[i])
CrlfBody(s, f, i) ==
  IF i = 0 THEN <<>>
  ELSE IF s[i] = "lf" THEN Append(Append(f[i - 1], "cr"), "lf")
  ELSE Append(f[i - 1], s[i])
UpToFirst(p) == 0..Len(p[1])
TimesBody(p, f, i) == IF i = 0 THEN 0 ELSE f[i - 1] + (IF p[1][i] \in p[2] THEN 1 ELSE 0)

FoldR == INSTANCE Recursion WITH Dom <- UpTo, Rank <- IndexRank, Body <- FoldBody
CrlfR == INSTANCE Recursion WITH Dom <- UpTo, Rank <- IndexRank, Body <- CrlfBody
TimesR == INSTANCE Recursion WITH Dom <- UpToFirst, Rank <- IndexRank, Body <- TimesBody

Folds(s, f) == f = [i \in 0..Len(s) |-> FoldBody(s, f, i)]
Ends(s, f) == f = [i \in 0..Len(s) |-> CrlfBody(s, f, i)]
Counts(s, B, f) == f = [i \in 0..Len(s) |-> TimesBody(<<s, B>>, f, i)]

LEMMA FoldedIs ==
  ASSUME NEW S, NEW s \in Seq(S)
  PROVE  \E f : Folds(s, f) /\ Folded(s) = f[Len(s)]
<1>1. FoldR!Local(s)
  <2>1. ASSUME NEW x \in 0..Len(s), NEW g, NEW h,
               \A y \in 0..Len(s) : y < x => g[y] = h[y]
        PROVE  FoldBody(s, g, x) = FoldBody(s, h, x)
    <3>1. CASE x = 0
      BY <3>1 DEF FoldBody
    <3>2. CASE x # 0
      <4>1. x - 1 \in 0..Len(s) /\ x - 1 < x
        BY <3>2
      <4>2. g[x - 1] = h[x - 1]
        BY <4>1, <2>1
      <4> QED BY <3>2, <4>2 DEF FoldBody
    <3> QED BY <3>1, <3>2
  <2>2. \A x \in 0..Len(s) : IndexRank(x) \in Nat
    BY DEF IndexRank
  <2> QED BY <2>1, <2>2 DEF FoldR!Local, UpTo, IndexRank
<1>2. \E f : f = [i \in 0..Len(s) |-> FoldBody(s, f, i)]
  BY <1>1, FoldR!Recursive DEF UpTo
<1> QED BY <1>2 DEF Folds, Folded, FoldBody

LEMMA CrlfIs ==
  ASSUME NEW S, NEW s \in Seq(S)
  PROVE  \E f : Ends(s, f) /\ Crlf(s) = f[Len(s)]
<1>1. CrlfR!Local(s)
  <2>1. ASSUME NEW x \in 0..Len(s), NEW g, NEW h,
               \A y \in 0..Len(s) : y < x => g[y] = h[y]
        PROVE  CrlfBody(s, g, x) = CrlfBody(s, h, x)
    <3>1. CASE x = 0
      BY <3>1 DEF CrlfBody
    <3>2. CASE x # 0
      <4>1. x - 1 \in 0..Len(s) /\ x - 1 < x
        BY <3>2
      <4>2. g[x - 1] = h[x - 1]
        BY <4>1, <2>1
      <4> QED BY <3>2, <4>2 DEF CrlfBody
    <3> QED BY <3>1, <3>2
  <2>2. \A x \in 0..Len(s) : IndexRank(x) \in Nat
    BY DEF IndexRank
  <2> QED BY <2>1, <2>2 DEF CrlfR!Local, UpTo, IndexRank
<1>2. \E f : f = [i \in 0..Len(s) |-> CrlfBody(s, f, i)]
  BY <1>1, CrlfR!Recursive DEF UpTo
<1> QED BY <1>2 DEF Ends, Crlf, CrlfBody

LEMMA TimesIs ==
  ASSUME NEW S, NEW s \in Seq(S), NEW B
  PROVE  \E f : Counts(s, B, f) /\ Times(s, B) = f[Len(s)]
<1>1. TimesR!Local(<<s, B>>)
  <2>1. ASSUME NEW x \in 0..Len(s), NEW g, NEW h,
               \A y \in 0..Len(s) : y < x => g[y] = h[y]
        PROVE  TimesBody(<<s, B>>, g, x) = TimesBody(<<s, B>>, h, x)
    <3>1. CASE x = 0
      BY <3>1 DEF TimesBody
    <3>2. CASE x # 0
      <4>1. x - 1 \in 0..Len(s) /\ x - 1 < x
        BY <3>2
      <4>2. g[x - 1] = h[x - 1]
        BY <4>1, <2>1
      <4> QED BY <3>2, <4>2 DEF TimesBody
    <3> QED BY <3>1, <3>2
  <2>2. \A x \in 0..Len(s) : IndexRank(x) \in Nat
    BY DEF IndexRank
  <2> QED BY <2>1, <2>2 DEF TimesR!Local, UpToFirst, IndexRank
<1>2. \E f : f = [i \in 0..Len(s) |-> TimesBody(<<s, B>>, f, i)]
  BY <1>1, TimesR!Recursive DEF UpToFirst
<1> QED BY <1>2 DEF Counts, Times, TimesBody

\* Folds of a sequence, by its bytes.
LEMMA FoldValues ==
  ASSUME NEW S, NEW s \in Seq(S), NEW f, Folds(s, f)
  PROVE  /\ f[0] = <<>>
         /\ \A i \in 1..Len(s) : f[i] = FoldBody(s, f, i)
         /\ \A i \in 0..Len(s) : f[i] \in Seq(S)
<1>1. f[0] = <<>> /\ \A i \in 1..Len(s) : f[i] = FoldBody(s, f, i)
  <2>1. \A i \in 0..Len(s) : f[i] = FoldBody(s, f, i)
    BY Zenon DEF Folds
  <2> QED BY <2>1 DEF FoldBody
<1> DEFINE I == {i \in Nat : i <= Len(s) => f[i] \in Seq(S)}
<1>2. 0 \in I
  <2>1. <<>> \in Seq(S)
    OBVIOUS
  <2> QED BY <1>1, <2>1
<1>3. ASSUME NEW i \in Nat, i \in I PROVE i + 1 \in I
  <2> SUFFICES ASSUME i + 1 <= Len(s) PROVE f[i + 1] \in Seq(S)
    OBVIOUS
  <2>1. f[i] \in Seq(S) /\ s[i + 1] \in S
    BY <1>3
  <2>2. f[i + 1] = FoldBody(s, f, i + 1)
    BY <1>1
  <2>3. i + 1 # 0 /\ (i + 1) - 1 = i
    OBVIOUS
  <2> QED BY <2>1, <2>2, <2>3 DEF FoldBody
<1>4. Nat \subseteq I
  <2> HIDE DEF I
  <2> QED BY <1>2, <1>3, FoldR!SetInduction
<1> QED BY <1>1, <1>4

LEMMA FoldedSeq ==
  ASSUME NEW S, NEW s \in Seq(S)
  PROVE  Folded(s) \in Seq(S)
<1>1. PICK f : Folds(s, f) /\ Folded(s) = f[Len(s)]
  BY FoldedIs
<1>2. Len(s) \in 0..Len(s)
  OBVIOUS
<1> QED BY <1>1, <1>2, FoldValues

\* No CRLF lies across the cut.
CleanCut(s, t) == s # <<>> /\ t # <<>> => ~(s[Len(s)] = "cr" /\ t[1] = "lf")

(* What follows a cut is folded as if it stood alone.                       *)
LEMMA FoldAfter ==
  ASSUME NEW S, NEW s \in Seq(S), NEW t \in Seq(S), NEW f, Folds(s \o t, f), NEW g, Folds(t, g)
  PROVE  f[Len(s) + Len(t)] = f[Len(s)] \o g[Len(t)]
<1> DEFINE st == s \o t
           P(j) == f[Len(s) + j] = f[Len(s)] \o g[j]
           I == {j \in Nat : j <= Len(t) => P(j)}
<1>1. st \in Seq(S) /\ Len(st) = Len(s) + Len(t)
  OBVIOUS
<1>2. \A j \in 1..Len(t) : st[Len(s) + j] = t[j]
  OBVIOUS
<1>3. Folds(st, f)
  OBVIOUS
<1> HIDE DEF st
<1>4. /\ \A i \in 1..Len(st) : f[i] = FoldBody(st, f, i)
      /\ \A i \in 0..Len(st) : f[i] \in Seq(S)
  BY <1>1, <1>3, FoldValues
<1>5. /\ g[0] = <<>>
      /\ \A i \in 1..Len(t) : g[i] = FoldBody(t, g, i)
      /\ \A i \in 0..Len(t) : g[i] \in Seq(S)
  BY FoldValues
<1>6. P(0)
  <2>1. f[Len(s)] \in Seq(S)
    BY <1>1, <1>4
  <2>2. f[Len(s)] \o <<>> = f[Len(s)] /\ Len(s) + 0 = Len(s)
    BY <2>1
  <2> QED BY <2>2, <1>5
<1>7. ASSUME NEW j \in Nat, j + 1 <= Len(t), P(j) PROVE P(j + 1)
  <2> DEFINE k == Len(s) + (j + 1)
  <2>1. k \in 1..Len(st) /\ k # 0 /\ k - 1 = Len(s) + j /\ (k < Len(st) <=> j + 1 < Len(t)) /\ k + 1 = Len(s) + ((j + 1) + 1)
    BY <1>1, <1>7
  <2>2. f[k] = FoldBody(st, f, k) /\ g[j + 1] = FoldBody(t, g, j + 1)
    BY <2>1, <1>4, <1>5, <1>7
  <2>3. st[k] = t[j + 1] /\ (j + 1 < Len(t) => st[k + 1] = t[(j + 1) + 1])
    BY <1>2, <2>1, <1>7
  <2>4. f[k - 1] = f[Len(s)] \o g[j]
    BY <1>7, <2>1
  <2>5. j + 1 # 0 /\ (j + 1) - 1 = j
    OBVIOUS
  <2>6. f[Len(s)] \in Seq(S) /\ g[j] \in Seq(S) /\ t[j + 1] \in S
    BY <1>1, <1>4, <1>5, <1>7
  <2> HIDE DEF k
  <2>7. CASE t[j + 1] = "cr" /\ j + 1 < Len(t) /\ t[(j + 1) + 1] = "lf"
    <3>1. f[k] = f[k - 1] /\ g[j + 1] = g[j]
      BY <2>1, <2>2, <2>3, <2>5, <2>7 DEF FoldBody
    <3> QED BY <3>1, <2>4 DEF k
  <2>8. CASE ~(t[j + 1] = "cr" /\ j + 1 < Len(t) /\ t[(j + 1) + 1] = "lf")
    <3>1. f[k] = Append(f[k - 1], t[j + 1]) /\ g[j + 1] = Append(g[j], t[j + 1])
      BY <2>1, <2>2, <2>3, <2>5, <2>8 DEF FoldBody
    <3>2. Append(f[Len(s)] \o g[j], t[j + 1]) = f[Len(s)] \o Append(g[j], t[j + 1])
      <4> DEFINE x == f[Len(s)]
                 y == g[j]
                 z == t[j + 1]
      <4>1. x \in Seq(S) /\ y \in Seq(S) /\ z \in S
        BY <2>6
      <4> HIDE DEF x, y, z
      <4>2. x \o y \in Seq(S) /\ <<z>> \in Seq(S)
        BY <4>1
      <4>3. Append(x \o y, z) = (x \o y) \o <<z>> /\ Append(y, z) = y \o <<z>>
        BY <4>1, <4>2, AppendIsConcat
      <4>4. (x \o y) \o <<z>> = x \o (y \o <<z>>)
        BY <4>1, <4>2, ConcatAssociative
      <4>5. Append(x \o y, z) = x \o Append(y, z)
        BY <4>3, <4>4
      <4> QED BY <4>5 DEF x, y, z
    <3> QED BY <3>1, <3>2, <2>4 DEF k
  <2> QED BY <2>7, <2>8 DEF k
<1> HIDE DEF P
<1>8. Nat \subseteq I
  <2>1. 0 \in I
    BY <1>6
  <2>2. ASSUME NEW j \in Nat, j \in I PROVE j + 1 \in I
    BY <1>7, <2>2
  <2> HIDE DEF I
  <2> QED BY <2>1, <2>2, FoldR!SetInduction
<1>9. P(Len(t))
  BY <1>8
<1> QED BY <1>9 DEF P

LEMMA FoldBefore ==
  ASSUME NEW S, NEW s \in Seq(S), NEW t \in Seq(S), NEW f, Folds(s \o t, f), NEW h, Folds(s, h)
  PROVE  /\ \A i \in 0..Len(s) : i < Len(s) => f[i] = h[i]
         /\ CleanCut(s, t) => f[Len(s)] = h[Len(s)]
<1> DEFINE st == s \o t
           I == {i \in Nat : i < Len(s) \/ (i = Len(s) /\ CleanCut(s, t)) => f[i] = h[i]}
<1>1. st \in Seq(S) /\ Len(st) = Len(s) + Len(t)
  OBVIOUS
<1>2. (\A j \in 1..Len(s) : st[j] = s[j]) /\ (t # <<>> => st[Len(s) + 1] = t[1])
  OBVIOUS
<1>3. Folds(st, f)
  OBVIOUS
<1> HIDE DEF st
<1>4. f[0] = <<>> /\ \A i \in 1..Len(st) : f[i] = FoldBody(st, f, i)
  BY <1>1, <1>3, FoldValues
<1>5. h[0] = <<>> /\ \A i \in 1..Len(s) : h[i] = FoldBody(s, h, i)
  BY FoldValues
<1>6. 0 \in I
  BY <1>4, <1>5
<1>7. ASSUME NEW i \in Nat, i \in I PROVE i + 1 \in I
  <2> DEFINE k == i + 1
  <2> SUFFICES ASSUME k < Len(s) \/ (k = Len(s) /\ CleanCut(s, t)) PROVE f[k] = h[k]
    OBVIOUS
  <2>1. k \in 1..Len(s) /\ k \in 1..Len(st) /\ k - 1 = i /\ k # 0
    BY <1>1
  <2>2. f[k] = FoldBody(st, f, k) /\ h[k] = FoldBody(s, h, k) /\ f[k - 1] = h[k - 1]
    BY <2>1, <1>4, <1>5, <1>7
  <2>3. st[k] = s[k]
    BY <2>1, <1>2
  <2>4. (st[k] = "cr" /\ k < Len(st) /\ st[k + 1] = "lf") <=> (s[k] = "cr" /\ k < Len(s) /\ s[k + 1] = "lf")
    <3>1. CASE k < Len(s)
      <4>1. st[k + 1] = s[k + 1]
        BY <3>1, <2>1, <1>2
      <4> QED BY <3>1, <4>1, <2>3, <1>1
    <3>2. CASE k = Len(s) /\ CleanCut(s, t)
      <4>1. s # <<>>
        BY <2>1
      <4>2. k < Len(st) => t # <<>> /\ st[k + 1] = t[1]
        BY <3>2, <1>1, <1>2
      <4> QED BY <3>2, <4>1, <4>2, <2>3 DEF CleanCut
    <3> QED BY <3>1, <3>2
  <2> HIDE DEF k
  <2> QED BY <2>1, <2>2, <2>3, <2>4 DEF FoldBody
<1>8. Nat \subseteq I
  <2> HIDE DEF I
  <2> QED BY <1>6, <1>7, FoldR!SetInduction
<1> QED BY <1>8

LEMMA FoldedConcat ==
  ASSUME NEW S, NEW s \in Seq(S), NEW t \in Seq(S), CleanCut(s, t)
  PROVE  Folded(s \o t) = Folded(s) \o Folded(t)
<1> DEFINE st == s \o t
<1>1. st \in Seq(S) /\ Len(st) = Len(s) + Len(t)
  OBVIOUS
<1>2. PICK f : Folds(st, f) /\ Folded(st) = f[Len(st)]
  BY <1>1, FoldedIs
<1>3. PICK g : Folds(t, g) /\ Folded(t) = g[Len(t)]
  BY FoldedIs
<1>4. PICK h : Folds(s, h) /\ Folded(s) = h[Len(s)]
  BY FoldedIs
<1>5. f[Len(s) + Len(t)] = f[Len(s)] \o g[Len(t)]
  BY <1>2, <1>3, FoldAfter
<1>6. f[Len(s)] = h[Len(s)]
  BY <1>2, <1>4, FoldBefore
<1>7. f[Len(st)] = f[Len(s)] \o g[Len(t)]
  BY <1>1, <1>5
<1> QED BY <1>2, <1>3, <1>4, <1>6, <1>7

LEMMA FoldedShort ==
  /\ Folded(<<>>) = <<>>
  /\ \A S : \A b \in S : Folded(<<b>>) = <<b>>
<1>1. Folded(<<>>) = <<>>
  <2>1. <<>> \in Seq({}) /\ Len(<<>>) = 0
    OBVIOUS
  <2>2. PICK f : Folds(<<>>, f) /\ Folded(<<>>) = f[Len(<<>>)]
    BY <2>1, FoldedIs
  <2> QED BY <2>1, <2>2, FoldValues
<1>2. ASSUME NEW S, NEW b \in S PROVE Folded(<<b>>) = <<b>>
  <2>1. <<b>> \in Seq(S) /\ Len(<<b>>) = 1 /\ <<b>>[1] = b
    OBVIOUS
  <2>2. PICK f : Folds(<<b>>, f) /\ Folded(<<b>>) = f[Len(<<b>>)]
    BY <2>1, FoldedIs
  <2>3. f[0] = <<>> /\ \A i \in 1..Len(<<b>>) : f[i] = FoldBody(<<b>>, f, i)
    BY <2>1, <2>2, FoldValues
  <2>4. f[1] = FoldBody(<<b>>, f, 1)
    BY <2>1, <2>3
  <2>5. f[1] = Append(<<>>, b)
    BY <2>1, <2>3, <2>4 DEF FoldBody
  <2> QED BY <2>1, <2>2, <2>5
<1> QED BY <1>1, <1>2

(* The CR of a CRLF is gone.                                                *)
LEMMA FoldedCrLf ==
  ASSUME NEW t \in Seq(Bytes), t # <<>>, t[1] = "lf"
  PROVE  Folded(<<"cr">> \o t) = Folded(t)
<1> DEFINE s == <<"cr">>
           st == s \o t
<1>1. /\ s \in Seq(Bytes) /\ Len(s) = 1 /\ s[1] = "cr"
      /\ st \in Seq(Bytes) /\ Len(st) = 1 + Len(t) /\ Len(st) > 1 /\ st[1] = "cr" /\ st[2] = "lf"
  BY DEF Bytes
<1>2. PICK f : Folds(st, f) /\ Folded(st) = f[Len(st)]
  BY <1>1, FoldedIs
<1>3. PICK g : Folds(t, g) /\ Folded(t) = g[Len(t)]
  BY FoldedIs
<1> HIDE DEF st
<1>4. f[0] = <<>> /\ f[1] = FoldBody(st, f, 1)
  BY <1>1, <1>2, FoldValues
<1>5. f[1] = f[1 - 1]
  BY <1>1, <1>4 DEF FoldBody
<1>6. f[Len(st)] = f[1] \o g[Len(t)]
  <2>1. Folds(s \o t, f)
    BY <1>2 DEF st
  <2>2. f[Len(s) + Len(t)] = f[Len(s)] \o g[Len(t)]
    BY <1>1, <1>3, <2>1, FoldAfter
  <2> QED BY <2>2, <1>1
<1>7. g[Len(t)] \in Seq(Bytes)
  BY <1>3, FoldedSeq
<1>8. <<>> \o g[Len(t)] = g[Len(t)]
  BY <1>7
<1>9. f[1] = <<>>
  BY <1>4, <1>5
<1>10. Folded(st) = Folded(t)
  BY <1>2, <1>3, <1>6, <1>8, <1>9
<1> QED BY <1>10 DEF st
-----------------------------------------------------------------------------
LEMMA CountValues ==
  ASSUME NEW S, NEW s \in Seq(S), NEW B, NEW f, Counts(s, B, f)
  PROVE  /\ f[0] = 0
         /\ \A i \in 1..Len(s) : f[i] = f[i - 1] + (IF s[i] \in B THEN 1 ELSE 0)
         /\ \A i \in 0..Len(s) : f[i] \in Nat
<1>1. f[0] = 0 /\ \A i \in 1..Len(s) : f[i] = f[i - 1] + (IF s[i] \in B THEN 1 ELSE 0)
  <2>1. \A i \in 0..Len(s) : f[i] = TimesBody(<<s, B>>, f, i)
    BY Zenon DEF Counts
  <2>2. 0 \in 0..Len(s) /\ \A i \in 1..Len(s) : i \in 0..Len(s) /\ i # 0
    OBVIOUS
  <2>3. <<s, B>>[1] = s /\ <<s, B>>[2] = B
    OBVIOUS
  <2> QED BY <2>1, <2>2, <2>3, Zenon DEF TimesBody
<1> DEFINE I == {i \in Nat : i <= Len(s) => f[i] \in Nat}
<1>2. 0 \in I
  BY <1>1
<1>3. ASSUME NEW i \in Nat, i \in I PROVE i + 1 \in I
  <2>1. CASE i + 1 <= Len(s)
    <3>1. f[i + 1] = f[(i + 1) - 1] + (IF s[i + 1] \in B THEN 1 ELSE 0)
      BY <2>1, <1>1
    <3> QED BY <3>1, <1>3, <2>1
  <2>2. CASE ~(i + 1 <= Len(s))
    BY <2>2
  <2> QED BY <2>1, <2>2
<1>4. Nat \subseteq I
  <2> HIDE DEF I
  <2> QED BY <1>2, <1>3, FoldR!SetInduction
<1> QED BY <1>1, <1>4

LEMMA TimesConcat ==
  ASSUME NEW S, NEW s \in Seq(S), NEW t \in Seq(S), NEW B
  PROVE  /\ Times(s \o t, B) = Times(s, B) + Times(t, B)
         /\ Times(s, B) \in Nat /\ Times(t, B) \in Nat
<1> DEFINE st == s \o t
<1>1. st \in Seq(S) /\ Len(st) = Len(s) + Len(t)
  OBVIOUS
<1>2. (\A j \in 1..Len(s) : st[j] = s[j]) /\ (\A j \in 1..Len(t) : st[Len(s) + j] = t[j])
  OBVIOUS
<1>3. PICK f : Counts(st, B, f) /\ Times(st, B) = f[Len(st)]
  BY <1>1, TimesIs
<1>4. PICK g : Counts(t, B, g) /\ Times(t, B) = g[Len(t)]
  BY TimesIs
<1>5. PICK h : Counts(s, B, h) /\ Times(s, B) = h[Len(s)]
  BY TimesIs
<1> HIDE DEF st
<1>6. /\ f[0] = 0
      /\ \A i \in 1..Len(st) : f[i] = f[i - 1] + (IF st[i] \in B THEN 1 ELSE 0)
      /\ \A i \in 0..Len(st) : f[i] \in Nat
  BY <1>1, <1>3, CountValues
<1>7. /\ g[0] = 0
      /\ \A i \in 1..Len(t) : g[i] = g[i - 1] + (IF t[i] \in B THEN 1 ELSE 0)
      /\ \A i \in 0..Len(t) : g[i] \in Nat
  BY <1>4, CountValues
<1>8. /\ h[0] = 0
      /\ \A i \in 1..Len(s) : h[i] = h[i - 1] + (IF s[i] \in B THEN 1 ELSE 0)
      /\ \A i \in 0..Len(s) : h[i] \in Nat
  BY <1>5, CountValues
<1>9. f[Len(s)] = h[Len(s)]
  <2> DEFINE I == {i \in Nat : i <= Len(s) => f[i] = h[i]}
  <2>1. 0 \in I
    BY <1>6, <1>8
  <2>2. ASSUME NEW i \in Nat, i \in I PROVE i + 1 \in I
    <3>1. CASE i + 1 <= Len(s)
      <4>1. i + 1 \in 1..Len(s) /\ i + 1 \in 1..Len(st) /\ (i + 1) - 1 = i
        BY <3>1, <1>1
      <4>2. f[i + 1] = f[i] + (IF s[i + 1] \in B THEN 1 ELSE 0)
        BY <4>1, <1>2, <1>6
      <4>3. h[i + 1] = h[i] + (IF s[i + 1] \in B THEN 1 ELSE 0)
        BY <4>1, <1>8
      <4> QED BY <4>1, <4>2, <4>3, <2>2
    <3>2. CASE ~(i + 1 <= Len(s))
      BY <3>2
    <3> QED BY <3>1, <3>2
  <2>3. Nat \subseteq I
    <3> HIDE DEF I
    <3> QED BY <2>1, <2>2, FoldR!SetInduction
  <2> QED BY <2>3
<1>10. f[Len(s) + Len(t)] = f[Len(s)] + g[Len(t)]
  <2> DEFINE I == {j \in Nat : j <= Len(t) => f[Len(s) + j] = f[Len(s)] + g[j]}
  <2>1. 0 \in I
    BY <1>1, <1>6, <1>7
  <2>2. ASSUME NEW j \in Nat, j \in I PROVE j + 1 \in I
    <3>1. CASE j + 1 <= Len(t)
      <4>1. j + 1 \in 1..Len(t) /\ Len(s) + (j + 1) \in 1..Len(st) /\ (j + 1) - 1 = j /\ (Len(s) + (j + 1)) - 1 = Len(s) + j
        BY <3>1, <1>1
      <4>2. st[Len(s) + (j + 1)] = t[j + 1]
        BY <4>1, <1>2
      <4>3. f[Len(s) + j] = f[Len(s)] + g[j]
        BY <3>1, <2>2
      <4>4. f[Len(s)] \in Nat /\ g[j] \in Nat
        BY <3>1, <1>1, <1>6, <1>7
      <4>5. f[Len(s) + (j + 1)] = f[Len(s) + j] + (IF t[j + 1] \in B THEN 1 ELSE 0)
        BY <4>1, <4>2, <1>6
      <4>6. g[j + 1] = g[j] + (IF t[j + 1] \in B THEN 1 ELSE 0)
        BY <4>1, <1>7
      <4> QED BY <4>3, <4>4, <4>5, <4>6
    <3>2. CASE ~(j + 1 <= Len(t))
      BY <3>2
    <3> QED BY <3>1, <3>2
  <2>3. Nat \subseteq I
    <3> HIDE DEF I
    <3> QED BY <2>1, <2>2, FoldR!SetInduction
  <2> QED BY <2>3
<1>11. h[Len(s)] \in Nat /\ g[Len(t)] \in Nat
  BY <1>7, <1>8
<1>12. Times(st, B) = Times(s, B) + Times(t, B)
  BY <1>1, <1>3, <1>4, <1>5, <1>9, <1>10
<1> QED BY <1>4, <1>5, <1>11, <1>12 DEF st

LEMMA TimesShort ==
  /\ \A B : Times(<<>>, B) = 0
  /\ \A S, B : \A b \in S : Times(<<b>>, B) = IF b \in B THEN 1 ELSE 0
<1>1. ASSUME NEW B PROVE Times(<<>>, B) = 0
  <2>1. <<>> \in Seq({}) /\ Len(<<>>) = 0
    OBVIOUS
  <2>2. PICK f : Counts(<<>>, B, f) /\ Times(<<>>, B) = f[Len(<<>>)]
    BY <2>1, TimesIs
  <2> QED BY <2>1, <2>2, CountValues
<1>2. ASSUME NEW S, NEW B, NEW b \in S PROVE Times(<<b>>, B) = IF b \in B THEN 1 ELSE 0
  <2>1. <<b>> \in Seq(S) /\ Len(<<b>>) = 1 /\ <<b>>[1] = b
    OBVIOUS
  <2>2. PICK f : Counts(<<b>>, B, f) /\ Times(<<b>>, B) = f[Len(<<b>>)]
    BY <2>1, TimesIs
  <2> DEFINE s == <<b>>
  <2>6. s \in Seq(S) /\ Counts(s, B, f)
    BY <2>1, <2>2
  <2> HIDE DEF s
  <2>3. f[0] = 0 /\ \A i \in 1..Len(s) : f[i] = f[i - 1] + (IF s[i] \in B THEN 1 ELSE 0)
    BY <2>6, CountValues
  <2>4. f[1] = f[1 - 1] + (IF <<b>>[1] \in B THEN 1 ELSE 0)
    BY <2>1, <2>3 DEF s
  <2>5. f[1] = IF b \in B THEN 1 ELSE 0
    BY <2>1, <2>3, <2>4
  <2> QED BY <2>1, <2>2, <2>5
<1> QED BY <1>1, <1>2

-----------------------------------------------------------------------------
(* The checkout with CRLF endings, byte by byte.                            *)
CrlfOf(b) == IF b = "lf" THEN <<"cr", "lf">> ELSE <<b>>

LEMMA CrlfValues ==
  ASSUME NEW s \in Seq(Bytes), NEW f, Ends(s, f)
  PROVE  /\ f[0] = <<>>
         /\ \A i \in 1..Len(s) : f[i] = f[i - 1] \o CrlfOf(s[i])
         /\ \A i \in 0..Len(s) : f[i] \in Seq(Bytes)
<1>1. f[0] = <<>> /\ \A i \in 1..Len(s) : f[i] = CrlfBody(s, f, i)
  <2>1. \A i \in 0..Len(s) : f[i] = CrlfBody(s, f, i)
    BY Zenon DEF Ends
  <2>2. 0 \in 0..Len(s) /\ \A i \in 1..Len(s) : i \in 0..Len(s)
    OBVIOUS
  <2> QED BY <2>1, <2>2, Zenon DEF CrlfBody
<1>2. ASSUME NEW i \in 1..Len(s), f[i - 1] \in Seq(Bytes)
      PROVE  f[i] = f[i - 1] \o CrlfOf(s[i]) /\ f[i] \in Seq(Bytes)
  <2> DEFINE r == f[i - 1]
  <2>1. r \in Seq(Bytes) /\ s[i] \in Bytes /\ "cr" \in Bytes /\ "lf" \in Bytes
    BY <1>2 DEF Bytes
  <2>2. f[i] = CrlfBody(s, f, i) /\ i # 0
    BY <1>1
  <2>3. f[i] = IF s[i] = "lf" THEN Append(Append(r, "cr"), "lf") ELSE Append(r, s[i])
    BY <2>2 DEF CrlfBody
  <2> HIDE DEF r
  <2>4. Append(r, s[i]) = r \o <<s[i]>>
    BY <2>1, AppendIsConcat
  <2>5. Append(Append(r, "cr"), "lf") = r \o <<"cr", "lf">>
    BY <2>1
  <2>6. <<s[i]>> \in Seq(Bytes) /\ <<"cr", "lf">> \in Seq(Bytes)
    BY <2>1
  <2>7. f[i] = r \o CrlfOf(s[i]) /\ CrlfOf(s[i]) \in Seq(Bytes)
    BY <2>3, <2>4, <2>5, <2>6 DEF CrlfOf
  <2>8. r \o CrlfOf(s[i]) \in Seq(Bytes)
    BY <2>1, <2>7, ConcatProperties
  <2> QED BY <2>7, <2>8 DEF r
<1> DEFINE I == {i \in Nat : i <= Len(s) => f[i] \in Seq(Bytes)}
<1>3. Nat \subseteq I
  <2>1. 0 \in I
    <3>1. <<>> \in Seq(Bytes)
      OBVIOUS
    <3> QED BY <3>1, <1>1
  <2>2. ASSUME NEW i \in Nat, i \in I PROVE i + 1 \in I
    <3>1. CASE i + 1 <= Len(s)
      <4>1. i + 1 \in 1..Len(s) /\ (i + 1) - 1 = i /\ f[i] \in Seq(Bytes)
        BY <3>1, <2>2
      <4>2. f[(i + 1) - 1] \in Seq(Bytes)
        BY <4>1
      <4>3. f[i + 1] \in Seq(Bytes)
        BY <4>1, <4>2, <1>2
      <4> QED BY <4>3
    <3>2. CASE ~(i + 1 <= Len(s))
      BY <3>2
    <3> QED BY <3>1, <3>2
  <2> HIDE DEF I
  <2> QED BY <2>1, <2>2, FoldR!SetInduction
<1>4. \A i \in 0..Len(s) : f[i] \in Seq(Bytes)
  BY <1>3
<1>5. ASSUME NEW i \in 1..Len(s) PROVE f[i] = f[i - 1] \o CrlfOf(s[i])
  <2>1. i - 1 \in 0..Len(s)
    OBVIOUS
  <2> QED BY <2>1, <1>2, <1>4
<1> QED BY <1>1, <1>4, <1>5

LEMMA HoldsConcat ==
  ASSUME NEW S, NEW s \in Seq(S), NEW t \in Seq(S), NEW b
  PROVE  Holds(s \o t, b) <=> Holds(s, b) \/ Holds(t, b)
<1> DEFINE st == s \o t
<1>1. /\ Len(st) = Len(s) + Len(t) /\ DOMAIN st = 1..Len(st)
      /\ DOMAIN s = 1..Len(s) /\ DOMAIN t = 1..Len(t)
  OBVIOUS
<1>2. (\A j \in 1..Len(s) : st[j] = s[j]) /\ (\A j \in 1..Len(t) : st[Len(s) + j] = t[j])
  OBVIOUS
<1> HIDE DEF st
<1>3. ASSUME Holds(st, b) PROVE Holds(s, b) \/ Holds(t, b)
  <2>1. PICK i \in 1..Len(st) : st[i] = b
    BY <1>3, <1>1 DEF Holds
  <2>2. CASE i <= Len(s)
    BY <2>1, <2>2, <1>1, <1>2 DEF Holds
  <2>3. CASE i > Len(s)
    <3>1. i - Len(s) \in 1..Len(t) /\ i = Len(s) + (i - Len(s))
      BY <2>1, <2>3, <1>1
    <3>2. st[Len(s) + (i - Len(s))] = t[i - Len(s)]
      BY <3>1, <1>2
    <3> QED BY <3>1, <3>2, <2>1, <1>1 DEF Holds
  <2> QED BY <2>2, <2>3
<1>4. ASSUME Holds(s, b) PROVE Holds(st, b)
  BY <1>4, <1>1, <1>2 DEF Holds
<1>5. ASSUME Holds(t, b) PROVE Holds(st, b)
  <2>1. PICK j \in 1..Len(t) : t[j] = b
    BY <1>5, <1>1 DEF Holds
  <2>2. Len(s) + j \in 1..Len(st) /\ st[Len(s) + j] = b
    BY <2>1, <1>1, <1>2
  <2> QED BY <2>2, <1>1 DEF Holds
<1>6. Holds(st, b) <=> Holds(s, b) \/ Holds(t, b)
  BY <1>3, <1>4, <1>5
<1> QED BY <1>6 DEF st

\* x is the CRLF checkout of p, which holds no CR.
CheckoutOf(x, p) ==
  /\ Folded(x) = p /\ Folded(p) = p
  /\ Len(x) = Len(p) + Times(x, {"cr"}) /\ Times(p, {"cr"}) = 0
  /\ Times(x, {"letter"}) = Times(p, {"letter"})
  /\ Times(x, {"nul", "control"}) = Times(p, {"nul", "control"})
  /\ Holds(x, "nul") <=> Holds(p, "nul")
  /\ x # <<>> => x[Len(x)] # "cr"

LEMMA LineEnd ==
  /\ <<"cr", "lf">> \in Seq(Bytes) /\ Folded(<<"cr", "lf">>) = <<"lf">>
  /\ \A B : Times(<<"cr", "lf">>, B) = (IF "cr" \in B THEN 1 ELSE 0) + (IF "lf" \in B THEN 1 ELSE 0)
  /\ ~Holds(<<"cr", "lf">>, "nul")
<1>1. "cr" \in Bytes /\ "lf" \in Bytes
  BY DEF Bytes
<1>2. /\ <<"cr">> \in Seq(Bytes) /\ <<"lf">> \in Seq(Bytes) /\ <<"lf">> # <<>> /\ <<"lf">>[1] = "lf"
      /\ <<"cr">> \o <<"lf">> = <<"cr", "lf">>
  <2>1. <<"cr">> \in Seq(Bytes) /\ <<"lf">> \in Seq(Bytes)
    BY <1>1
  <2>2. <<"lf">> # <<>> /\ <<"lf">>[1] = "lf"
    OBVIOUS
  <2>3. <<"cr">> \o <<"lf">> = <<"cr", "lf">>
    <3> DEFINE a == <<"cr">> \o <<"lf">>
               b == <<"cr", "lf">>
    <3>1. a \in Seq(Bytes) /\ b \in Seq(Bytes)
      BY <2>1, <1>1
    <3>2. Len(a) = 2 /\ a[1] = "cr" /\ a[2] = "lf"
      OBVIOUS
    <3>3. Len(b) = 2 /\ b[1] = "cr" /\ b[2] = "lf"
      OBVIOUS
    <3> HIDE DEF a, b
    <3>4. Len(a) = Len(b) /\ \A i \in 1..Len(a) : a[i] = b[i]
      <4>1. \A i \in 1..2 : i = 1 \/ i = 2
        OBVIOUS
      <4> QED BY <3>2, <3>3, <4>1
    <3>5. a = b
      BY <3>1, <3>4, SeqEqual
    <3> QED BY <3>5 DEF a, b
  <2> QED BY <2>1, <2>2, <2>3
<1>3. Folded(<<"cr", "lf">>) = Folded(<<"lf">>)
  BY <1>2, FoldedCrLf
<1>4. Folded(<<"lf">>) = <<"lf">>
  BY <1>1, FoldedShort
<1>5. ASSUME NEW B PROVE Times(<<"cr", "lf">>, B) = (IF "cr" \in B THEN 1 ELSE 0) + (IF "lf" \in B THEN 1 ELSE 0)
  <2>1. Times(<<"cr">> \o <<"lf">>, B) = Times(<<"cr">>, B) + Times(<<"lf">>, B)
    BY <1>2, TimesConcat
  <2>2. Times(<<"cr">>, B) = (IF "cr" \in B THEN 1 ELSE 0) /\ Times(<<"lf">>, B) = (IF "lf" \in B THEN 1 ELSE 0)
    BY <1>1, TimesShort
  <2> QED BY <2>1, <2>2, <1>2
<1>6. ~Holds(<<"cr", "lf">>, "nul")
  BY DEF Holds
<1>7. <<"cr", "lf">> \in Seq(Bytes)
  BY <1>1
<1> QED BY <1>3, <1>4, <1>5, <1>6, <1>7

LEMMA CheckoutStep ==
  ASSUME NEW x \in Seq(Bytes), NEW p \in Seq(Bytes), NEW b \in Bytes, b # "cr", CheckoutOf(x, p)
  PROVE  CheckoutOf(x \o CrlfOf(b), p \o <<b>>)
<1> DEFINE e == CrlfOf(b)
           c == <<b>>
<1>1. c \in Seq(Bytes) /\ Len(c) = 1 /\ c[1] = b /\ c # <<>>
  OBVIOUS
<1>2. /\ e \in Seq(Bytes) /\ e # <<>> /\ e[Len(e)] # "cr" /\ Folded(e) = c
      /\ Len(e) = 1 + Times(e, {"cr"}) /\ Len(e) \in {1, 2}
      /\ Times(e, {"letter"}) = Times(c, {"letter"})
      /\ Times(e, {"nul", "control"}) = Times(c, {"nul", "control"})
      /\ Holds(e, "nul") <=> Holds(c, "nul")
  <2>1. CASE b = "lf"
    <3>1. e = <<"cr", "lf">> /\ c = <<"lf">>
      BY <2>1 DEF CrlfOf
    <3>2. Len(e) = 2 /\ e[2] = "lf" /\ e # <<>>
      BY <3>1
    <3>3. ~Holds(c, "nul")
      BY <3>1 DEF Holds
    <3>4. Times(c, {"letter"}) = 0 /\ Times(c, {"nul", "control"}) = 0
      BY <2>1, TimesShort
    <3>5. Times(e, {"cr"}) = 1 /\ Times(e, {"letter"}) = 0 /\ Times(e, {"nul", "control"}) = 0
      BY <3>1, LineEnd
    <3> HIDE DEF e, c
    <3> QED BY <3>1, <3>2, <3>3, <3>4, <3>5, LineEnd
  <2>2. CASE b # "lf"
    <3>1. e = c
      BY <2>2 DEF CrlfOf
    <3>2. Folded(c) = c
      BY FoldedShort
    <3>3. Times(c, {"cr"}) = 0
      BY TimesShort
    <3> HIDE DEF e, c
    <3>4. Len(e) = 1 /\ e[Len(e)] # "cr" /\ e \in Seq(Bytes) /\ e # <<>>
      BY <1>1, <3>1
    <3>5. Len(e) = 1 + Times(e, {"cr"}) /\ Folded(e) = c
      BY <3>1, <3>2, <3>3, <3>4
    <3> QED BY <3>1, <3>4, <3>5
  <2> QED BY <2>1, <2>2
<1>3. Times(c, {"cr"}) = 0 /\ Folded(c) = c
  BY TimesShort, FoldedShort
<1> HIDE DEF e, c
<1>4. CleanCut(x, e) /\ CleanCut(p, c)
  <2>1. CleanCut(x, e)
    BY DEF CleanCut, CheckoutOf
  <2>2. ~(p # <<>> /\ p[Len(p)] = "cr" /\ c[1] = "lf")
    <3>1. ASSUME p # <<>>, p[Len(p)] = "cr" PROVE FALSE
      <4>1. Times(p, {"cr"}) = 0
        BY DEF CheckoutOf
      <4>2. PICK f : Counts(p, {"cr"}, f) /\ Times(p, {"cr"}) = f[Len(p)]
        BY TimesIs
      <4>3. Len(p) \in 1..Len(p) /\ Len(p) - 1 \in 0..Len(p)
        BY <3>1
      <4>4. f[Len(p)] = f[Len(p) - 1] + (IF p[Len(p)] \in {"cr"} THEN 1 ELSE 0) /\ f[Len(p) - 1] \in Nat
        BY <4>2, <4>3, CountValues
      <4> QED BY <4>1, <4>2, <4>4, <3>1
    <3> QED BY <3>1
  <2> QED BY <2>1, <2>2 DEF CleanCut
<1>5. Folded(x \o e) = Folded(x) \o Folded(e) /\ Folded(p \o c) = Folded(p) \o Folded(c)
  BY <1>1, <1>2, <1>4, FoldedConcat
<1>15. e \in Seq(Bytes) /\ c \in Seq(Bytes)
  BY <1>1, <1>2
<1>6. \A B : /\ Times(x \o e, B) = Times(x, B) + Times(e, B) /\ Times(x, B) \in Nat /\ Times(e, B) \in Nat
             /\ Times(p \o c, B) = Times(p, B) + Times(c, B) /\ Times(p, B) \in Nat /\ Times(c, B) \in Nat
  <2> SUFFICES ASSUME NEW B
               PROVE  /\ Times(x \o e, B) = Times(x, B) + Times(e, B) /\ Times(x, B) \in Nat /\ Times(e, B) \in Nat
                      /\ Times(p \o c, B) = Times(p, B) + Times(c, B) /\ Times(p, B) \in Nat /\ Times(c, B) \in Nat
    OBVIOUS
  <2>1. Times(x \o e, B) = Times(x, B) + Times(e, B) /\ Times(x, B) \in Nat /\ Times(e, B) \in Nat
    BY <1>15, TimesConcat
  <2>2. Times(p \o c, B) = Times(p, B) + Times(c, B) /\ Times(p, B) \in Nat /\ Times(c, B) \in Nat
    BY <1>1, TimesConcat
  <2> QED BY <2>1, <2>2
<1>7. (Holds(x \o e, "nul") <=> Holds(x, "nul") \/ Holds(e, "nul")) /\ (Holds(p \o c, "nul") <=> Holds(p, "nul") \/ Holds(c, "nul"))
  BY <1>1, <1>2, HoldsConcat
<1>8. Len(x \o e) = Len(x) + Len(e) /\ Len(p \o c) = Len(p) + 1 /\ (x \o e)[Len(x) + Len(e)] = e[Len(e)]
  <2>6. Len(c) = 1
    BY <1>1
  <2>4. Len(p \o c) = Len(p) + Len(c)
    BY <1>15
  <2>5. Len(x \o e) = Len(x) + Len(e)
    BY <1>15
  <2>1. Len(x \o e) = Len(x) + Len(e) /\ Len(p \o c) = Len(p) + 1
    BY <2>4, <2>5, <2>6
  <2>2. Len(e) \in 1..Len(e)
    BY <1>2, <1>15
  <2>3. (x \o e)[Len(x) + Len(e)] = e[Len(e)]
    BY <1>15, <2>2
  <2> QED BY <2>1, <2>3
<1>9. Len(x) \in Nat /\ Len(p) \in Nat /\ Len(e) \in Nat
  BY <1>2
<1>10. Len(x \o e) = Len(p \o c) + Times(x \o e, {"cr"}) /\ Times(p \o c, {"cr"}) = 0
  <2>1. /\ Times(x \o e, {"cr"}) = Times(x, {"cr"}) + Times(e, {"cr"})
        /\ Times(x, {"cr"}) \in Nat /\ Times(e, {"cr"}) \in Nat
        /\ Times(p \o c, {"cr"}) = Times(p, {"cr"}) + Times(c, {"cr"})
    BY <1>6
  <2>2. Len(x) = Len(p) + Times(x, {"cr"}) /\ Times(p, {"cr"}) = 0
    BY DEF CheckoutOf
  <2>3. Len(e) = 1 + Times(e, {"cr"})
    BY <1>2
  <2>4. Len(x \o e) = Len(x) + Len(e) /\ Len(p \o c) = Len(p) + 1
    BY <1>8
  <2>5. Times(p \o c, {"cr"}) = 0
    BY <1>3, <2>1, <2>2
  <2> QED BY <2>1, <2>2, <2>3, <2>4, <2>5, <1>9
<1>11. /\ Times(x \o e, {"letter"}) = Times(p \o c, {"letter"})
       /\ Times(x \o e, {"nul", "control"}) = Times(p \o c, {"nul", "control"})
  BY <1>2, <1>6 DEF CheckoutOf
<1>12. Folded(x \o e) = p \o c /\ Folded(p \o c) = p \o c
  BY <1>2, <1>3, <1>5 DEF CheckoutOf
<1>13. Holds(x \o e, "nul") <=> Holds(p \o c, "nul")
  BY <1>2, <1>7 DEF CheckoutOf
<1>14. CheckoutOf(x \o e, p \o c)
  BY <1>2, <1>8, <1>10, <1>11, <1>12, <1>13 DEF CheckoutOf
<1> QED BY <1>14 DEF e, c

LEMMA CheckoutsAre ==
  ASSUME NEW s \in Seq(Bytes), ~Holds(s, "cr")
  PROVE  CheckoutOf(Crlf(s), s)
<1>1. PICK f : Ends(s, f) /\ Crlf(s) = f[Len(s)]
  BY CrlfIs
<1>2. /\ f[0] = <<>>
      /\ \A i \in 1..Len(s) : f[i] = f[i - 1] \o CrlfOf(s[i])
      /\ \A i \in 0..Len(s) : f[i] \in Seq(Bytes)
  BY <1>1, CrlfValues
<1> DEFINE P(i) == CheckoutOf(f[i], SubSeq(s, 1, i))
           I == {i \in Nat : i <= Len(s) => P(i)}
<1>3. P(0)
  <2>1. SubSeq(s, 1, 0) = <<>>
    OBVIOUS
  <2>2. Folded(<<>>) = <<>> /\ \A B : Times(<<>>, B) = 0
    BY FoldedShort, TimesShort
  <2>3. Len(<<>>) = 0 /\ <<>> = <<>>
    OBVIOUS
  <2>4. CheckoutOf(<<>>, <<>>)
    BY <2>2, <2>3 DEF CheckoutOf
  <2> QED BY <1>2, <2>1, <2>4
<1>4. ASSUME NEW i \in Nat, i + 1 <= Len(s), P(i) PROVE P(i + 1)
  <2> DEFINE p == SubSeq(s, 1, i)
             b == s[i + 1]
  <2>1. i + 1 \in 1..Len(s) /\ i \in 0..Len(s) /\ (i + 1) - 1 = i
    BY <1>4
  <2>2. p \in Seq(Bytes) /\ b \in Bytes /\ b # "cr"
    BY <2>1 DEF Holds
  <2>3. SubSeq(s, 1, i + 1) = p \o <<b>>
    BY <2>1
  <2>4. f[i + 1] = f[i] \o CrlfOf(b) /\ f[i] \in Seq(Bytes)
    BY <2>1, <1>2
  <2>5. CheckoutOf(f[i], p)
    BY <1>4
  <2> HIDE DEF p, b
  <2>6. CheckoutOf(f[i] \o CrlfOf(b), p \o <<b>>)
    BY <2>2, <2>4, <2>5, CheckoutStep
  <2> QED BY <2>3, <2>4, <2>6
<1>5. Nat \subseteq I
  <2> HIDE DEF P
  <2>1. 0 \in I
    BY <1>3
  <2>2. ASSUME NEW i \in Nat, i \in I PROVE i + 1 \in I
    BY <1>4, <2>2
  <2> HIDE DEF I
  <2> QED BY <2>1, <2>2, FoldR!SetInduction
<1>6. CheckoutOf(f[Len(s)], SubSeq(s, 1, Len(s)))
  BY <1>5
<1>7. SubSeq(s, 1, Len(s)) = s
  OBVIOUS
<1> QED BY <1>1, <1>6, <1>7

LEMMA CheckoutsOfText ==
  ASSUME file \in Seq(Bytes)
  PROVE  CheckoutsAgree
<1> SUFFICES ASSUME ~Holds(file, "cr") PROVE CheckoutsAgree
  BY DEF CheckoutsAgree
<1>1. CheckoutOf(Crlf(file), file)
  BY CheckoutsAre
<1> DEFINE x == Crlf(file)
<1>2. PICK f : Ends(file, f) /\ x = f[Len(file)]
  BY CrlfIs
<1>3. x \in Seq(Bytes)
  <2>1. Len(file) \in 0..Len(file)
    OBVIOUS
  <2> QED BY <1>2, <2>1, CrlfValues
<1> HIDE DEF x
<1>4. CheckoutOf(x, file)
  BY <1>1 DEF x
<1>5. Times(x, {"cr"}) \in Nat
  <2>1. <<>> \in Seq(Bytes)
    OBVIOUS
  <2> QED BY <1>3, <2>1, TimesConcat
<1>6. CrLfs(x) = Times(x, {"cr"}) /\ CrLfs(file) = Times(file, {"cr"})
  <2>1. Len(x) \in Nat /\ Len(file) \in Nat
    BY <1>3
  <2> QED BY <1>4, <1>5, <2>1 DEF CrLfs, CheckoutOf
<1>7. GitText(x) = GitText(file)
  BY <1>4, <1>6 DEF GitText, CheckoutOf
<1>8. ~Holds(file, "nul") => FileDigest(x, TRUE) = FileDigest(file, TRUE)
  BY <1>4 DEF FileDigest, CheckoutOf
<1>9. GitText(file) => \A source \in BOOLEAN : HeldArtifact(x, source) = HeldArtifact(file, source)
  <2> SUFFICES ASSUME GitText(file), NEW source \in BOOLEAN PROVE HeldArtifact(x, source) = HeldArtifact(file, source)
    OBVIOUS
  <2>1. GitText(x) /\ ~Holds(x, "nul") /\ ~Holds(file, "nul")
    BY <1>4, <1>7 DEF GitText, CheckoutOf
  <2>2. IsTextArtifact(x, source) /\ IsTextArtifact(file, source)
    BY <2>1 DEF IsTextArtifact
  <2> QED BY <2>1, <2>2, <1>4 DEF HeldArtifact, FileDigest, CheckoutOf
<1> QED BY <1>7, <1>8, <1>9 DEF CheckoutsAgree, x

-----------------------------------------------------------------------------
(***************************************************************************)
(* The digest of what has streamed past: byte for byte and folded.  A CR   *)
(* at the end is held, and not yet folded.                                 *)
(***************************************************************************)
EndsInCr(s) == s # <<>> /\ s[Len(s)] = "cr"
HeldCr(cr) == IF cr THEN <<"cr">> ELSE <<>>

DigestOf(s, d) ==
  /\ d \in [raw : Seq(Bytes), folded : Seq(Bytes), nul : BOOLEAN, cr : BOOLEAN]
  /\ d.raw = s
  /\ d.nul <=> Holds(s, "nul")
  /\ ~d.nul => \E pre \in Seq(Bytes) : /\ s = pre \o HeldCr(d.cr)
                                       /\ d.folded = Folded(pre)
                                       /\ d.cr \/ ~EndsInCr(pre)

StatsOf(s) ==
  [printable |-> Times(s, {"letter"}),
   control |-> Times(s, {"nul", "control"}),
   cr |-> Times(s, {"cr"}),
   crlf |-> CrLfs(s),
   nul |-> Holds(s, "nul"),
   lastCr |-> EndsInCr(s)]

StreamInv == file \in Seq(Bytes) /\ DigestOf(file, digest) /\ stats = StatsOf(file)

LEMMA StreamStart == StreamInit => StreamInv
<1> SUFFICES ASSUME StreamInit PROVE StreamInv
  OBVIOUS
<1>1. <<>> \in Seq(Bytes) /\ <<>> \o <<>> = <<>> /\ Len(<<>>) = 0
  OBVIOUS
<1>2. Folded(<<>>) = <<>> /\ \A B : Times(<<>>, B) = 0
  BY FoldedShort, TimesShort
<1>3. ~Holds(<<>>, "nul") /\ ~EndsInCr(<<>>)
  BY DEF Holds, EndsInCr
<1>4. DigestOf(<<>>, NewDigest)
  <2>1. NewDigest \in [raw : Seq(Bytes), folded : Seq(Bytes), nul : BOOLEAN, cr : BOOLEAN]
    BY <1>1 DEF NewDigest
  <2>2. NewDigest.raw = <<>> /\ NewDigest.folded = <<>> /\ ~NewDigest.nul /\ ~NewDigest.cr
    BY DEF NewDigest
  <2>3. <<>> = <<>> \o HeldCr(NewDigest.cr)
    BY <2>2, <1>1 DEF HeldCr
  <2> QED BY <1>1, <1>2, <1>3, <2>1, <2>2, <2>3 DEF DigestOf
<1>5. NewStats = StatsOf(<<>>)
  <2>1. CrLfs(<<>>) = 0
    BY <1>1, <1>2 DEF CrLfs
  <2>2. Holds(<<>>, "nul") = FALSE /\ EndsInCr(<<>>) = FALSE
    BY <1>3 DEF Holds, EndsInCr
  <2> QED BY <1>2, <2>1, <2>2 DEF NewStats, StatsOf
<1> QED BY <1>1, <1>4, <1>5 DEF StreamInit, StreamInv

(* Reading on: Updated gives the digest of what was read and the chunk.     *)
LEMMA DigestStep ==
  ASSUME NEW s \in Seq(Bytes), NEW d, DigestOf(s, d), NEW chunk \in Seq(Bytes), chunk # <<>>
  PROVE  DigestOf(s \o chunk, Updated(d, chunk))
<1> DEFINE u == Updated(d, chunk)
           all == s \o chunk
           c == HeldCr(d.cr) \o chunk
<1>1. d \in [raw : Seq(Bytes), folded : Seq(Bytes), nul : BOOLEAN, cr : BOOLEAN] /\ d.raw = s
  BY DEF DigestOf
<1>2. all \in Seq(Bytes) /\ (Holds(all, "nul") <=> Holds(s, "nul") \/ Holds(chunk, "nul"))
  BY HoldsConcat
<1>3. u = IF d.nul \/ Holds(chunk, "nul") THEN [[d EXCEPT !.raw = @ \o chunk] EXCEPT !.nul = TRUE]
          ELSE [[d EXCEPT !.raw = @ \o chunk] EXCEPT !.folded = @ \o Folded(IF Last(c) = "cr" THEN Front(c) ELSE c), !.cr = (Last(c) = "cr")]
  BY DEF Updated, HeldCr
<1>4. CASE d.nul \/ Holds(chunk, "nul")
  <2>1. u = [[d EXCEPT !.raw = @ \o chunk] EXCEPT !.nul = TRUE]
    BY <1>3, <1>4
  <2> HIDE DEF u
  <2>2. u \in [raw : Seq(Bytes), folded : Seq(Bytes), nul : BOOLEAN, cr : BOOLEAN] /\ u.raw = all /\ u.nul
    BY <2>1, <1>1, <1>2
  <2>3. Holds(all, "nul")
    BY <1>2, <1>4 DEF DigestOf
  <2>4. DigestOf(all, u)
    BY <2>2, <2>3 DEF DigestOf
  <2> QED BY <2>4 DEF u
<1>5. CASE ~(d.nul \/ Holds(chunk, "nul"))
  <2>1. PICK pre \in Seq(Bytes) : /\ s = pre \o HeldCr(d.cr)
                                  /\ d.folded = Folded(pre)
                                  /\ d.cr \/ ~EndsInCr(pre)
    BY <1>5 DEF DigestOf
  <2>2. "cr" \in Bytes
    BY DEF Bytes
  <2>3. /\ HeldCr(d.cr) \in Seq(Bytes) /\ c \in Seq(Bytes) /\ c # <<>>
        /\ d.cr => c[1] = "cr"
    <3>1. CASE d.cr
      <4>1. HeldCr(d.cr) = <<"cr">> /\ <<"cr">> \in Seq(Bytes)
        BY <3>1, <2>2 DEF HeldCr
      <4>2. c \in Seq(Bytes) /\ c # <<>> /\ c[1] = "cr"
        BY <4>1
      <4> QED BY <4>1, <4>2
    <3>2. CASE ~d.cr
      <4>1. HeldCr(d.cr) = <<>>
        BY <3>2 DEF HeldCr
      <4>2. c = chunk
        BY <4>1
      <4>3. <<>> \in Seq(Bytes)
        OBVIOUS
      <4> QED BY <3>2, <4>1, <4>2, <4>3
    <3> QED BY <3>1, <3>2
  <2>4. all = pre \o c
    BY <2>1, <2>3, ConcatAssociative
  <2> HIDE DEF c
  <2>5. Front(c) \in Seq(Bytes) /\ Last(c) = c[Len(c)] /\ c = Front(c) \o <<Last(c)>> /\ Last(c) \in Bytes
        /\ Len(Front(c)) = Len(c) - 1 /\ \A i \in 1..(Len(c) - 1) : Front(c)[i] = c[i]
    <3>1. Len(c) \in Nat /\ Len(c) >= 1 /\ Len(c) - 1 \in Int
      BY <2>3
    <3>2. Last(c) = c[Len(c)] /\ Last(c) \in Bytes
      BY <2>3, <3>1 DEF Last
    <3>3. \A i \in 1..(Len(c) - 1) : c[i] \in Bytes
      BY <2>3, <3>1
    <3>4. /\ SubSeq(c, 1, Len(c) - 1) \in Seq(Bytes)
          /\ Len(SubSeq(c, 1, Len(c) - 1)) = IF 1 <= Len(c) - 1 THEN (Len(c) - 1) - 1 + 1 ELSE 0
          /\ \A i \in 1..((Len(c) - 1) - 1 + 1) : SubSeq(c, 1, Len(c) - 1)[i] = c[1 + i - 1]
      BY <3>1, <3>3, SubSeqProperties
    <3>5. \A i \in 1..(Len(c) - 1) : 1 + i - 1 = i /\ i \in 1..((Len(c) - 1) - 1 + 1)
      BY <3>1
    <3>6. \A i \in 1..(Len(c) - 1) : Front(c)[i] = c[i]
      BY <3>4, <3>5 DEF Front
    <3>7. Front(c) \in Seq(Bytes) /\ Len(Front(c)) = Len(c) - 1
      <4>1. Len(SubSeq(c, 1, Len(c) - 1)) = Len(c) - 1
        <5> DEFINE n == Len(c)
                   k == Len(SubSeq(c, 1, n - 1))
        <5>1. n \in Nat /\ n >= 1 /\ k = IF 1 <= n - 1 THEN (n - 1) - 1 + 1 ELSE 0
          BY <3>1, <3>4
        <5> HIDE DEF n, k
        <5>2. k = n - 1
          BY <5>1
        <5> QED BY <5>2 DEF n, k
      <4> QED BY <3>4, <4>1 DEF Front
    <3>8. c = Front(c) \o <<Last(c)>>
      <4>1. 1 \in 1..Len(c) /\ Len(c) \in 1..Len(c)
        BY <3>1
      <4>2. SubSeq(c, 1, Len(c)) = SubSeq(c, 1, Len(c) - 1) \o <<c[Len(c)]>>
        BY <4>1, <2>3, SubSeqRecursiveSecond
      <4>3. SubSeq(c, 1, Len(c)) = c
        BY <2>3, SubSeqFull
      <4> QED BY <4>2, <4>3 DEF Front, Last
    <3> QED BY <3>2, <3>6, <3>7, <3>8
  <2> DEFINE cut == Last(c) = "cr"
             kept == IF cut THEN Front(c) ELSE c
  <2>6. /\ kept \in Seq(Bytes) /\ c = kept \o HeldCr(cut) /\ (kept # <<>> => kept[1] = c[1])
    <3>1. CASE cut
      <4>1. kept = Front(c) /\ HeldCr(cut) = <<"cr">> /\ Last(c) = "cr"
        BY <3>1 DEF HeldCr
      <4>2. kept # <<>> => kept[1] = c[1]
        BY <4>1, <2>5
      <4> QED BY <4>1, <4>2, <2>5
    <3>2. CASE ~cut
      <4>1. kept = c /\ HeldCr(cut) = <<>>
        BY <3>2 DEF HeldCr
      <4>2. c = c \o <<>>
        BY <2>3
      <4> QED BY <4>1, <4>2, <2>3
    <3> QED BY <3>1, <3>2
  <2>7. cut \/ ~EndsInCr(pre \o kept)
    <3> SUFFICES ASSUME ~cut PROVE ~EndsInCr(pre \o kept)
      OBVIOUS
    <3>1. kept = c /\ c[Len(c)] # "cr"
      BY <2>5
    <3>2. Len(pre \o c) = Len(pre) + Len(c) /\ (pre \o c)[Len(pre) + Len(c)] = c[Len(c)]
      <4>1. Len(c) \in 1..Len(c)
        BY <2>3
      <4> QED BY <4>1, <2>3
    <3> QED BY <3>1, <3>2 DEF EndsInCr
  <2>8. CleanCut(pre, kept)
    <3> SUFFICES ASSUME pre # <<>>, kept # <<>>, pre[Len(pre)] = "cr", kept[1] = "lf" PROVE FALSE
      BY DEF CleanCut
    <3>1. d.cr
      BY <2>1 DEF EndsInCr
    <3> QED BY <3>1, <2>3, <2>6
  <2> HIDE DEF kept
  <2>9. u = [[d EXCEPT !.raw = @ \o chunk] EXCEPT !.folded = @ \o Folded(kept), !.cr = cut]
    BY <1>3, <1>5 DEF kept
  <2>10. Folded(kept) \in Seq(Bytes) /\ Folded(pre) \in Seq(Bytes)
    BY <2>6, FoldedSeq
  <2> HIDE DEF u
  <2>11. Folded(pre) \o Folded(kept) \in Seq(Bytes)
    BY <2>10
  <2>12. u \in [raw : Seq(Bytes), folded : Seq(Bytes), nul : BOOLEAN, cr : BOOLEAN] /\ u.raw = all /\ ~u.nul
         /\ u.folded = Folded(pre) \o Folded(kept) /\ u.cr = cut
    BY <2>9, <2>11, <2>1, <1>1, <1>2, <1>5
  <2>13. Folded(pre \o kept) = Folded(pre) \o Folded(kept)
    BY <2>6, <2>8, FoldedConcat
  <2>14. pre \o kept \in Seq(Bytes) /\ all = (pre \o kept) \o HeldCr(cut)
    <3>1. HeldCr(cut) \in Seq(Bytes)
      <4>1. <<"cr">> \in Seq(Bytes) /\ <<>> \in Seq(Bytes)
        BY <2>2
      <4> QED BY <4>1 DEF HeldCr
    <3>2. pre \o (kept \o HeldCr(cut)) = (pre \o kept) \o HeldCr(cut)
      <4> DEFINE q == HeldCr(cut)
      <4>1. q \in Seq(Bytes) /\ kept \in Seq(Bytes) /\ pre \in Seq(Bytes)
        BY <3>1, <2>6
      <4> HIDE DEF q
      <4>2. (pre \o kept) \o q = pre \o (kept \o q)
        BY <4>1, ConcatAssociative
      <4> QED BY <4>2 DEF q
    <3>3. pre \o kept \in Seq(Bytes)
      BY <2>6
    <3> QED BY <3>2, <3>3, <2>4, <2>6
  <2>15. ~Holds(all, "nul")
    BY <1>2, <1>5 DEF DigestOf
  <2> HIDE DEF all, cut
  <2>16. DigestOf(all, u)
    BY <2>7, <2>12, <2>13, <2>14, <2>15 DEF DigestOf
  <2> QED BY <2>16 DEF u, all
<1> QED BY <1>4, <1>5

(* A CRLF is counted once, on whichever side of the cut its LF is.          *)
LEMMA StatsStep ==
  ASSUME NEW s \in Seq(Bytes), NEW chunk \in Seq(Bytes), chunk # <<>>
  PROVE  StatsUpdated(StatsOf(s), chunk) = StatsOf(s \o chunk)
<1> DEFINE all == s \o chunk
           glued == EndsInCr(s) /\ chunk[1] = "lf"
<1>1. \A B : Times(all, B) = Times(s, B) + Times(chunk, B)
  BY TimesConcat
<1>2. Holds(all, "nul") <=> Holds(s, "nul") \/ Holds(chunk, "nul")
  BY HoldsConcat
<1>3. Len(all) = Len(s) + Len(chunk) /\ all # <<>> /\ all[Len(all)] = chunk[Len(chunk)]
  <2>1. Len(chunk) \in Nat /\ Len(chunk) >= 1 /\ Len(chunk) \in 1..Len(chunk) /\ Len(s) \in Nat
    OBVIOUS
  <2>2. Len(all) = Len(s) + Len(chunk)
    OBVIOUS
  <2>3. all[Len(s) + Len(chunk)] = chunk[Len(chunk)]
    BY <2>1
  <2>4. all # <<>>
    BY <2>1, <2>2
  <2> QED BY <2>2, <2>3, <2>4
<1>4. EndsInCr(all) <=> Last(chunk) = "cr"
  BY <1>3 DEF EndsInCr, Last
<1>5. CrLfs(all) = CrLfs(s) + CrLfs(chunk) + (IF glued THEN 1 ELSE 0)
  <2>1. /\ Folded(s) \in Seq(Bytes) /\ Folded(chunk) \in Seq(Bytes)
        /\ Len(Folded(s)) \in Nat /\ Len(Folded(chunk)) \in Nat /\ Len(s) \in Nat /\ Len(chunk) \in Nat
    BY FoldedSeq
  <2>2. CASE glued
    <3> DEFINE pre == Front(s)
    <3>1. Len(s) \in Nat /\ Len(s) >= 1 /\ s[Len(s)] = "cr" /\ s # <<>>
      BY <2>2 DEF EndsInCr
    <3>2. pre \in Seq(Bytes) /\ s = pre \o <<"cr">>
      <4>1. 1 \in 1..Len(s) /\ Len(s) \in 1..Len(s)
        BY <3>1
      <4>2. SubSeq(s, 1, Len(s)) = SubSeq(s, 1, Len(s) - 1) \o <<s[Len(s)]>>
        BY <4>1, SubSeqRecursiveSecond
      <4>3. SubSeq(s, 1, Len(s)) = s
        BY SubSeqFull
      <4>4. \A i \in 1..(Len(s) - 1) : s[i] \in Bytes
        BY <3>1
      <4>5. SubSeq(s, 1, Len(s) - 1) \in Seq(Bytes)
        BY <3>1, <4>4, SubSeqProperties
      <4> QED BY <4>2, <4>3, <4>5, <3>1 DEF Front
    <3> HIDE DEF pre
    <3> DEFINE cr == <<"cr">>
               c == cr \o chunk
    <3>3. "cr" \in Bytes
      BY DEF Bytes
    <3>4. cr \in Seq(Bytes) /\ Len(cr) = 1 /\ cr[1] = "cr"
      BY <3>3
    <3>5. c \in Seq(Bytes) /\ c[1] = "cr"
      BY <3>4
    <3>6. all = pre \o c
      <4>1. (pre \o cr) \o chunk = pre \o (cr \o chunk)
        BY <3>2, <3>4, ConcatAssociative
      <4> QED BY <4>1, <3>2
    <3>7. Folded(c) = Folded(chunk) /\ Folded(cr) = cr
      BY <2>2, <3>3, FoldedCrLf, FoldedShort
    <3> HIDE DEF cr, c
    <3>8. CleanCut(pre, c) /\ CleanCut(pre, cr)
      BY <3>4, <3>5 DEF CleanCut
    <3>9. Folded(pre \o c) = Folded(pre) \o Folded(c) /\ Folded(pre \o cr) = Folded(pre) \o Folded(cr)
      BY <3>2, <3>4, <3>5, <3>8, FoldedConcat
    <3>10. Folded(pre) \in Seq(Bytes)
      BY <3>2, FoldedSeq
    <3>11. Len(Folded(pre) \o Folded(chunk)) = Len(Folded(pre)) + Len(Folded(chunk)) /\ Len(Folded(pre) \o cr) = Len(Folded(pre)) + Len(cr)
           /\ Len(Folded(pre)) \in Nat
      <4> DEFINE u == Folded(pre)
                 v == Folded(chunk)
      <4>1. u \in Seq(Bytes) /\ v \in Seq(Bytes) /\ cr \in Seq(Bytes)
        BY <3>4, <3>10, <2>1
      <4> HIDE DEF u, v
      <4>2. Len(u \o v) = Len(u) + Len(v) /\ Len(u \o cr) = Len(u) + Len(cr) /\ Len(u) \in Nat
        BY <4>1
      <4> QED BY <4>2 DEF u, v
    <3>12. Len(Folded(all)) = Len(Folded(pre)) + Len(Folded(chunk))
      BY <3>6, <3>7, <3>9, <3>11
    <3>13. Len(Folded(s)) = Len(Folded(pre)) + 1
      BY <3>2, <3>4, <3>7, <3>9, <3>11 DEF cr
    <3> HIDE DEF all, glued
    <3> QED BY <2>1, <2>2, <3>11, <3>12, <3>13, <1>3 DEF CrLfs
  <2>3. CASE ~glued
    <3>1. CleanCut(s, chunk)
      BY <2>3 DEF CleanCut, EndsInCr
    <3>2. Folded(all) = Folded(s) \o Folded(chunk)
      BY <3>1, FoldedConcat
    <3>3. Len(Folded(all)) = Len(Folded(s)) + Len(Folded(chunk))
      BY <3>2, <2>1
    <3> HIDE DEF all, glued
    <3> QED BY <2>1, <2>3, <3>3, <1>3 DEF CrLfs
  <2> QED BY <2>2, <2>3
<1>6. (Holds(all, "nul")) = (Holds(s, "nul") \/ Holds(chunk, "nul")) /\ EndsInCr(all) = (Last(chunk) = "cr")
  BY <1>2, <1>4 DEF Holds, EndsInCr
<1>7. StatsUpdated(StatsOf(s), chunk) =
        [printable |-> Times(s, {"letter"}) + Times(chunk, {"letter"}),
         control |-> Times(s, {"nul", "control"}) + Times(chunk, {"nul", "control"}),
         cr |-> Times(s, {"cr"}) + Times(chunk, {"cr"}),
         crlf |-> CrLfs(s) + CrLfs(chunk) + (IF glued THEN 1 ELSE 0),
         nul |-> Holds(s, "nul") \/ Holds(chunk, "nul"),
         lastCr |-> Last(chunk) = "cr"]
  BY DEF StatsUpdated, StatsOf
<1> HIDE DEF glued, all
<1>8. StatsUpdated(StatsOf(s), chunk) = StatsOf(all)
  BY <1>1, <1>5, <1>6, <1>7 DEF StatsOf
<1> QED BY <1>8 DEF all

LEMMA StreamStep == StreamInv /\ [NextChunk]_streamVars => StreamInv'
<1> SUFFICES ASSUME StreamInv, [NextChunk]_streamVars PROVE StreamInv'
  OBVIOUS
<1>1. CASE UNCHANGED streamVars
  BY <1>1 DEF StreamInv, streamVars
<1>2. CASE NextChunk
  <2>1. PICK chunk \in Chunks : /\ file' = file \o chunk
                                /\ digest' = Updated(digest, chunk)
                                /\ stats' = StatsUpdated(stats, chunk)
    BY <1>2 DEF NextChunk
  <2>2. PICK n \in 1..MaxChunk : chunk \in [1..n -> Bytes]
    BY DEF Chunks
  <2>3. n \in Nat /\ n >= 1
    OBVIOUS
  <2>4. chunk \in Seq(Bytes) /\ chunk # <<>>
    BY <2>2, <2>3
  <2>5. file \in Seq(Bytes) /\ DigestOf(file, digest) /\ stats = StatsOf(file)
    BY DEF StreamInv
  <2>6. DigestOf(file \o chunk, Updated(digest, chunk))
    BY <2>4, <2>5, DigestStep
  <2>7. StatsUpdated(StatsOf(file), chunk) = StatsOf(file \o chunk)
    BY <2>4, <2>5, StatsStep
  <2>8. file \o chunk \in Seq(Bytes)
    BY <2>4, <2>5
  <2>9. file' \in Seq(Bytes) /\ DigestOf(file', digest') /\ stats' = StatsOf(file')
    BY <2>1, <2>5, <2>6, <2>7, <2>8
  <2> QED BY <2>9 DEF StreamInv
<1> QED BY <1>1, <1>2

LEMMA StreamAgrees == StreamInv => StreamedIsHeld /\ ArtifactIsHeld /\ CheckoutsAgree
<1> SUFFICES ASSUME StreamInv PROVE StreamedIsHeld /\ ArtifactIsHeld /\ CheckoutsAgree
  OBVIOUS
<1>1. file \in Seq(Bytes) /\ DigestOf(file, digest) /\ stats = StatsOf(file)
  BY DEF StreamInv
<1>2. StreamedIsHeld
  <2>1. CASE digest.nul
    BY <2>1, <1>1 DEF DigestOf, StreamedIsHeld, FoldingHex, FileDigest
  <2>2. CASE ~digest.nul
    <3>1. PICK pre \in Seq(Bytes) : file = pre \o HeldCr(digest.cr) /\ digest.folded = Folded(pre)
      BY <2>2, <1>1 DEF DigestOf
    <3> DEFINE q == HeldCr(digest.cr)
    <3>2. q \in Seq(Bytes) /\ Folded(q) = q /\ (q # <<>> => q[1] = "cr")
      <4>1. "cr" \in Bytes
        BY DEF Bytes
      <4>2. <<"cr">> \in Seq(Bytes) /\ <<>> \in Seq(Bytes) /\ <<"cr">>[1] = "cr"
        BY <4>1
      <4> QED BY <4>1, <4>2, FoldedShort DEF HeldCr
    <3>3. FoldingHex(digest) = digest.folded \o q
      BY <2>2 DEF FoldingHex, HeldCr
    <3> HIDE DEF q
    <3>4. CleanCut(pre, q)
      BY <3>2 DEF CleanCut
    <3>5. Folded(pre \o q) = Folded(pre) \o q
      BY <3>2, <3>4, FoldedConcat
    <3>6. FileDigest(file, TRUE) = Folded(file)
      BY <2>2, <1>1 DEF FileDigest, DigestOf
    <3>7. Folded(file) = Folded(pre) \o q
      BY <3>1, <3>5 DEF q
    <3> QED BY <3>1, <3>3, <3>6, <3>7 DEF StreamedIsHeld
  <2> QED BY <2>1, <2>2
<1>3. ArtifactIsHeld
  <2>1. StatsText(stats) <=> GitText(file)
    BY <1>1 DEF StatsText, StatsOf, GitText
  <2> SUFFICES ASSUME NEW source \in BOOLEAN
               PROVE  StreamedArtifact(digest, stats, source) = HeldArtifact(file, source)
    BY DEF ArtifactIsHeld
  <2>2. digest.raw = file /\ (digest.nul <=> Holds(file, "nul"))
    BY <1>1 DEF DigestOf
  <2>3. FoldingHex(digest) = FileDigest(file, TRUE)
    BY <1>2 DEF StreamedIsHeld
  <2> QED BY <2>1, <2>2, <2>3 DEF StreamedArtifact, HeldArtifact, IsTextArtifact, FileDigest
<1> QED BY <1>1, <1>2, <1>3, CheckoutsOfText

(***************************************************************************)
(* "The same value `_file_digest` gives a file held whole, for a file of   *)
(* any size" (_FoldingDigest): wherever its chunks were cut, and whether   *)
(* git takes it for text or not; and git's two checkouts of one text have  *)
(* one digest.                                                             *)
(***************************************************************************)
THEOREM DigestsAlwaysAgree == StreamSpec => []DigestsAgree
<1>1. StreamInv => DigestsAgree
  BY StreamAgrees DEF DigestsAgree
<1> QED BY <1>1, StreamStart, StreamStep, PTL DEF StreamSpec

-----------------------------------------------------------------------------
(***************************************************************************)
(* Module Inventory: a run's record, what it has counted of the files it   *)
(* has met, and the walk it meets them on.                                 *)
(***************************************************************************)
FileVersions == FileContents \cup {NoVersion}
Phases == {"scan", "list", "BROKEN-CRYPTO", "MIGRATION-NEEDED", "NOT-ANALYSED", "REVIEW-NEEDED", "NOTHING-VULNERABLE-FOUND",
           "REVIEW", "NOTHING-FOUND"}
RunType ==
  [phase : Phases, tool : Tools, at : Nat, last : WalkedFiles \cup {NoFileYet},
   seen : [WalkedFiles -> FileVersions], listing : [WalkedFiles -> FileVersions \cup {Locked}],
   scanned : Nat, unreadable : Nat, notParsed : SUBSET WalkedFiles,
   uses : SUBSET (WalkedFiles \X Statuses), tree : SUBSET (WalkedFiles \X FileContents),
   found : SUBSET WalkedFiles, tooLarge : SUBSET WalkedFiles, notOpened : SUBSET WalkedFiles,
   readNothing : SUBSET WalkedFiles, partly : SUBSET WalkedFiles]

TreeFiles(r) == {e[1] : e \in r.tree}
UsesIn(f, c) == {<<f, u>> : u \in c.uses}

(***************************************************************************)
(* What a run has counted, of the files it has met.                        *)
(***************************************************************************)
CbomFacts(r, met) ==
  /\ TreeFiles(r) \subseteq met \ TextNamed
  /\ r.notParsed \subseteq met \ TextNamed
  /\ r.scanned = Cardinality(TreeFiles(r))
  /\ r.unreadable = Cardinality(r.notParsed \ TreeFiles(r))
  /\ \A e \in r.tree : r.seen[e[1]] = e[2] /\ e[2].units # "none" /\ (e[2].units = "python" <=> e[1] \notin r.notParsed)
  /\ \A s : s \in StatusesOf(r) <=> \E e \in r.tree : ~Bad(e[2]) /\ s \in e[2].uses
  /\ \A f \in met \ TextNamed :
       f \in TreeFiles(r) \/ f \in r.notParsed \/ (r.seen[f] # NoVersion /\ r.seen[f].units = "none")

TextTold(r, f) ==
  /\ r.seen[f] # NoVersion
  /\ \/ r.seen[f].text = "clean"
     \/ r.seen[f].text = "unopened" /\ f \in r.notOpened
     \/ r.seen[f].text = "partial" /\ f \in r.partly
     \/ r.seen[f].text = "nothingRead" /\ f \in r.partly /\ f \in r.readNothing

KeysFacts(r, met) ==
  /\ r.tooLarge \subseteq met
  /\ \E R \in SUBSET met : r.scanned = Cardinality(R) /\ \A f \in R : f \notin r.tooLarge /\ r.seen[f] # NoVersion
  /\ \A f \in met : f \in r.notParsed \/ f \in r.found \/ f \in r.tooLarge \/ TextTold(r, f)

ListingFacts(r, done) ==
  \A f \in done : r.listing[f] = Locked \/ (r.listing[f] = r.seen[f] /\ r.seen[f] # NoVersion)

ToolFacts(r, met) == (r.tool = "cbom" => CbomFacts(r, met)) /\ (r.tool = "keys" => KeysFacts(r, met))

-----------------------------------------------------------------------------
Before(n) == {Listing[i] : i \in 1..(n - 1)}

LEMMA WalkIs ==
  /\ Len(Listing) \in Nat
  /\ \A i \in 1..Len(Listing) : Listing[i] \in WalkedFiles
  /\ WalkedFiles = Before(Len(Listing) + 1)
  /\ \A i \in 1..Len(Listing) : Listing[i] \notin Before(i) /\ Before(i + 1) = Before(i) \cup {Listing[i]}
  /\ \A i \in 1..(Len(Listing) + 1) : Before(i) \subseteq WalkedFiles
  /\ Before(1) = {}
<1>1. Listing \in Seq(WalkedFiles) /\ \A i, j \in 1..Len(Listing) : Listing[i] = Listing[j] => i = j
  BY ListingAssumption
<1>2. Len(Listing) \in Nat /\ DOMAIN Listing = 1..Len(Listing)
  BY <1>1
<1>3. \A i \in 1..Len(Listing) : Listing[i] \in WalkedFiles
  BY <1>2 DEF WalkedFiles
<1>4. WalkedFiles = Before(Len(Listing) + 1)
  BY <1>2 DEF WalkedFiles, Before
<1>5. \A i \in 1..Len(Listing) : Listing[i] \notin Before(i) /\ Before(i + 1) = Before(i) \cup {Listing[i]}
  <2> SUFFICES ASSUME NEW i \in 1..Len(Listing)
               PROVE  Listing[i] \notin Before(i) /\ Before(i + 1) = Before(i) \cup {Listing[i]}
    OBVIOUS
  <2>1. Listing[i] \notin Before(i)
    BY <1>1, <1>2 DEF Before
  <2>2. \A k : k \in 1..((i + 1) - 1) <=> k \in 1..(i - 1) \/ k = i
    BY <1>2
  <2>3. Before(i + 1) = Before(i) \cup {Listing[i]}
    BY <2>2 DEF Before
  <2> QED BY <2>1, <2>3
<1>6. \A i \in 1..(Len(Listing) + 1) : Before(i) \subseteq WalkedFiles
  BY <1>2, <1>3 DEF Before
<1>7. Before(1) = {}
  BY DEF Before
<1> QED BY <1>2, <1>3, <1>4, <1>5, <1>6, <1>7

LEMMA WalkFinite == IsFiniteSet(WalkedFiles) /\ Cardinality(WalkedFiles) = Len(Listing)
<1> DEFINE D == 1..Len(Listing)
           f == [i \in D |-> Listing[i]]
<1>1. Len(Listing) \in Nat
  BY WalkIs
<1>2. IsFiniteSet(D) /\ Cardinality(D) = Len(Listing)
  <2> DEFINE n == Len(Listing)
  <2>1. n \in Nat
    BY <1>1
  <2> HIDE DEF n
  <2>2. IsFiniteSet(1..n) /\ Cardinality(1..n) = IF 1 > n THEN 0 ELSE n - 1 + 1
    <3>1. 1 \in Int /\ n \in Int
      BY <2>1
    <3> QED BY <3>1, FS_Interval
  <2>3. IsFiniteSet(1..n) /\ Cardinality(1..n) = n
    BY <2>1, <2>2
  <2> QED BY <2>3 DEF n
<1>3. DOMAIN Listing = D
  BY ListingAssumption
<1>4. f \in Surjection(D, WalkedFiles)
  BY <1>3 DEF Surjection, WalkedFiles
<1>5. f \in Injection(D, WalkedFiles)
  BY <1>4, ListingAssumption DEF Surjection, Injection, IsInjective
<1> HIDE DEF D, f
<1> QED BY <1>2, <1>4, <1>5, FS_Surjection

LEMMA OneMore ==
  ASSUME NEW S \in SUBSET WalkedFiles, NEW f, f \notin S
  PROVE  Cardinality(S \cup {f}) = Cardinality(S) + 1 /\ Cardinality(S) \in Nat
BY WalkFinite, FS_Subset, FS_AddElement, FS_CardinalityType

(***************************************************************************)
(* One file more: as the CBOM's readers take it.                           *)
(***************************************************************************)
\* How what a run counts may stand to what it counted before.
Same(s, r) ==
  /\ s.scanned = r.scanned /\ s.unreadable = r.unreadable /\ s.notParsed = r.notParsed /\ s.uses = r.uses /\ s.tree = r.tree
  /\ s.found = r.found /\ s.tooLarge = r.tooLarge /\ s.notOpened = r.notOpened /\ s.readNothing = r.readNothing
  /\ s.partly = r.partly

Grown(s, r, met) == \A g \in met : s.seen[g] = r.seen[g] \/ r.seen[g] = NoVersion

LEMMA CbomGrown ==
  ASSUME NEW r, NEW s, NEW met \in SUBSET WalkedFiles, CbomFacts(r, met), Same(s, r), Grown(s, r, met),
         \A e \in r.tree : e[2] # NoVersion
  PROVE  CbomFacts(s, met)
<1>1. TreeFiles(s) = TreeFiles(r) /\ StatusesOf(s) = StatusesOf(r) /\ s.notParsed = r.notParsed /\ s.tree = r.tree
  BY DEF Same, TreeFiles, StatusesOf
<1>2. \A e \in r.tree : s.seen[e[1]] = e[2]
  <2>1. \A e \in r.tree : e[1] \in met
    BY DEF CbomFacts, TreeFiles
  <2> QED BY <2>1 DEF CbomFacts, Grown
<1>3. \A f \in met : r.seen[f] # NoVersion => s.seen[f] = r.seen[f]
  BY DEF Grown
<1>4. s.scanned = Cardinality(TreeFiles(s)) /\ s.unreadable = Cardinality(s.notParsed \ TreeFiles(s))
  BY <1>1 DEF CbomFacts, Same
<1>5. \A f \in met \ TextNamed :
        f \in TreeFiles(s) \/ f \in s.notParsed \/ (s.seen[f] # NoVersion /\ s.seen[f].units = "none")
  BY <1>1, <1>3 DEF CbomFacts
<1>6. \A e \in s.tree :
        s.seen[e[1]] = e[2] /\ e[2].units # "none" /\ (e[2].units = "python" <=> e[1] \notin s.notParsed)
  BY <1>1, <1>2 DEF CbomFacts
<1>7. \A x : x \in StatusesOf(s) <=> \E e \in s.tree : ~Bad(e[2]) /\ x \in e[2].uses
  BY <1>1 DEF CbomFacts
<1>8. TreeFiles(s) \subseteq met \ TextNamed /\ s.notParsed \subseteq met \ TextNamed
  BY <1>1 DEF CbomFacts
<1> QED BY <1>4, <1>5, <1>6, <1>7, <1>8 DEF CbomFacts

\* A file that is not Python, or whose name says so.
LEMMA CbomMeets ==
  ASSUME NEW r, NEW met \in SUBSET WalkedFiles, NEW f \in WalkedFiles, CbomFacts(r, met),
         f \in TextNamed \/ (r.seen[f] # NoVersion /\ r.seen[f].units = "none")
  PROVE  CbomFacts(r, met \cup {f})
BY DEF CbomFacts

\* One that cannot be opened.
LEMMA CbomCannot ==
  ASSUME NEW r, NEW s, NEW met \in SUBSET WalkedFiles, NEW f \in WalkedFiles, f \notin met, f \notin TextNamed,
         CbomFacts(r, met), s.seen = r.seen, s.tree = r.tree, s.uses = r.uses, s.scanned = r.scanned,
         s.unreadable = r.unreadable + 1, s.notParsed = r.notParsed \cup {f}
  PROVE  CbomFacts(s, met \cup {f})
<1>1. TreeFiles(s) = TreeFiles(r) /\ StatusesOf(s) = StatusesOf(r)
  BY DEF TreeFiles, StatusesOf
<1>2. f \notin TreeFiles(r) /\ f \notin r.notParsed
  BY DEF CbomFacts
<1> DEFINE U == r.notParsed \ TreeFiles(r)
<1>3. U \in SUBSET WalkedFiles /\ f \notin U /\ s.notParsed \ TreeFiles(s) = U \cup {f}
  BY <1>1, <1>2 DEF CbomFacts
<1>4. s.unreadable = Cardinality(s.notParsed \ TreeFiles(s))
  <2>1. r.unreadable = Cardinality(U)
    BY DEF CbomFacts
  <2> HIDE DEF U
  <2> QED BY <1>3, <2>1, OneMore
<1>5. \A e \in r.tree : e[1] \in TreeFiles(r)
  BY DEF TreeFiles
<1>6. \A e \in s.tree :
        s.seen[e[1]] = e[2] /\ e[2].units # "none" /\ (e[2].units = "python" <=> e[1] \notin s.notParsed)
  BY <1>2, <1>5 DEF CbomFacts
<1>7. \A x : x \in StatusesOf(s) <=> \E e \in s.tree : ~Bad(e[2]) /\ x \in e[2].uses
  BY <1>1 DEF CbomFacts
<1>8. \A g \in (met \cup {f}) \ TextNamed :
        g \in TreeFiles(s) \/ g \in s.notParsed \/ (s.seen[g] # NoVersion /\ s.seen[g].units = "none")
  BY <1>1 DEF CbomFacts
<1>9. s.scanned = Cardinality(TreeFiles(s))
  BY <1>1 DEF CbomFacts
<1>10. TreeFiles(s) \subseteq (met \cup {f}) \ TextNamed /\ s.notParsed \subseteq (met \cup {f}) \ TextNamed
  BY <1>1 DEF CbomFacts
<1> QED BY <1>4, <1>6, <1>7, <1>8, <1>9, <1>10 DEF CbomFacts

\* One that is Python, or was meant to be.
LEMMA CbomReads ==
  ASSUME NEW r, NEW s, NEW met \in SUBSET WalkedFiles, NEW f \in WalkedFiles, NEW c, f \notin met, f \notin TextNamed,
         CbomFacts(r, met), c.units # "none",
         \A g \in met : s.seen[g] = r.seen[g], s.seen[f] = c,
         s.tree = r.tree \cup {<<f, c>>}, s.scanned = r.scanned + 1, s.unreadable = r.unreadable,
         s.notParsed = IF c.units = "python" THEN r.notParsed ELSE r.notParsed \cup {f},
         s.uses = IF Bad(c) THEN r.uses ELSE r.uses \cup UsesIn(f, c)
  PROVE  CbomFacts(s, met \cup {f})
<1> DEFINE T == TreeFiles(r)
<1>1. TreeFiles(s) = T \cup {f}
  <2>1. <<f, c>>[1] = f
    OBVIOUS
  <2>2. \A g : g \in TreeFiles(s) <=> (\E e \in r.tree : g = e[1]) \/ g = <<f, c>>[1]
    BY DEF TreeFiles
  <2>3. \A g : g \in T <=> \E e \in r.tree : g = e[1]
    BY DEF TreeFiles
  <2> HIDE DEF T
  <2> QED BY <2>1, <2>2, <2>3
<1>2. T \in SUBSET WalkedFiles /\ f \notin T /\ f \notin r.notParsed /\ \A e \in r.tree : e[1] \in T
  BY DEF CbomFacts, TreeFiles
<1>3. s.scanned = Cardinality(TreeFiles(s))
  <2>1. r.scanned = Cardinality(T)
    BY DEF CbomFacts
  <2> HIDE DEF T
  <2> QED BY <1>1, <1>2, <2>1, OneMore
<1>4. s.notParsed \ TreeFiles(s) = r.notParsed \ T
  BY <1>1, <1>2
<1>5. s.unreadable = Cardinality(s.notParsed \ TreeFiles(s))
  BY <1>4 DEF CbomFacts
<1>6. ASSUME NEW e \in s.tree
      PROVE  s.seen[e[1]] = e[2] /\ e[2].units # "none" /\ (e[2].units = "python" <=> e[1] \notin s.notParsed)
  <2>1. CASE e \in r.tree
    <3>1. e[1] \in T /\ e[1] # f /\ e[1] \in met
      BY <2>1, <1>2 DEF CbomFacts
    <3>2. r.seen[e[1]] = e[2] /\ e[2].units # "none" /\ (e[2].units = "python" <=> e[1] \notin r.notParsed)
      BY <2>1 DEF CbomFacts
    <3> QED BY <3>1, <3>2
  <2>2. CASE e = <<f, c>>
    BY <2>2, <1>2
  <2> QED BY <2>1, <2>2
<1>7. ASSUME NEW x
      PROVE  x \in StatusesOf(s) <=> \E e \in s.tree : ~Bad(e[2]) /\ x \in e[2].uses
  <2>1. x \in StatusesOf(r) <=> \E e \in r.tree : ~Bad(e[2]) /\ x \in e[2].uses
    BY DEF CbomFacts
  <2>2. (\E e \in s.tree : ~Bad(e[2]) /\ x \in e[2].uses)
          <=> (\E e \in r.tree : ~Bad(e[2]) /\ x \in e[2].uses) \/ (~Bad(c) /\ x \in c.uses)
    <3>1. <<f, c>>[2] = c
      OBVIOUS
    <3> QED BY <3>1
  <2>3. x \in StatusesOf(s) <=> x \in StatusesOf(r) \/ (~Bad(c) /\ x \in c.uses)
    <3>1. CASE Bad(c)
      BY <3>1 DEF StatusesOf
    <3>2. CASE ~Bad(c)
      <4>1. s.uses = r.uses \cup UsesIn(f, c)
        BY <3>2
      <4>2. x \in StatusesOf(s) <=> (\E u \in r.uses : x = u[2]) \/ (\E v \in c.uses : x = <<f, v>>[2])
        <5>1. x \in StatusesOf(s) <=> \E w \in s.uses : x = w[2]
          BY DEF StatusesOf
        <5>2. \A w : w \in s.uses <=> w \in r.uses \/ \E v \in c.uses : w = <<f, v>>
          BY <4>1 DEF UsesIn
        <5>3. ASSUME NEW v \in c.uses, x = <<f, v>>[2] PROVE \E w \in s.uses : x = w[2]
          <6>1. <<f, v>> \in s.uses
            BY <5>2
          <6> QED BY <5>3, <6>1
        <5>4. ASSUME NEW w \in s.uses, x = w[2]
              PROVE  (\E u \in r.uses : x = u[2]) \/ (\E v \in c.uses : x = <<f, v>>[2])
          BY <5>2, <5>4
        <5>5. ASSUME NEW u \in r.uses, x = u[2] PROVE \E w \in s.uses : x = w[2]
          BY <5>2, <5>5
        <5> QED BY <5>1, <5>3, <5>4, <5>5
      <4>3. \A v : <<f, v>>[2] = v
        OBVIOUS
      <4>4. x \in StatusesOf(r) <=> \E u \in r.uses : x = u[2]
        BY DEF StatusesOf
      <4> QED BY <3>2, <4>2, <4>3, <4>4
    <3> QED BY <3>1, <3>2
  <2> QED BY <2>1, <2>2, <2>3
<1>8. \A g \in (met \cup {f}) \ TextNamed :
        g \in TreeFiles(s) \/ g \in s.notParsed \/ (s.seen[g] # NoVersion /\ s.seen[g].units = "none")
  <2>1. \A g \in met \ TextNamed : g \in T \/ g \in r.notParsed \/ (r.seen[g] # NoVersion /\ r.seen[g].units = "none")
    BY DEF CbomFacts
  <2> HIDE DEF T
  <2> QED BY <1>1, <2>1
<1>9. TreeFiles(s) \subseteq (met \cup {f}) \ TextNamed /\ s.notParsed \subseteq (met \cup {f}) \ TextNamed
  <2>1. T \subseteq met \ TextNamed /\ r.notParsed \subseteq met \ TextNamed
    BY DEF CbomFacts
  <2> HIDE DEF T
  <2> QED BY <1>1, <2>1
<1> HIDE DEF T
<1> QED BY <1>3, <1>5, <1>6, <1>7, <1>8, <1>9 DEF CbomFacts

(***************************************************************************)
(* One file more: as the key search takes it.                              *)
(***************************************************************************)
LEMMA KeysGrown ==
  ASSUME NEW r, NEW s, NEW met \in SUBSET WalkedFiles, KeysFacts(r, met), Same(s, r), Grown(s, r, met)
  PROVE  KeysFacts(s, met)
<1>1. PICK R \in SUBSET met : r.scanned = Cardinality(R) /\ \A f \in R : f \notin r.tooLarge /\ r.seen[f] # NoVersion
  BY DEF KeysFacts
<1>2. \A f \in met : r.seen[f] # NoVersion => s.seen[f] = r.seen[f]
  BY DEF Grown
<1>3. s.scanned = Cardinality(R) /\ \A f \in R : f \notin s.tooLarge /\ s.seen[f] # NoVersion
  BY <1>1, <1>2 DEF Same
<1>4. \A f \in met : TextTold(r, f) => TextTold(s, f)
  BY <1>2 DEF TextTold, Same
<1>5. s.tooLarge \subseteq met
  BY DEF KeysFacts, Same
<1>6. \A f \in met : f \in s.notParsed \/ f \in s.found \/ f \in s.tooLarge \/ TextTold(s, f)
  BY <1>4 DEF KeysFacts, Same
<1> QED BY <1>3, <1>5, <1>6 DEF KeysFacts

\* What a run counts is added to, and what it has seen of other files stays.
Added(s, r, met, f) ==
  /\ \A g \in met : s.seen[g] = r.seen[g]
  /\ r.notParsed \subseteq s.notParsed /\ r.found \subseteq s.found /\ r.notOpened \subseteq s.notOpened
  /\ r.partly \subseteq s.partly /\ r.readNothing \subseteq s.readNothing
  /\ r.tooLarge \subseteq s.tooLarge /\ s.tooLarge \subseteq r.tooLarge \cup {f}

LEMMA KeysMeets ==
  ASSUME NEW r, NEW s, NEW met \in SUBSET WalkedFiles, NEW f \in WalkedFiles, f \notin met,
         KeysFacts(r, met), Added(s, r, met, f),
         f \in s.notParsed \/ f \in s.found \/ f \in s.tooLarge \/ TextTold(s, f),
         \/ s.scanned = r.scanned
         \/ s.scanned = r.scanned + 1 /\ f \notin s.tooLarge /\ s.seen[f] # NoVersion
  PROVE  KeysFacts(s, met \cup {f})
<1>1. PICK R \in SUBSET met : r.scanned = Cardinality(R) /\ \A g \in R : g \notin r.tooLarge /\ r.seen[g] # NoVersion
  BY DEF KeysFacts
<1>2. s.tooLarge \subseteq met \cup {f}
  BY DEF KeysFacts, Added
<1>3. \A g \in met : TextTold(r, g) => TextTold(s, g)
  BY DEF TextTold, Added
<1>4. \A g \in met \cup {f} : g \in s.notParsed \/ g \in s.found \/ g \in s.tooLarge \/ TextTold(s, g)
  BY <1>3 DEF KeysFacts, Added
<1>5. \A g \in R : g \notin s.tooLarge /\ s.seen[g] # NoVersion
  BY <1>1 DEF Added
<1>6. \E Q \in SUBSET (met \cup {f}) : s.scanned = Cardinality(Q) /\ \A g \in Q : g \notin s.tooLarge /\ s.seen[g] # NoVersion
  <2>1. CASE s.scanned = r.scanned
    BY <2>1, <1>1, <1>5
  <2>2. CASE s.scanned = r.scanned + 1 /\ f \notin s.tooLarge /\ s.seen[f] # NoVersion
    <3> DEFINE Q == R \cup {f}
    <3>1. R \in SUBSET WalkedFiles /\ f \notin R
      BY <1>1
    <3>2. Cardinality(Q) = Cardinality(R) + 1
      BY <3>1, OneMore
    <3>3. Q \in SUBSET (met \cup {f}) /\ \A g \in Q : g \notin s.tooLarge /\ s.seen[g] # NoVersion
      BY <1>5, <2>2
    <3> HIDE DEF Q
    <3> QED BY <1>1, <2>2, <3>2, <3>3
  <2> QED BY <2>1, <2>2
<1> QED BY <1>2, <1>4, <1>6 DEF KeysFacts

-----------------------------------------------------------------------------
(***************************************************************************)
(* The runs and the reports, as they are at every moment.                  *)
(***************************************************************************)
Met(r) == IF r.phase = "scan" THEN Before(r.at) ELSE WalkedFiles
Done(r) == IF r.phase = "scan" THEN {} ELSE Before(r.at)

RunOK(r) ==
  /\ r \in RunType
  /\ r.phase \in {"scan", "list"} /\ r.at \in 1..(Len(Listing) + 1)
  /\ r.last \in WalkedFiles => r.seen[r.last] # NoVersion
  /\ ToolFacts(r, Met(r))
  /\ ListingFacts(r, Done(r))

ReportOK(r, tool) ==
  /\ r \in RunType /\ r.tool = tool
  /\ ToolFacts(r, WalkedFiles) /\ ListingFacts(r, WalkedFiles)
  /\ r.phase = IF tool = "cbom" THEN CbomVerdict(r) ELSE KeysVerdict(r)

TreeOK ==
  /\ holds \in [WalkedFiles -> FileContents]
  /\ \A f \in WalkedFiles : f \in TextNamed => holds[f].units = "none"

InventoryInv ==
  /\ TreeOK
  /\ run # NoRun => RunOK(run) /\ reports[run.tool] = NoReport
  /\ DOMAIN reports = Tools
  /\ \A t \in Tools : reports[t] # NoReport => ReportOK(reports[t], t)
  /\ joined => \A t \in Tools : reports[t] # NoReport
  /\ joined => reports["cbom"].listing = reports["keys"].listing

LEMMA ContentIs ==
  ASSUME NEW c \in FileContents
  PROVE  /\ c.units \in Units /\ c.uses \in SUBSET Statuses /\ c.text \in FileTexts
         /\ c.units # "none" => c.text \in PythonTexts
         /\ c # NoVersion /\ c # Locked
<1>1. c \in [units : Units, uses : SUBSET Statuses, text : FileTexts]
  BY FileContentsAssumption
<1> QED BY <1>1, FileContentsAssumption

LEMMA BeginIsOK == ASSUME NEW tool \in Tools PROVE RunOK(BeginRun(tool)) /\ BeginRun(tool).tool = tool
<1> DEFINE r == BeginRun(tool)
<1>1. /\ r.phase = "scan" /\ r.at = 1 /\ r.tool = tool /\ r.last = NoFileYet /\ r.tree = {} /\ r.uses = {} /\ r.notParsed = {}
      /\ r.scanned = 0 /\ r.unreadable = 0 /\ r.tooLarge = {}
  BY DEF BeginRun
<1>2. r \in RunType
  <2>1. [f \in WalkedFiles |-> NoVersion] \in [WalkedFiles -> FileVersions]
    BY DEF FileVersions
  <2>2. [f \in WalkedFiles |-> NoVersion] \in [WalkedFiles -> FileVersions \cup {Locked}]
    BY DEF FileVersions
  <2>5. "scan" \in Phases
    BY DEF Phases
  <2>3. 1 \in Nat /\ 0 \in Nat /\ NoFileYet \in WalkedFiles \cup {NoFileYet}
    OBVIOUS
  <2>4. {} \in SUBSET WalkedFiles /\ {} \in SUBSET (WalkedFiles \X Statuses) /\ {} \in SUBSET (WalkedFiles \X FileContents)
    OBVIOUS
  <2> QED BY <2>1, <2>2, <2>3, <2>4, <2>5, Zenon DEF BeginRun, RunType
<1> HIDE DEF r
<1>3. Met(r) = {} /\ Done(r) = {} /\ 1 \in 1..(Len(Listing) + 1)
  BY <1>1, WalkIs DEF Met, Done
<1>4. TreeFiles(r) = {} /\ StatusesOf(r) = {}
  BY <1>1 DEF TreeFiles, StatusesOf
<1>5. CbomFacts(r, {})
  BY <1>1, <1>4, FS_EmptySet DEF CbomFacts
<1>6. KeysFacts(r, {})
  BY <1>1, FS_EmptySet DEF KeysFacts
<1>7. ListingFacts(r, {})
  BY DEF ListingFacts
<1>8. r.last \notin WalkedFiles
  BY <1>1, ListingAssumption
<1> QED BY <1>1, <1>2, <1>3, <1>5, <1>6, <1>7, <1>8 DEF RunOK, ToolFacts, r

\* What a record of a run has in its fields.
LEMMA RunFields ==
  ASSUME NEW r \in RunType
  PROVE  /\ r.phase \in Phases /\ r.tool \in Tools /\ r.at \in Nat /\ r.last \in WalkedFiles \cup {NoFileYet}
         /\ r.seen \in [WalkedFiles -> FileVersions] /\ r.listing \in [WalkedFiles -> FileVersions \cup {Locked}]
         /\ r.scanned \in Nat /\ r.unreadable \in Nat /\ r.notParsed \subseteq WalkedFiles
         /\ r.uses \subseteq WalkedFiles \X Statuses /\ r.tree \subseteq WalkedFiles \X FileContents
         /\ r.found \subseteq WalkedFiles /\ r.tooLarge \subseteq WalkedFiles /\ r.notOpened \subseteq WalkedFiles
         /\ r.readNothing \subseteq WalkedFiles /\ r.partly \subseteq WalkedFiles
BY DEF RunType

\* What a run's record is when the walk goes on, past a file that was not read and past one that was.
KeptOf(s, r) == s.tool = r.tool /\ s.phase = r.phase /\ s.listing = r.listing

LEMMA PassedOver ==
  ASSUME NEW q \in RunType
  PROVE  LET s == [q EXCEPT !.at = @ + 1]
         IN  s \in RunType /\ Same(s, q) /\ KeptOf(s, q) /\ s.at = q.at + 1 /\ s.seen = q.seen /\ s.last = q.last
<1> DEFINE s == [q EXCEPT !.at = @ + 1]
<1>1. q.at + 1 \in Nat
  BY DEF RunType
<1>2. s \in RunType
  BY <1>1 DEF RunType
<1>3. Same(s, q) /\ KeptOf(s, q) /\ s.at = q.at + 1 /\ s.seen = q.seen /\ s.last = q.last
  BY DEF RunType, Same, KeptOf
<1> QED BY <1>2, <1>3

ReadOn(q, f, c) == [q EXCEPT !.at = @ + 1, !.seen[f] = c, !.last = f]

LEMMA PassedRead ==
  ASSUME NEW q \in RunType, NEW f \in WalkedFiles, NEW c \in FileContents,
         NEW s, s = ReadOn(q, f, c)
  PROVE  /\ s \in RunType /\ Same(s, q) /\ KeptOf(s, q) /\ s.at = q.at + 1 /\ s.last = f
         /\ s.seen[f] = c /\ \A g \in WalkedFiles : g # f => s.seen[g] = q.seen[g]
<1> DEFINE n == [q.seen EXCEPT ![f] = c]
<1>1. q.at + 1 \in Nat /\ q.seen \in [WalkedFiles -> FileVersions]
  BY DEF RunType
<1>2. n \in [WalkedFiles -> FileVersions] /\ n[f] = c /\ \A g \in WalkedFiles : g # f => n[g] = q.seen[g]
  BY <1>1 DEF FileVersions
<1> HIDE DEF n
<1>3. s = [q EXCEPT !.at = q.at + 1, !.seen = n, !.last = f]
  BY DEF n, ReadOn
<1>4. s \in RunType
  BY <1>1, <1>2, <1>3 DEF RunType
<1>5. Same(s, q)
  BY <1>3 DEF RunType, Same
<1>6. KeptOf(s, q) /\ s.at = q.at + 1 /\ s.last = f /\ s.seen = n
  BY <1>3 DEF RunType, KeptOf
<1> QED BY <1>2, <1>4, <1>5, <1>6

\* One file of the CBOM's scan, by the field.
CbomReadsInto(q, r, f, c) ==
  /\ q.tree = r.tree \cup {<<f, c>>} /\ q.scanned = r.scanned + 1 /\ q.unreadable = r.unreadable
  /\ q.notParsed = IF c.units = "python" THEN r.notParsed ELSE r.notParsed \cup {f}
  /\ q.uses = IF Bad(c) THEN r.uses ELSE r.uses \cup UsesIn(f, c)

LEMMA CbomFileIs ==
  ASSUME NEW r \in RunType, NEW f \in WalkedFiles, NEW c \in FileContents
  PROVE  LET q == CbomFile(r, f, c)
         IN  /\ q \in RunType /\ KeptOf(q, r) /\ q.at = r.at /\ q.seen = r.seen /\ q.last = r.last
             /\ NotPython(f, c) => Same(q, r)
             /\ ~NotPython(f, c) /\ CannotOpen(f) =>
                  /\ q.tree = r.tree /\ q.uses = r.uses /\ q.scanned = r.scanned
                  /\ q.unreadable = r.unreadable + 1 /\ q.notParsed = r.notParsed \cup {f}
             /\ ~NotPython(f, c) /\ ~CannotOpen(f) => CbomReadsInto(q, r, f, c)
<1> DEFINE q == CbomFile(r, f, c)
           unparsed == IF c.units = "python" THEN r.notParsed ELSE r.notParsed \cup {f}
           using == IF Bad(c) THEN r.uses ELSE r.uses \cup UsesIn(f, c)
           more == r.tree \cup {<<f, c>>}
<1>1. r.scanned + 1 \in Nat /\ r.unreadable + 1 \in Nat /\ r.notParsed \cup {f} \in SUBSET WalkedFiles
  BY DEF RunType
<1>2. unparsed \in SUBSET WalkedFiles /\ using \in SUBSET (WalkedFiles \X Statuses) /\ more \in SUBSET (WalkedFiles \X FileContents)
  <2>1. c.uses \subseteq Statuses
    BY ContentIs
  <2> QED BY <2>1 DEF RunType, UsesIn
<1>3. CASE NotPython(f, c)
  BY <1>3 DEF CbomFile, KeptOf, Same
<1>4. CASE ~NotPython(f, c) /\ CannotOpen(f)
  <2>1. q = [r EXCEPT !.unreadable = r.unreadable + 1, !.notParsed = r.notParsed \cup {f}]
    BY <1>4 DEF CbomFile
  <2> HIDE DEF q
  <2>2. /\ q \in RunType /\ KeptOf(q, r) /\ q.at = r.at /\ q.seen = r.seen /\ q.last = r.last
        /\ q.tree = r.tree /\ q.uses = r.uses /\ q.scanned = r.scanned
        /\ q.unreadable = r.unreadable + 1 /\ q.notParsed = r.notParsed \cup {f}
    BY <1>1, <2>1 DEF RunType, KeptOf
  <2> QED BY <1>4, <2>2 DEF q
<1>5. CASE ~NotPython(f, c) /\ ~CannotOpen(f)
  <2>1. q = [r EXCEPT !.scanned = r.scanned + 1, !.tree = more, !.notParsed = unparsed, !.uses = using]
    BY <1>5 DEF CbomFile, UsesIn
  <2> HIDE DEF q, more, unparsed, using
  <2>2. /\ q \in RunType /\ KeptOf(q, r) /\ q.at = r.at /\ q.seen = r.seen /\ q.last = r.last
        /\ q.tree = more /\ q.uses = using /\ q.scanned = r.scanned + 1
        /\ q.unreadable = r.unreadable /\ q.notParsed = unparsed
    BY <1>1, <1>2, <2>1 DEF RunType, KeptOf
  <2> QED BY <1>5, <2>2 DEF q, more, unparsed, using, CbomReadsInto
<1> QED BY <1>3, <1>4, <1>5

(***************************************************************************)
(* One file of the key search, by the field: what it leads to, and what is *)
(* only added to.                                                          *)
(***************************************************************************)
LEMMA KeyFileIs ==
  ASSUME NEW r \in RunType, NEW f \in WalkedFiles, NEW c \in FileContents
  PROVE  LET q == KeyFile(r, f, c)
         IN  /\ q \in RunType /\ KeptOf(q, r) /\ q.at = r.at /\ q.seen = r.seen /\ q.last = r.last
             /\ r.notParsed \subseteq q.notParsed /\ r.found \subseteq q.found /\ r.notOpened \subseteq q.notOpened
             /\ r.partly \subseteq q.partly /\ r.readNothing \subseteq q.readNothing
             /\ r.tooLarge \subseteq q.tooLarge /\ q.tooLarge \subseteq r.tooLarge \cup {f}
             /\ c.text = "large" \/ f \in locked =>
                  q.scanned = r.scanned /\ (f \in q.notParsed \/ f \in q.found \/ f \in q.tooLarge)
             /\ c.text # "large" /\ f \notin locked =>
                  /\ q.scanned = r.scanned + 1 /\ q.tooLarge = r.tooLarge
                  /\ c.text = "key" => f \in q.found
                  /\ c.text = "deepJson" => f \in q.notParsed
                  /\ c.text = "unopened" => f \in q.notOpened
                  /\ c.text \in {"partial", "nothingRead"} => f \in q.partly
                  /\ c.text = "nothingRead" => f \in q.readNothing
<1> DEFINE q == KeyFile(r, f, c)
           finding == IF c.text = "key" \/ f \in keyNamed THEN {f} ELSE {}
           hit == r.found \cup finding
           named == IF f \in keyNamed THEN r.found \cup {f} ELSE r.found
           large == IF f \in keyNamed THEN r.tooLarge ELSE r.tooLarge \cup {f}
           deep == IF c.text = "deepJson" THEN r.notParsed \cup {f} ELSE r.notParsed
           closed == IF c.text = "unopened" THEN r.notOpened \cup {f} ELSE r.notOpened
           part == IF c.text \in {"partial", "nothingRead"} THEN r.partly \cup {f} ELSE r.partly
           nothing == IF c.text = "nothingRead" THEN r.readNothing \cup {f} ELSE r.readNothing
<1>1. r.scanned + 1 \in Nat /\ r.notParsed \cup {f} \in SUBSET WalkedFiles
  BY DEF RunType
<1>2. /\ hit \in SUBSET WalkedFiles /\ named \in SUBSET WalkedFiles /\ large \in SUBSET WalkedFiles
      /\ deep \in SUBSET WalkedFiles /\ closed \in SUBSET WalkedFiles /\ part \in SUBSET WalkedFiles
      /\ nothing \in SUBSET WalkedFiles
  BY RunFields
<1>3. CASE c.text = "large"
  <2>1. q = [r EXCEPT !.found = hit, !.tooLarge = large]
    BY <1>3 DEF KeyFile
  <2>2. f \in hit \/ f \in large
    OBVIOUS
  <2>3. r.found \subseteq hit /\ r.tooLarge \subseteq large /\ large \subseteq r.tooLarge \cup {f}
    OBVIOUS
  <2> HIDE DEF q, hit, large
  <2>4. /\ q \in RunType /\ KeptOf(q, r) /\ q.at = r.at /\ q.seen = r.seen /\ q.last = r.last
        /\ q.notParsed = r.notParsed /\ q.found = hit /\ q.notOpened = r.notOpened /\ q.partly = r.partly
        /\ q.readNothing = r.readNothing /\ q.tooLarge = large /\ q.scanned = r.scanned
    BY <1>2, <2>1 DEF RunType, KeptOf
  <2> QED BY <1>3, <2>2, <2>3, <2>4 DEF q
<1>4. CASE c.text # "large" /\ f \in locked
  <2>1. q = [r EXCEPT !.notParsed = r.notParsed \cup {f}, !.found = named]
    BY <1>4 DEF KeyFile
  <2>2. r.found \subseteq named
    OBVIOUS
  <2> HIDE DEF q, named
  <2>3. /\ q \in RunType /\ KeptOf(q, r) /\ q.at = r.at /\ q.seen = r.seen /\ q.last = r.last
        /\ q.notParsed = r.notParsed \cup {f} /\ q.found = named /\ q.notOpened = r.notOpened /\ q.partly = r.partly
        /\ q.readNothing = r.readNothing /\ q.tooLarge = r.tooLarge /\ q.scanned = r.scanned
    BY <1>1, <1>2, <2>1 DEF RunType, KeptOf
  <2> QED BY <1>4, <2>2, <2>3 DEF q
<1>5. CASE c.text # "large" /\ f \notin locked
  <2>1. q = [r EXCEPT !.scanned = r.scanned + 1, !.found = hit, !.notParsed = deep, !.notOpened = closed,
                      !.partly = part, !.readNothing = nothing]
    BY <1>5 DEF KeyFile
  <2>2. /\ r.found \subseteq hit /\ r.notParsed \subseteq deep /\ r.notOpened \subseteq closed
        /\ r.partly \subseteq part /\ r.readNothing \subseteq nothing
    OBVIOUS
  <2>3. /\ c.text = "key" => f \in hit
        /\ c.text = "deepJson" => f \in deep
        /\ c.text = "unopened" => f \in closed
        /\ c.text \in {"partial", "nothingRead"} => f \in part
        /\ c.text = "nothingRead" => f \in nothing
    OBVIOUS
  <2> HIDE DEF q, hit, deep, closed, part, nothing
  <2>4. /\ q \in RunType /\ KeptOf(q, r) /\ q.at = r.at /\ q.seen = r.seen /\ q.last = r.last
        /\ q.notParsed = deep /\ q.found = hit /\ q.notOpened = closed /\ q.partly = part
        /\ q.readNothing = nothing /\ q.tooLarge = r.tooLarge /\ q.scanned = r.scanned + 1
    BY <1>1, <1>2, <2>1 DEF RunType, KeptOf
  <2> QED BY <1>5, <2>2, <2>3, <2>4 DEF q
<1> QED BY <1>3, <1>4, <1>5

LEMMA KeysFileIs ==
  ASSUME NEW r \in RunType, NEW f \in WalkedFiles, NEW c \in FileContents, f \in TextNamed => c.units = "none"
  PROVE  LET q == KeysFile(r, f, c)
         IN  /\ q \in RunType /\ KeptOf(q, r) /\ q.at = r.at /\ q.seen = r.seen /\ q.last = r.last
             /\ r.notParsed \subseteq q.notParsed /\ r.found \subseteq q.found /\ r.notOpened \subseteq q.notOpened
             /\ r.partly \subseteq q.partly /\ r.readNothing \subseteq q.readNothing
             /\ r.tooLarge \subseteq q.tooLarge /\ q.tooLarge \subseteq r.tooLarge \cup {f}
             /\ q.scanned = r.scanned \/ (q.scanned = r.scanned + 1 /\ q.tooLarge = r.tooLarge /\ Opened("keys", f, c))
             /\ \/ f \in q.notParsed \/ f \in q.found \/ f \in q.tooLarge
                \/ /\ Opened("keys", f, c)
                   /\ \/ c.text = "clean"
                      \/ c.text = "unopened" /\ f \in q.notOpened
                      \/ c.text = "partial" /\ f \in q.partly
                      \/ c.text = "nothingRead" /\ f \in q.partly /\ f \in q.readNothing
<1> DEFINE q == KeysFile(r, f, c)
           named == IF f \in keyNamed THEN r.found \cup {f} ELSE r.found
           hit == IF c.text = "key" /\ c.units \in {"python", "otherKernel"} THEN r.found \cup {f} ELSE r.found
           unparsed == IF c.units = "python" THEN r.notParsed ELSE r.notParsed \cup {f}
<1>1. r.scanned + 1 \in Nat /\ r.notParsed \cup {f} \in SUBSET WalkedFiles
  BY DEF RunType
<1>2. named \in SUBSET WalkedFiles /\ hit \in SUBSET WalkedFiles /\ unparsed \in SUBSET WalkedFiles
  BY RunFields
<1>3. c.text \in FileTexts /\ (c.units # "none" => c.text \in PythonTexts)
  BY ContentIs
<1>4. CASE NotPython(f, c)
  <2>1. q = KeyFile(r, f, c)
    BY <1>4 DEF KeysFile
  <2> HIDE DEF q
  <2>2. c.text # "large" /\ f \notin locked => Opened("keys", f, c)
    BY DEF Opened
  <2>3. \/ c.text \in {"large", "key", "deepJson"}
        \/ c.text = "clean" \/ c.text = "unopened" \/ c.text = "partial" \/ c.text = "nothingRead"
    BY <1>3 DEF FileTexts, PythonTexts
  <2> QED BY <2>1, <2>2, <2>3, KeyFileIs DEF q
<1>5. CASE ~NotPython(f, c) /\ CannotOpen(f)
  <2>1. q = [r EXCEPT !.notParsed = r.notParsed \cup {f}, !.found = named]
    BY <1>5 DEF KeysFile
  <2>2. r.found \subseteq named
    OBVIOUS
  <2> HIDE DEF q, named
  <2>3. /\ q \in RunType /\ KeptOf(q, r) /\ q.at = r.at /\ q.seen = r.seen /\ q.last = r.last
        /\ q.notParsed = r.notParsed \cup {f} /\ q.found = named /\ q.notOpened = r.notOpened /\ q.partly = r.partly
        /\ q.readNothing = r.readNothing /\ q.tooLarge = r.tooLarge /\ q.scanned = r.scanned
    BY <1>1, <1>2, <2>1 DEF RunType, KeptOf
  <2> QED BY <1>5, <2>2, <2>3 DEF q
<1>6. CASE ~NotPython(f, c) /\ ~CannotOpen(f)
  <2>1. q = [r EXCEPT !.scanned = r.scanned + 1, !.notParsed = unparsed, !.found = hit]
    BY <1>6 DEF KeysFile
  <2>2. r.found \subseteq hit /\ r.notParsed \subseteq unparsed
    OBVIOUS
  <2>3. c.units # "none" /\ f \notin locked /\ f \notin TextNamed
    BY <1>6 DEF NotPython, CannotOpen
  <2>4. Opened("keys", f, c)
    BY <2>3 DEF Opened
  <2>5. f \in unparsed \/ f \in hit \/ c.text = "clean"
    BY <1>3, <2>3 DEF PythonTexts
  <2> HIDE DEF q, hit, unparsed
  <2>6. /\ q \in RunType /\ KeptOf(q, r) /\ q.at = r.at /\ q.seen = r.seen /\ q.last = r.last
        /\ q.notParsed = unparsed /\ q.found = hit /\ q.notOpened = r.notOpened /\ q.partly = r.partly
        /\ q.readNothing = r.readNothing /\ q.tooLarge = r.tooLarge /\ q.scanned = r.scanned + 1
    BY <1>1, <1>2, <2>1 DEF RunType, KeptOf
  <2> QED BY <2>2, <2>4, <2>5, <2>6 DEF q
<1> QED BY <1>4, <1>5, <1>6

-----------------------------------------------------------------------------
\* What is counted does not depend on where a run is.
LEMMA FactsKept ==
  ASSUME NEW r, NEW s, NEW met \in SUBSET WalkedFiles, r \in RunType,
         ToolFacts(r, met), Same(s, r), s.tool = r.tool, Grown(s, r, met)
  PROVE  ToolFacts(s, met)
<1>1. \A e \in r.tree : e[2] # NoVersion
  <2>1. \A e \in r.tree : e[2] \in FileContents
    BY RunFields
  <2> QED BY <2>1, FileContentsAssumption
<1> QED BY <1>1, CbomGrown, KeysGrown DEF ToolFacts

LEMMA ScanKeepsFacts ==
  ASSUME NEW r \in RunType, NEW f \in WalkedFiles, NEW c \in FileContents, NEW met \in SUBSET WalkedFiles, f \notin met,
         ToolFacts(r, met), f \in TextNamed => c.units = "none",
         NEW s, s.tool = r.tool, Same(s, Scanned(r, f, c)),
         \A g \in met : s.seen[g] = r.seen[g],
         Opened(r.tool, f, c) => s.seen[f] = c,
         ~Opened(r.tool, f, c) => s.seen = r.seen
  PROVE  ToolFacts(s, met \cup {f})
<1>1. c # NoVersion
  BY ContentIs
<1>2. CASE r.tool = "cbom"
  <2> DEFINE q == CbomFile(r, f, c)
  <2>1. Same(s, q) /\ CbomFacts(r, met) /\ s.tool = "cbom"
    BY <1>2 DEF Scanned, ToolFacts
  <2>2. /\ NotPython(f, c) => Same(q, r)
        /\ ~NotPython(f, c) /\ CannotOpen(f) =>
             /\ q.tree = r.tree /\ q.uses = r.uses /\ q.scanned = r.scanned
             /\ q.unreadable = r.unreadable + 1 /\ q.notParsed = r.notParsed \cup {f}
        /\ ~NotPython(f, c) /\ ~CannotOpen(f) => CbomReadsInto(q, r, f, c)
    BY CbomFileIs
  <2> HIDE DEF q
  <2>3. CASE NotPython(f, c)
    <3>1. Same(s, r)
      BY <2>1, <2>2, <2>3 DEF Same
    <3>2. Grown(s, r, met)
      BY DEF Grown
    <3>3. ToolFacts(s, met)
      BY <3>1, <3>2, FactsKept
    <3>4. CbomFacts(s, met)
      BY <3>3, <2>1 DEF ToolFacts
    <3>5. f \in TextNamed \/ (s.seen[f] # NoVersion /\ s.seen[f].units = "none")
      BY <2>3, <1>1, <1>2 DEF NotPython, Opened
    <3>6. CbomFacts(s, met \cup {f})
      BY <3>4, <3>5, CbomMeets
    <3> QED BY <3>6, <2>1 DEF ToolFacts
  <2>4. CASE ~NotPython(f, c) /\ CannotOpen(f)
    <3>1. f \notin TextNamed /\ s.seen = r.seen
      BY <2>4 DEF CannotOpen, Opened
    <3>2. /\ s.tree = r.tree /\ s.uses = r.uses /\ s.scanned = r.scanned
          /\ s.unreadable = r.unreadable + 1 /\ s.notParsed = r.notParsed \cup {f}
      BY <2>1, <2>2, <2>4 DEF Same
    <3>3. CbomFacts(s, met \cup {f})
      BY <2>1, <3>1, <3>2, CbomCannot
    <3> QED BY <3>3, <2>1 DEF ToolFacts
  <2>5. CASE ~NotPython(f, c) /\ ~CannotOpen(f)
    <3>1. f \notin TextNamed /\ f \notin locked /\ c.units # "none"
      BY <2>5 DEF NotPython, CannotOpen
    <3>2. s.seen[f] = c
      BY <3>1 DEF Opened
    <3>3. /\ s.tree = r.tree \cup {<<f, c>>} /\ s.scanned = r.scanned + 1 /\ s.unreadable = r.unreadable
          /\ s.notParsed = IF c.units = "python" THEN r.notParsed ELSE r.notParsed \cup {f}
          /\ s.uses = IF Bad(c) THEN r.uses ELSE r.uses \cup UsesIn(f, c)
      BY <2>1, <2>2, <2>5 DEF Same, CbomReadsInto
    <3>4. CbomFacts(s, met \cup {f})
      BY <2>1, <3>1, <3>2, <3>3, CbomReads
    <3> QED BY <3>4, <2>1 DEF ToolFacts
  <2> QED BY <2>3, <2>4, <2>5
<1>3. CASE r.tool = "keys"
  <2> DEFINE q == KeysFile(r, f, c)
  <2>1. Same(s, q) /\ KeysFacts(r, met) /\ s.tool = "keys"
    BY <1>3 DEF Scanned, ToolFacts
  <2>2. /\ r.notParsed \subseteq q.notParsed /\ r.found \subseteq q.found /\ r.notOpened \subseteq q.notOpened
        /\ r.partly \subseteq q.partly /\ r.readNothing \subseteq q.readNothing
        /\ r.tooLarge \subseteq q.tooLarge /\ q.tooLarge \subseteq r.tooLarge \cup {f}
        /\ q.scanned = r.scanned \/ (q.scanned = r.scanned + 1 /\ q.tooLarge = r.tooLarge /\ Opened("keys", f, c))
        /\ \/ f \in q.notParsed \/ f \in q.found \/ f \in q.tooLarge
           \/ /\ Opened("keys", f, c)
              /\ \/ c.text = "clean"
                 \/ c.text = "unopened" /\ f \in q.notOpened
                 \/ c.text = "partial" /\ f \in q.partly
                 \/ c.text = "nothingRead" /\ f \in q.partly /\ f \in q.readNothing
    BY KeysFileIs
  <2> HIDE DEF q
  <2>3. Added(s, r, met, f)
    BY <2>1, <2>2 DEF Added, Same
  <2>4. Opened("keys", f, c) => s.seen[f] = c /\ s.seen[f] # NoVersion
    BY <1>1, <1>3
  <2>5. f \in s.notParsed \/ f \in s.found \/ f \in s.tooLarge \/ TextTold(s, f)
    BY <2>1, <2>2, <2>4 DEF TextTold, Same
  <2>6. f \notin r.tooLarge
    BY <2>1 DEF KeysFacts
  <2>7. \/ s.scanned = r.scanned
        \/ s.scanned = r.scanned + 1 /\ f \notin s.tooLarge /\ s.seen[f] # NoVersion
    BY <2>1, <2>2, <2>4, <2>6 DEF Same
  <2>8. KeysFacts(s, met \cup {f})
    BY <2>1, <2>3, <2>5, <2>7, KeysMeets
  <2> QED BY <2>1, <2>8 DEF ToolFacts
<1> QED BY <1>2, <1>3, RunFields DEF Tools

LEMMA ScannedIs ==
  ASSUME NEW r \in RunType, NEW f \in WalkedFiles, NEW c \in FileContents, f \in TextNamed => c.units = "none"
  PROVE  LET q == Scanned(r, f, c)
         IN  q \in RunType /\ KeptOf(q, r) /\ q.at = r.at /\ q.seen = r.seen /\ q.last = r.last
<1>1. LET q == CbomFile(r, f, c)
      IN  q \in RunType /\ KeptOf(q, r) /\ q.at = r.at /\ q.seen = r.seen /\ q.last = r.last
  BY CbomFileIs, ZenonT(30)
<1>2. LET q == KeysFile(r, f, c)
      IN  q \in RunType /\ KeptOf(q, r) /\ q.at = r.at /\ q.seen = r.seen /\ q.last = r.last
  BY KeysFileIs, ZenonT(30)
<1> QED BY <1>1, <1>2 DEF Scanned

(***************************************************************************)
(* A step of the scan.                                                     *)
(***************************************************************************)
LEMMA ScanFileOK ==
  ASSUME TreeOK, RunOK(run), ScanFile
  PROVE  RunOK(run') /\ run'.tool = run.tool
<1> DEFINE r == run
           f == Listing[r.at]
           c == holds[f]
           q == Scanned(r, f, c)
           met == Before(r.at)
           s == run'
<1>1. r \in RunType /\ r.phase = "scan" /\ r.at \in 1..Len(Listing) /\ Len(Listing) \in Nat /\ ToolFacts(r, met)
      /\ (r.last \in WalkedFiles => r.seen[r.last] # NoVersion)
  BY WalkIs DEF RunOK, ScanFile, Met
<1>2. f \in WalkedFiles /\ f \notin met /\ met \in SUBSET WalkedFiles /\ Before(r.at + 1) = met \cup {f}
  <2>1. r.at \in 1..(Len(Listing) + 1)
    BY <1>1
  <2> QED BY <1>1, <2>1, WalkIs
<1>3. c \in FileContents /\ (f \in TextNamed => c.units = "none") /\ c # NoVersion
  BY <1>2, ContentIs DEF TreeOK
<1>4. s = IF Opened(r.tool, f, c) THEN [q EXCEPT !.at = @ + 1, !.seen[f] = c, !.last = f] ELSE [q EXCEPT !.at = @ + 1]
  BY DEF ScanFile
<1> HIDE DEF r, f, c, q, met, s
<1>5. q \in RunType /\ KeptOf(q, r) /\ q.at = r.at /\ q.seen = r.seen /\ q.last = r.last
  BY <1>1, <1>2, <1>3, ScannedIs DEF q
<1>6. /\ s \in RunType /\ Same(s, q) /\ KeptOf(s, q) /\ s.at = q.at + 1
      /\ \A g \in met : s.seen[g] = r.seen[g]
      /\ Opened(r.tool, f, c) => s.seen[f] = c /\ s.last = f
      /\ ~Opened(r.tool, f, c) => s.seen = r.seen /\ s.last = r.last
  <2>1. CASE Opened(r.tool, f, c)
    <3>1. s = ReadOn(q, f, c)
      BY <1>4, <2>1 DEF ReadOn
    <3>2. /\ s \in RunType /\ Same(s, q) /\ KeptOf(s, q) /\ s.at = q.at + 1 /\ s.last = f
          /\ s.seen[f] = c /\ \A g \in WalkedFiles : g # f => s.seen[g] = q.seen[g]
      BY <3>1, <1>2, <1>3, <1>5, PassedRead
    <3> QED BY <2>1, <3>2, <1>2, <1>5
  <2>2. CASE ~Opened(r.tool, f, c)
    <3> DEFINE z == [q EXCEPT !.at = @ + 1]
    <3>1. s = z
      BY <1>4, <2>2
    <3>2. z \in RunType /\ Same(z, q) /\ KeptOf(z, q) /\ z.at = q.at + 1 /\ z.seen = q.seen /\ z.last = q.last
      BY <1>5, PassedOver
    <3> HIDE DEF z
    <3> QED BY <2>2, <3>1, <3>2, <1>5
  <2> QED BY <2>1, <2>2
<1>7. s.tool = r.tool /\ s.phase = "scan" /\ s.at = r.at + 1
  BY <1>1, <1>5, <1>6 DEF KeptOf
<1>8. ToolFacts(s, met \cup {f})
  BY <1>1, <1>2, <1>3, <1>6, <1>7, ScanKeepsFacts DEF q
<1>9. Met(s) = met \cup {f} /\ Done(s) = {}
  BY <1>2, <1>7 DEF Met, Done
<1>10. s.at \in 1..(Len(Listing) + 1)
  BY <1>1, <1>7
<1>11. s.last \in WalkedFiles => s.seen[s.last] # NoVersion
  BY <1>1, <1>3, <1>6
<1>12. ListingFacts(s, {})
  BY DEF ListingFacts
<1>13. RunOK(s)
  BY <1>6, <1>7, <1>8, <1>9, <1>10, <1>11, <1>12 DEF RunOK
<1> QED BY <1>7, <1>13 DEF r, s

\* The scan ends: all files are met, and none is listed yet.
LEMMA EndScanOK ==
  ASSUME RunOK(run), EndScan
  PROVE  RunOK(run') /\ run'.tool = run.tool
<1> DEFINE r == run
           s == run'
<1>1. r \in RunType /\ r.phase = "scan" /\ r.at = Len(Listing) + 1 /\ Len(Listing) \in Nat /\ ToolFacts(r, Before(r.at))
      /\ (r.last \in WalkedFiles => r.seen[r.last] # NoVersion)
  BY WalkIs DEF RunOK, EndScan, Met
<1>2. s = [r EXCEPT !.phase = "list", !.at = 1]
  BY DEF EndScan
<1> HIDE DEF r, s
<1>3. "list" \in Phases
  BY DEF Phases
<1>4. /\ s \in RunType /\ Same(s, r) /\ s.tool = r.tool /\ s.phase = "list" /\ s.at = 1
      /\ s.seen = r.seen /\ s.last = r.last
  BY <1>1, <1>2, <1>3 DEF RunType, Same
<1>5. Before(r.at) = WalkedFiles /\ Before(1) = {} /\ 1 \in 1..(Len(Listing) + 1)
  BY <1>1, WalkIs
<1>6. Grown(s, r, WalkedFiles)
  BY <1>4 DEF Grown
<1>7. ToolFacts(s, WalkedFiles)
  BY <1>1, <1>4, <1>5, <1>6, FactsKept
<1>8. Met(s) = WalkedFiles /\ Done(s) = {}
  BY <1>4, <1>5 DEF Met, Done
<1>9. ListingFacts(s, {})
  BY DEF ListingFacts
<1>10. RunOK(s)
  BY <1>1, <1>4, <1>5, <1>7, <1>8, <1>9 DEF RunOK
<1> QED BY <1>4, <1>10 DEF r, s


(***************************************************************************)
(* A step of the listing: a file is listed as the run has it, or as the    *)
(* version that is there when the run has none, or as locked.              *)
(***************************************************************************)
ListOn(q, f, v) ==
  [q EXCEPT !.at = @ + 1, !.listing[f] = v, !.seen[f] = IF v = Locked THEN @ ELSE v, !.last = IF v = Locked THEN @ ELSE f]

LEMMA PassedListed ==
  ASSUME NEW q \in RunType, NEW f \in WalkedFiles, NEW v \in FileContents \cup {Locked},
         NEW s, s = ListOn(q, f, v)
  PROVE  /\ s \in RunType /\ Same(s, q) /\ s.tool = q.tool /\ s.phase = q.phase /\ s.at = q.at + 1
         /\ s.listing[f] = v /\ \A g \in WalkedFiles : g # f => s.listing[g] = q.listing[g] /\ s.seen[g] = q.seen[g]
         /\ v = Locked => s.seen = q.seen /\ s.last = q.last
         /\ v # Locked => s.seen[f] = v /\ s.last = f
<1> DEFINE to == IF v = Locked THEN q.seen[f] ELSE v
           n == [q.seen EXCEPT ![f] = to]
           l == [q.listing EXCEPT ![f] = v]
           w == IF v = Locked THEN q.last ELSE f
<1>1. /\ q.at + 1 \in Nat /\ q.seen \in [WalkedFiles -> FileVersions] /\ q.listing \in [WalkedFiles -> FileVersions \cup {Locked}]
      /\ q.last \in WalkedFiles \cup {NoFileYet}
  BY RunFields
<1>2. to \in FileVersions /\ (v = Locked => to = q.seen[f]) /\ (v # Locked => to = v)
  BY <1>1 DEF FileVersions
<1>3. w \in WalkedFiles \cup {NoFileYet} /\ (v = Locked => w = q.last) /\ (v # Locked => w = f)
  BY <1>1
<1>4. s = [q EXCEPT !.at = q.at + 1, !.listing = l, !.seen = n, !.last = w]
  BY DEF ListOn
<1> HIDE DEF to, w
<1>5. n \in [WalkedFiles -> FileVersions] /\ n[f] = to /\ \A g \in WalkedFiles : g # f => n[g] = q.seen[g]
  BY <1>1, <1>2
<1>6. l \in [WalkedFiles -> FileVersions \cup {Locked}] /\ l[f] = v /\ \A g \in WalkedFiles : g # f => l[g] = q.listing[g]
  BY <1>1 DEF FileVersions
<1>7. v = Locked => n = q.seen
  BY <1>1, <1>2
<1> HIDE DEF n, l
<1>8. s \in RunType
  BY <1>1, <1>3, <1>4, <1>5, <1>6 DEF RunType
<1>9. Same(s, q)
  BY <1>4 DEF RunType, Same
<1>10. /\ s.tool = q.tool /\ s.phase = q.phase /\ s.at = q.at + 1
       /\ s.listing = l /\ s.seen = n /\ s.last = w
  BY <1>4 DEF RunType
<1> QED BY <1>2, <1>3, <1>5, <1>6, <1>7, <1>8, <1>9, <1>10

LEMMA ListFileOK ==
  ASSUME TreeOK, RunOK(run), ListFile
  PROVE  RunOK(run') /\ run'.tool = run.tool
<1> DEFINE r == run
           f == Listing[r.at]
           v == ListedAs(r, f)
           s == run'
<1>1. /\ r \in RunType /\ r.phase = "list" /\ r.at \in 1..Len(Listing) /\ Len(Listing) \in Nat
      /\ ToolFacts(r, WalkedFiles) /\ ListingFacts(r, Before(r.at))
      /\ (r.last \in WalkedFiles => r.seen[r.last] # NoVersion)
  BY WalkIs DEF RunOK, ListFile, Met, Done
<1>2. f \in WalkedFiles /\ f \notin Before(r.at) /\ Before(r.at) \subseteq WalkedFiles /\ Before(r.at + 1) = Before(r.at) \cup {f}
  <2>1. r.at \in 1..(Len(Listing) + 1)
    BY <1>1
  <2> QED BY <1>1, <2>1, WalkIs
<1>3. holds[f] \in FileContents
  BY <1>2 DEF TreeOK
<1>4. r.seen[f] \in FileVersions /\ Locked \notin FileVersions
  BY <1>1, <1>2, RunFields, FileContentsAssumption DEF FileVersions
<1>5. ~ChangedSince(r, f) /\ s = ListOn(r, f, v)
  BY DEF ListFile, ListOn
<1>6. v \in FileContents \cup {Locked}
  BY <1>1, <1>2, <1>3, <1>4 DEF ListedAs, FileVersions
<1>7. v # Locked => r.seen[f] = v \/ r.seen[f] = NoVersion
  BY <1>5 DEF ListedAs, ChangedSince
<1> HIDE DEF r, f, v, s
<1>8. /\ s \in RunType /\ Same(s, r) /\ s.tool = r.tool /\ s.phase = "list" /\ s.at = r.at + 1
      /\ s.listing[f] = v /\ \A g \in WalkedFiles : g # f => s.listing[g] = r.listing[g] /\ s.seen[g] = r.seen[g]
      /\ v = Locked => s.seen = r.seen /\ s.last = r.last
      /\ v # Locked => s.seen[f] = v /\ s.last = f
  BY <1>1, <1>2, <1>5, <1>6, PassedListed
<1>9. Grown(s, r, WalkedFiles)
  BY <1>7, <1>8 DEF Grown
<1>10. ToolFacts(s, WalkedFiles)
  BY <1>1, <1>8, <1>9, FactsKept
<1>11. Met(s) = WalkedFiles /\ Done(s) = Before(r.at) \cup {f}
  BY <1>2, <1>8 DEF Met, Done
<1>12. NoVersion \notin FileContents
  BY FileContentsAssumption
<1>13. ListingFacts(s, Before(r.at) \cup {f})
  <2>1. s.listing[f] = Locked \/ (s.listing[f] = s.seen[f] /\ s.seen[f] # NoVersion)
    BY <1>6, <1>8, <1>12
  <2>2. \A g \in Before(r.at) : s.listing[g] = r.listing[g] /\ s.seen[g] = r.seen[g]
    BY <1>2, <1>8
  <2> QED BY <1>1, <2>1, <2>2 DEF ListingFacts
<1>14. s.last \in WalkedFiles => s.seen[s.last] # NoVersion
  BY <1>1, <1>6, <1>8, <1>12
<1>15. s.at \in 1..(Len(Listing) + 1)
  BY <1>1, <1>8
<1>16. RunOK(s)
  BY <1>8, <1>10, <1>11, <1>13, <1>14, <1>15 DEF RunOK
<1> QED BY <1>8, <1>16 DEF r, s


(***************************************************************************)
(* A report: the run, with its verdict in the place of its phase.          *)
(***************************************************************************)
LEMMA VerdictKept ==
  ASSUME NEW r, NEW s, Same(s, r)
  PROVE  CbomVerdict(s) = CbomVerdict(r) /\ KeysVerdict(s) = KeysVerdict(r)
BY DEF Same, CbomVerdict, KeysVerdict, StatusesOf

LEMMA VerdictIs == \A r : CbomVerdict(r) \in Phases /\ KeysVerdict(r) \in Phases
BY DEF CbomVerdict, KeysVerdict, Phases

Told(r, verdict) == [r EXCEPT !.phase = verdict]

LEMMA ReportIsRun ==
  ASSUME NEW r \in RunType, NEW verdict \in Phases, NEW s, s = Told(r, verdict)
  PROVE  s \in RunType /\ Same(s, r) /\ s.tool = r.tool /\ s.phase = verdict /\ s.seen = r.seen /\ s.listing = r.listing
<1>1. s = [r EXCEPT !.phase = verdict]
  BY DEF Told
<1>2. s \in RunType
  BY <1>1 DEF RunType
<1>3. Same(s, r) /\ s.tool = r.tool /\ s.phase = verdict /\ s.seen = r.seen /\ s.listing = r.listing
  BY <1>1 DEF RunType, Same
<1> QED BY <1>2, <1>3

LEMMA IssueOK ==
  ASSUME RunOK(run), DOMAIN reports = Tools, Issue
  PROVE  /\ DOMAIN reports' = Tools /\ run.tool \in Tools /\ ReportOK(reports'[run.tool], run.tool)
         /\ \A t \in Tools : t # run.tool => reports'[t] = reports[t]
<1> DEFINE r == run
           verdict == IF r.tool = "cbom" THEN CbomVerdict(r) ELSE KeysVerdict(r)
           s == Told(r, verdict)
<1>1. /\ r \in RunType /\ r.phase = "list" /\ r.at = Len(Listing) + 1 /\ Len(Listing) \in Nat
      /\ ToolFacts(r, WalkedFiles) /\ ListingFacts(r, Before(r.at))
  BY WalkIs DEF RunOK, Issue, Met, Done
<1>2. Before(r.at) = WalkedFiles
  BY <1>1, WalkIs
<1>3. verdict \in Phases
  BY VerdictIs
<1>4. r.tool \in Tools
  BY <1>1, RunFields
<1>5. reports' = [reports EXCEPT ![r.tool] = s]
  BY DEF Issue, Told
<1>6. r.tool = "cbom" => verdict = CbomVerdict(r)
  OBVIOUS
<1>7. r.tool # "cbom" => verdict = KeysVerdict(r)
  OBVIOUS
<1> HIDE DEF r, verdict, s
<1>8. s \in RunType /\ Same(s, r) /\ s.tool = r.tool /\ s.phase = verdict /\ s.seen = r.seen /\ s.listing = r.listing
  BY <1>1, <1>3, ReportIsRun DEF s
<1>9. Grown(s, r, WalkedFiles)
  BY <1>8 DEF Grown
<1>10. ToolFacts(s, WalkedFiles)
  BY <1>1, <1>8, <1>9, FactsKept
<1>11. ListingFacts(s, WalkedFiles)
  BY <1>1, <1>2, <1>8 DEF ListingFacts
<1>12. CbomVerdict(s) = CbomVerdict(r) /\ KeysVerdict(s) = KeysVerdict(r)
  BY <1>8, VerdictKept
<1>13. s.phase = IF r.tool = "cbom" THEN CbomVerdict(s) ELSE KeysVerdict(s)
  BY <1>6, <1>7, <1>8, <1>12
<1>14. ReportOK(s, r.tool)
  BY <1>8, <1>10, <1>11, <1>13 DEF ReportOK
<1> QED BY <1>4, <1>5, <1>14 DEF r

(***************************************************************************)
(* The invariant of the runs and reports, and that every step keeps it.    *)
(***************************************************************************)
LEMMA InventoryStart == InventoryInit => InventoryInv
<1> SUFFICES ASSUME InventoryInit PROVE InventoryInv
  OBVIOUS
<1>1. TreeOK
  BY DEF InventoryInit, TreeOK, Holding
<1>2. run = NoRun /\ reports = [t \in Tools |-> NoReport] /\ ~joined
  BY DEF InventoryInit
<1> QED BY <1>1, <1>2 DEF InventoryInv

LEMMA InventoryStep == InventoryInv /\ [InventoryNext]_invVars => InventoryInv'
<1> SUFFICES ASSUME InventoryInv, [InventoryNext]_invVars PROVE InventoryInv'
  OBVIOUS
<1>1. /\ TreeOK /\ (run # NoRun => RunOK(run) /\ reports[run.tool] = NoReport) /\ DOMAIN reports = Tools
      /\ (\A t \in Tools : reports[t] # NoReport => ReportOK(reports[t], t))
      /\ (joined => \A t \in Tools : reports[t] # NoReport)
      /\ (joined => reports["cbom"].listing = reports["keys"].listing)
  BY DEF InventoryInv
<1>2. run.phase \in {"scan", "list"} => run # NoRun
  BY DEF NoRun
<1>3. ASSUME NEW tool \in Tools, Start(tool) PROVE InventoryInv'
  <2>1. run' = BeginRun(tool) /\ reports[tool] = NoReport /\ UNCHANGED <<holds, reports, joined>>
    BY <1>3 DEF Start
  <2>2. RunOK(run') /\ run'.tool = tool
    BY <2>1, BeginIsOK
  <2>3. TreeOK'
    BY <1>1, <2>1 DEF TreeOK
  <2> QED BY <1>1, <2>1, <2>2, <2>3 DEF InventoryInv
<1>4. CASE ScanFile \/ EndScan \/ ListFile
  <2>1. run # NoRun /\ UNCHANGED <<holds, reports, joined>>
    BY <1>2, <1>4 DEF ScanFile, EndScan, ListFile
  <2>2. RunOK(run') /\ run'.tool = run.tool
    BY <1>1, <1>4, <2>1, ScanFileOK, EndScanOK, ListFileOK
  <2>3. TreeOK'
    BY <1>1, <2>1 DEF TreeOK
  <2> QED BY <1>1, <2>1, <2>2, <2>3 DEF InventoryInv
<1>5. CASE Changed
  <2>1. run' = NoRun /\ UNCHANGED <<holds, reports, joined>>
    BY <1>5 DEF Changed
  <2>2. TreeOK'
    BY <1>1, <2>1 DEF TreeOK
  <2> QED BY <1>1, <2>1, <2>2 DEF InventoryInv
<1>6. CASE Issue
  <2>1. run # NoRun /\ run' = NoRun /\ UNCHANGED <<holds, joined>>
    BY <1>2, <1>6 DEF Issue
  <2>2. /\ DOMAIN reports' = Tools /\ run.tool \in Tools /\ ReportOK(reports'[run.tool], run.tool)
        /\ \A t \in Tools : t # run.tool => reports'[t] = reports[t]
    BY <1>1, <1>6, <2>1, IssueOK
  <2>3. ~joined'
    BY <1>1, <2>1, <2>2
  <2>4. TreeOK'
    BY <1>1, <2>1 DEF TreeOK
  <2>5. \A t \in Tools : reports'[t] # NoReport => ReportOK(reports'[t], t)
    BY <1>1, <2>2
  <2> QED BY <2>1, <2>2, <2>3, <2>4, <2>5 DEF InventoryInv
<1>7. CASE Join
  <2>1. /\ UNCHANGED <<holds, run, reports>> /\ reports["cbom"].listing = reports["keys"].listing
        /\ \A t \in Tools : reports[t] # NoReport
    BY <1>7 DEF Join, Joins
  <2>2. TreeOK'
    BY <1>1, <2>1 DEF TreeOK
  <2> QED BY <1>1, <2>1, <2>2 DEF InventoryInv
<1>8. CASE Change
  <2>1. UNCHANGED <<run, reports, joined>>
    BY <1>8 DEF Change
  <2>2. PICK f \in WalkedFiles : (\E c \in Holding(f) : holds' = [holds EXCEPT ![f] = c]) \/ holds' = holds
    BY <1>8 DEF Change
  <2>3. TreeOK'
    <3>1. CASE holds' = holds
      BY <1>1, <3>1 DEF TreeOK
    <3>2. CASE \E c \in Holding(f) : holds' = [holds EXCEPT ![f] = c]
      <4>1. PICK c \in Holding(f) : holds' = [holds EXCEPT ![f] = c]
        BY <3>2
      <4>2. c \in FileContents /\ (f \in TextNamed => c.units = "none")
        BY DEF Holding
      <4> QED BY <1>1, <4>1, <4>2 DEF TreeOK
    <3> QED BY <2>2, <3>1, <3>2
  <2> QED BY <1>1, <2>1, <2>3 DEF InventoryInv
<1>9. CASE UNCHANGED invVars
  <2>1. UNCHANGED <<holds, run, reports, joined>>
    BY <1>9 DEF invVars
  <2>2. TreeOK'
    BY <1>1, <2>1 DEF TreeOK
  <2> QED BY <1>1, <2>1, <2>2 DEF InventoryInv
<1> QED BY <1>3, <1>4, <1>5, <1>6, <1>7, <1>8, <1>9 DEF InventoryNext

LEMMA InventoryHolds == InventorySpec => []InventoryInv
<1> QED BY InventoryStart, InventoryStep, PTL DEF InventorySpec


(***************************************************************************)
(* What the invariant says of a report once it is issued.                  *)
(***************************************************************************)
LEMMA CbomReportIs ==
  ASSUME InventoryInv, Issued("cbom")
  PROVE  /\ CbomReport \in RunType /\ CbomFacts(CbomReport, WalkedFiles) /\ ListingFacts(CbomReport, WalkedFiles)
         /\ CbomReport.phase = CbomVerdict(CbomReport)
<1>1. "cbom" \in Tools
  BY DEF Tools
<1>2. ReportOK(CbomReport, "cbom")
  BY <1>1 DEF InventoryInv, Issued, CbomReport
<1> QED BY <1>2 DEF ReportOK, ToolFacts

LEMMA KeysReportIs ==
  ASSUME InventoryInv, Issued("keys")
  PROVE  /\ KeysReport \in RunType /\ KeysFacts(KeysReport, WalkedFiles) /\ ListingFacts(KeysReport, WalkedFiles)
         /\ KeysReport.phase = KeysVerdict(KeysReport)
<1>1. "keys" \in Tools
  BY DEF Tools
<1>2. ReportOK(KeysReport, "keys")
  BY <1>1 DEF InventoryInv, Issued, KeysReport
<1> QED BY <1>2 DEF ReportOK, ToolFacts

\* A file the subject digest names: opened, and read as one content.
LEMMA InTheTree ==
  ASSUME NEW r \in RunType, CbomFacts(r, WalkedFiles), NEW f \in TreeFiles(r)
  PROVE  f \in WalkedFiles \ TextNamed /\ \E e \in r.tree : e[1] = f /\ e[2] \in FileContents /\ r.seen[f] = e[2]
<1>1. PICK e \in r.tree : e[1] = f
  BY DEF TreeFiles
<1>2. e[2] \in FileContents
  BY RunFields
<1> QED BY <1>1, <1>2 DEF CbomFacts

LEMMA CbomIsClean == InventoryInv => CleanCbomReadAll
<1> SUFFICES ASSUME InventoryInv, Issued("cbom"), CbomReport.phase = "NOTHING-VULNERABLE-FOUND"
             PROVE  /\ \A f \in WalkedFiles \ TextNamed : CbomReport.seen[f] # NoVersion
                    /\ \A f \in WalkedFiles \ TextNamed :
                         \/ CbomReport.seen[f].units = "none"
                         \/ CbomReport.seen[f].units = "python" /\ CbomReport.seen[f].uses \subseteq {"SAFE"}
                    /\ \E f \in WalkedFiles \ TextNamed : CbomReport.seen[f].units = "python"
  BY DEF CleanCbomReadAll
<1> DEFINE r == CbomReport
<1>1. r \in RunType /\ CbomFacts(r, WalkedFiles) /\ r.phase = CbomVerdict(r) /\ r.phase = "NOTHING-VULNERABLE-FOUND"
  BY CbomReportIs
<1> HIDE DEF r
<1>2. /\ "BROKEN" \notin StatusesOf(r) /\ "VULNERABLE" \notin StatusesOf(r) /\ "REVIEW" \notin StatusesOf(r)
      /\ r.scanned # 0 /\ r.notParsed = {}
  BY <1>1 DEF CbomVerdict
<1>3. ASSUME NEW f \in TreeFiles(r)
      PROVE  /\ f \in WalkedFiles \ TextNamed /\ r.seen[f] # NoVersion
             /\ r.seen[f].units = "python" /\ r.seen[f].uses \subseteq {"SAFE"}
  <2>1. f \in WalkedFiles \ TextNamed /\ \E e \in r.tree : e[1] = f /\ e[2] \in FileContents /\ r.seen[f] = e[2]
    BY <1>1, InTheTree
  <2>2. PICK e \in r.tree : e[1] = f /\ e[2] \in FileContents /\ r.seen[f] = e[2]
    BY <2>1
  <2>3. e[2].units = "python"
    BY <1>1, <1>2, <2>2 DEF CbomFacts
  <2>4. ~Bad(e[2])
    BY <2>3 DEF Bad, NotDecoded
  <2>5. \A x \in e[2].uses : x \in StatusesOf(r)
    BY <1>1, <2>4 DEF CbomFacts
  <2>6. e[2].uses \subseteq Statuses /\ e[2] # NoVersion
    BY <2>2, ContentIs
  <2>7. e[2].uses \subseteq {"SAFE"}
    BY <1>2, <2>5, <2>6 DEF Statuses
  <2> QED BY <2>1, <2>2, <2>3, <2>6, <2>7
<1>4. ASSUME NEW f \in WalkedFiles \ TextNamed, f \notin TreeFiles(r)
      PROVE  r.seen[f] # NoVersion /\ r.seen[f].units = "none"
  BY <1>1, <1>2, <1>4 DEF CbomFacts
<1>5. TreeFiles(r) # {}
  BY <1>1, <1>2, FS_EmptySet DEF CbomFacts
<1>6. \E f \in WalkedFiles \ TextNamed : r.seen[f].units = "python"
  BY <1>3, <1>5
<1> QED BY <1>3, <1>4, <1>6 DEF r

LEMMA BrokenIsTold == InventoryInv => BrokenIsVerdict
<1> SUFFICES ASSUME InventoryInv, Issued("cbom")
             PROVE  (\E e \in CbomReport.tree : ~Bad(e[2]) /\ "BROKEN" \in e[2].uses) <=> CbomReport.phase = "BROKEN-CRYPTO"
  BY DEF BrokenIsVerdict
<1> DEFINE r == CbomReport
<1>1. CbomFacts(r, WalkedFiles) /\ r.phase = CbomVerdict(r)
  BY CbomReportIs
<1> HIDE DEF r
<1>2. "BROKEN" \in StatusesOf(r) <=> \E e \in r.tree : ~Bad(e[2]) /\ "BROKEN" \in e[2].uses
  BY <1>1 DEF CbomFacts
<1>3. r.phase = "BROKEN-CRYPTO" <=> "BROKEN" \in StatusesOf(r)
  BY <1>1 DEF CbomVerdict
<1> QED BY <1>2, <1>3 DEF r

LEMMA CountsOfFiles == InventoryInv => CountsAddUp
<1> DEFINE r == CbomReport
           T == TreeFiles(r)
           U == r.notParsed \ T
           N == {f \in WalkedFiles : f \in TextNamed \/ (f \notin r.notParsed /\ r.seen[f].units = "none")}
<1> SUFFICES ASSUME InventoryInv, Issued("cbom")
             PROVE  r.unreadable = Cardinality(U) /\ FilesNotPython(r) = Cardinality(N)
  BY DEF CountsAddUp, TreeFiles
<1>1. r \in RunType /\ CbomFacts(r, WalkedFiles)
  BY CbomReportIs
<1> HIDE DEF r
<1>2. r.unreadable = Cardinality(U) /\ r.scanned = Cardinality(T)
  BY <1>1 DEF CbomFacts
<1>3. T \subseteq WalkedFiles \ TextNamed /\ r.notParsed \subseteq WalkedFiles \ TextNamed
  BY <1>1 DEF CbomFacts
<1>4. \A f \in T : r.seen[f].units # "none"
  <2>1. ASSUME NEW f \in T PROVE r.seen[f].units # "none"
    <3>1. PICK e \in r.tree : e[1] = f
      BY DEF TreeFiles
    <3> QED BY <1>1, <3>1 DEF CbomFacts
  <2> QED BY <2>1
<1>5. \A f \in WalkedFiles \ TextNamed : f \in T \/ f \in r.notParsed \/ r.seen[f].units = "none"
  BY <1>1 DEF CbomFacts
<1>6. N = WalkedFiles \ (T \cup U)
  <2> HIDE DEF T
  <2> QED BY <1>3, <1>4, <1>5
<1>7. T \cap U = {} /\ T \in SUBSET WalkedFiles /\ U \in SUBSET WalkedFiles
  BY <1>3
<1> HIDE DEF T, U, N
<1>8. /\ IsFiniteSet(T) /\ IsFiniteSet(U) /\ IsFiniteSet(WalkedFiles) /\ Cardinality(WalkedFiles) = Len(Listing)
      /\ Cardinality(T) \in Nat /\ Cardinality(U) \in Nat /\ Len(Listing) \in Nat
  BY <1>7, WalkFinite, WalkIs, FS_Subset, FS_CardinalityType
<1>9. Cardinality(T \cup U) = Cardinality(T) + Cardinality(U) /\ T \cup U \in SUBSET WalkedFiles /\ IsFiniteSet(T \cup U)
  <2>1. Cardinality(T \cup U) = Cardinality(T) + Cardinality(U) - Cardinality(T \cap U) /\ IsFiniteSet(T \cup U)
    BY <1>8, FS_Union
  <2>2. Cardinality(T \cap U) = 0
    BY <1>7, FS_EmptySet
  <2> QED BY <1>7, <1>8, <2>1, <2>2
<1>10. Cardinality(N) = Len(Listing) - (Cardinality(T) + Cardinality(U))
  <2> DEFINE X == T \cup U
  <2>1. WalkedFiles \cap X = X
    BY <1>9
  <2> HIDE DEF X
  <2>2. Cardinality(WalkedFiles \ X) = Cardinality(WalkedFiles) - Cardinality(WalkedFiles \cap X)
    BY <1>8, FS_Difference
  <2> QED BY <1>6, <1>8, <1>9, <2>1, <2>2 DEF X
<1>11. FilesNotPython(r) = Cardinality(N)
  BY <1>2, <1>8, <1>10 DEF FilesNotPython
<1> QED BY <1>2, <1>11

LEMMA KeysAreClean == InventoryInv => CleanKeysReadSome
<1> SUFFICES ASSUME InventoryInv, Issued("keys"), KeysReport.phase = "NOTHING-FOUND"
             PROVE  /\ \E f \in WalkedFiles \ KeysReport.tooLarge : KeysReport.seen[f].text \in {"clean", "partial"}
                    /\ \A f \in WalkedFiles :
                         \/ f \in KeysReport.tooLarge \cup KeysReport.notOpened \cup KeysReport.partly
                         \/ KeysReport.seen[f] # NoVersion /\ KeysReport.seen[f].text = "clean"
  BY DEF CleanKeysReadSome
<1> DEFINE r == KeysReport
           B == r.notOpened \cup r.readNothing
<1>1. r \in RunType /\ KeysFacts(r, WalkedFiles) /\ r.phase = KeysVerdict(r) /\ r.phase = "NOTHING-FOUND"
  BY KeysReportIs
<1> HIDE DEF r
<1>2. r.found = {} /\ r.notParsed = {} /\ ~(r.scanned <= Cardinality(B))
  BY <1>1 DEF KeysVerdict
<1>3. \A f \in WalkedFiles : f \in r.tooLarge \/ TextTold(r, f)
  BY <1>1, <1>2 DEF KeysFacts
<1>4. PICK R \in SUBSET WalkedFiles : r.scanned = Cardinality(R) /\ \A f \in R : f \notin r.tooLarge /\ r.seen[f] # NoVersion
  BY <1>1 DEF KeysFacts
<1>5. B \in SUBSET WalkedFiles
  BY <1>1, RunFields
<1>6. ~(R \subseteq B)
  <2> HIDE DEF B
  <2>1. IsFiniteSet(B)
    BY <1>5, WalkFinite, FS_Subset
  <2>2. R \subseteq B => Cardinality(R) <= Cardinality(B)
    BY <2>1, FS_Subset
  <2> QED BY <1>2, <1>4, <2>2
<1>7. PICK f \in R : f \notin B
  BY <1>6
<1>8. r.seen[f].text \in {"clean", "partial"} /\ f \in WalkedFiles \ r.tooLarge
  BY <1>3, <1>4, <1>7 DEF TextTold
<1>9. \A g \in WalkedFiles :
        \/ g \in r.tooLarge \cup r.notOpened \cup r.partly
        \/ r.seen[g] # NoVersion /\ r.seen[g].text = "clean"
  BY <1>3 DEF TextTold
<1> QED BY <1>8, <1>9 DEF r

LEMMA DigestIsRead == InventoryInv => DigestIsWhatWasRead
<1> SUFFICES ASSUME InventoryInv, Issued("cbom"), NEW e \in CbomReport.tree
             PROVE  CbomReport.seen[e[1]] = e[2] /\ CbomReport.listing[e[1]] \in {e[2], Locked}
  BY DEF DigestIsWhatWasRead
<1> DEFINE r == CbomReport
<1>1. CbomFacts(r, WalkedFiles) /\ ListingFacts(r, WalkedFiles)
  BY CbomReportIs
<1> HIDE DEF r
<1>2. e \in r.tree
  BY DEF r
<1>3. e[1] \in TreeFiles(r) /\ r.seen[e[1]] = e[2]
  BY <1>1, <1>2 DEF CbomFacts, TreeFiles
<1>4. e[1] \in WalkedFiles
  BY <1>1, <1>3 DEF CbomFacts
<1>5. r.listing[e[1]] \in {e[2], Locked}
  BY <1>1, <1>3, <1>4 DEF ListingFacts
<1> QED BY <1>3, <1>5 DEF r

LEMMA JoinedTree == InventoryInv => JoinedIsOneTree
<1> SUFFICES ASSUME InventoryInv, joined, \A f \in WalkedFiles : CbomReport.listing[f] # Locked, NEW f \in WalkedFiles
             PROVE  CbomReport.seen[f] = KeysReport.seen[f]
  BY DEF JoinedIsOneTree, SameFiles
<1>1. Issued("cbom") /\ Issued("keys") /\ CbomReport.listing = KeysReport.listing
  BY DEF InventoryInv, Issued, CbomReport, KeysReport, Tools
<1>2. ListingFacts(CbomReport, WalkedFiles) /\ ListingFacts(KeysReport, WalkedFiles)
  BY <1>1, CbomReportIs, KeysReportIs
<1> QED BY <1>1, <1>2 DEF ListingFacts

(***************************************************************************)
(* Whatever the tree holds and whoever rewrites or locks its files while   *)
(* the runs read it: a clean verdict of either inventory rests on files    *)
(* that were read, a broken primitive always decides the CBOM's verdict,   *)
(* and the three counts add up to the walk (_build_cbom, cbom.py;          *)
(* _scan_key_provenance, key_provenance.py).                               *)
(***************************************************************************)
THEOREM VerdictsAreAlwaysEarned == InventorySpec => []VerdictsAreEarned
<1>1. InventoryInv => VerdictsAreEarned
  BY CbomIsClean, BrokenIsTold, CountsOfFiles, KeysAreClean DEF VerdictsAreEarned
<1> QED BY <1>1, InventoryHolds, PTL

(***************************************************************************)
(* What the CBOM's subject digest names is what its uses were found in and *)
(* what its listing names; and a VEX or CSAF document joined from the two  *)
(* reports speaks of one version of every file (tree_listing_digest,       *)
(* vex.main, csaf.main).                                                   *)
(***************************************************************************)
THEOREM OneTreeIsAlwaysRead == InventorySpec => []OneTreeRead
<1>1. InventoryInv => OneTreeRead
  BY DigestIsRead, JoinedTree DEF OneTreeRead
<1> QED BY <1>1, InventoryHolds, PTL
=============================================================================
