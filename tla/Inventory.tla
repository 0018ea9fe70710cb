------------------------------ MODULE Inventory ------------------------------
(***************************************************************************)
(* The CBOM's run over a tree (cbom.py) and the key-provenance run         *)
(* (key_provenance.py), file by file, while somebody else rewrites, locks  *)
(* and unlocks files; then vex.py and csaf.py join the two reports.  Both  *)
(* runs read a file as one version (AuditRun shows it); a content is what  *)
(* the tools tell about the bytes.                                         *)
(***************************************************************************)
EXTENDS Naturals, FiniteSets, Sequences

CONSTANTS
  Listing,       \* the files of the tree, in the order the walk gives them
  TextNamed,     \* those whose name says they are not Python: not opened to see
  FileContents,  \* records: units, uses, text (see below)
  Locked,        \* a digest of what could not be opened
  NoVersion,
  MaxChanges     \* bound on what somebody else does during the runs

(* units: what python_units says of the content.                            *)
(*   "none" no Python; "python"; "unparsable" units that do not parse;       *)
(*   "undecodable", "brokenNotebook", "otherKernel" a ValueError.            *)
(* uses: the statuses of the uses the CBOM's readers find; of this tool's     *)
(*   own source, those of the syntax tree only (self_scan_suppressed).       *)
(* text: what the key run finds: "clean", "key", "large", "deepJson",        *)
(*   "unopened", "partial", "nothingRead" (archives, module Containers).     *)
NotDecoded == {"undecodable", "brokenNotebook", "otherKernel"}
Units == {"none", "python", "unparsable"} \cup NotDecoded
Statuses == {"BROKEN", "VULNERABLE", "REVIEW", "SAFE"}
PythonTexts == {"clean", "key"}
FileTexts == PythonTexts \cup {"large", "deepJson", "unopened", "partial", "nothingRead"}

NoFileYet == "no file"
WalkedFiles == {Listing[i] : i \in DOMAIN Listing}

ASSUME ListingAssumption ==
  /\ Listing \in Seq(WalkedFiles)
  /\ \A i, j \in 1..Len(Listing) : Listing[i] = Listing[j] => i = j
  /\ NoFileYet \notin WalkedFiles
ASSUME FileContentsAssumption ==
  /\ FileContents \subseteq [units : Units, uses : SUBSET Statuses, text : FileTexts]
  /\ \A c \in FileContents : c.units # "none" => c.text \in PythonTexts
  /\ NoVersion \notin FileContents /\ Locked \notin FileContents /\ Locked # NoVersion

Tools == {"cbom", "keys"}

VARIABLES
  holds,     \* what is in each file
  locked,    \* the files an open fails on
  keyNamed,  \* the files named like key material
  run,       \* the run going on: tool, phase, at, seen, last, and what it has counted
  reports,   \* the report of each tool, once issued
  joined,    \* a document was made from both reports
  changes

invVars == <<holds, locked, keyNamed, run, reports, joined, changes>>

NoRun == [phase |-> "none"]
NoReport == [none |-> TRUE]

BeginRun(tool) ==
  [phase |-> "scan", tool |-> tool, at |-> 1, last |-> NoFileYet,
   seen |-> [f \in WalkedFiles |-> NoVersion], listing |-> [f \in WalkedFiles |-> NoVersion],
   scanned |-> 0, unreadable |-> 0, notParsed |-> {}, uses |-> {}, tree |-> {},
   found |-> {}, tooLarge |-> {}, notOpened |-> {}, readNothing |-> {}, partly |-> {}]

(* python_units does not open a file whose name says it holds no Python.     *)
Holding(f) == {c \in FileContents : f \in TextNamed => c.units = "none"}

Bad(c) == c.units \in NotDecoded

-----------------------------------------------------------------------------
(* _build_cbom, one file. *)

NotPython(f, c) == c.units = "none" /\ (f \in TextNamed \/ f \notin locked)
CannotOpen(f) == f \in locked \ TextNamed

(* Fault in CbomFile: armour in a file that does not parse is not looked at. *)
CbomSkipsUnparsed(r, f, c) ==
  IF NotPython(f, c) THEN r
  ELSE IF CannotOpen(f) THEN [r EXCEPT !.unreadable = @ + 1, !.notParsed = @ \cup {f}]
  ELSE [r EXCEPT !.scanned = @ + 1, !.tree = @ \cup {<<f, c>>},
                 !.notParsed = IF c.units = "python" THEN @ ELSE @ \cup {f},
                 !.uses = IF c.units = "python" THEN @ \cup {<<f, u>> : u \in c.uses} ELSE @]

CbomFile(r, f, c) ==
  IF NotPython(f, c) THEN r
  ELSE IF CannotOpen(f) THEN [r EXCEPT !.unreadable = @ + 1, !.notParsed = @ \cup {f}]
  ELSE [r EXCEPT !.scanned = @ + 1, !.tree = @ \cup {<<f, c>>},
                 !.notParsed = IF c.units = "python" THEN @ ELSE @ \cup {f},
                 !.uses = IF Bad(c) THEN @ ELSE @ \cup {<<f, u>> : u \in c.uses}]

StatusesOf(r) == {u[2] : u \in r.uses}

(* Fault in CbomVerdict: what was not parsed does not count. *)
CbomVerdictOfParsed(r) ==
  IF "BROKEN" \in StatusesOf(r) THEN "BROKEN-CRYPTO"
  ELSE IF "VULNERABLE" \in StatusesOf(r) THEN "MIGRATION-NEEDED"
  ELSE IF r.scanned = 0 THEN "NOT-ANALYSED"
  ELSE IF "REVIEW" \in StatusesOf(r) THEN "REVIEW-NEEDED" ELSE "NOTHING-VULNERABLE-FOUND"

CbomVerdict(r) ==
  IF "BROKEN" \in StatusesOf(r) THEN "BROKEN-CRYPTO"
  ELSE IF "VULNERABLE" \in StatusesOf(r) THEN "MIGRATION-NEEDED"
  ELSE IF r.scanned = 0 THEN "NOT-ANALYSED"
  ELSE IF "REVIEW" \in StatusesOf(r) \/ r.notParsed # {} THEN "REVIEW-NEEDED" ELSE "NOTHING-VULNERABLE-FOUND"

(* not_scanned.files_not_python.  Fault: files that could not be opened are  *)
(* taken for files of another language.                                      *)
NotPythonOrLocked(r) == Len(Listing) - r.scanned
FilesNotPython(r) == (Len(Listing) - r.scanned) - r.unreadable

-----------------------------------------------------------------------------
(* _scan_key_provenance, one file. *)

(* _scan_key_files: a file that is not Python.  An archive is counted read.  *)
KeyFile(r, f, c) ==
  LET named == f \in keyNamed
      finding == IF c.text = "key" \/ named THEN {f} ELSE {}
      cannotOpen == [r EXCEPT !.notParsed = @ \cup {f}, !.found = IF named THEN @ \cup {f} ELSE @]
  IN  IF c.text = "large"      \* judged by its size: neither opened nor read
      THEN [r EXCEPT !.found = @ \cup finding, !.tooLarge = IF named THEN @ ELSE @ \cup {f}]
      ELSE IF f \in locked THEN cannotOpen
      ELSE [r EXCEPT !.scanned = @ + 1, !.found = @ \cup finding,
                     !.notParsed = IF c.text = "deepJson" THEN @ \cup {f} ELSE @,
                     !.notOpened = IF c.text = "unopened" THEN @ \cup {f} ELSE @,
                     !.partly = IF c.text \in {"partial", "nothingRead"} THEN @ \cup {f} ELSE @,
                     !.readNothing = IF c.text = "nothingRead" THEN @ \cup {f} ELSE @]

KeysFile(r, f, c) ==
  IF NotPython(f, c) THEN KeyFile(r, f, c)
  ELSE IF CannotOpen(f) THEN
    [r EXCEPT !.notParsed = @ \cup {f}, !.found = IF f \in keyNamed THEN @ \cup {f} ELSE @]
  ELSE [r EXCEPT !.scanned = @ + 1, !.notParsed = IF c.units = "python" THEN @ ELSE @ \cup {f},
                 !.found = IF c.text = "key" /\ c.units \in {"python", "otherKernel"} THEN @ \cup {f} ELSE @]

(* Fault in KeysVerdict: an archive nothing was read of counts as read.      *)
KeysVerdictOpened(r) ==
  IF r.found # {} \/ r.notParsed # {} THEN "REVIEW"
  ELSE IF r.scanned <= Cardinality(r.notOpened) THEN "NOT-ANALYSED" ELSE "NOTHING-FOUND"

KeysVerdict(r) ==
  IF r.found # {} \/ r.notParsed # {} THEN "REVIEW"
  ELSE IF r.scanned <= Cardinality(r.notOpened \cup r.readNothing) THEN "NOT-ANALYSED" ELSE "NOTHING-FOUND"

-----------------------------------------------------------------------------
InventoryInit ==
        /\ holds \in {d \in [WalkedFiles -> FileContents] : \A f \in WalkedFiles : d[f] \in Holding(f)}
        /\ locked = {} /\ keyNamed \in SUBSET TextNamed
        /\ run = NoRun /\ reports = [t \in Tools |-> NoReport] /\ joined = FALSE /\ changes = 0

Start(tool) == /\ run = NoRun /\ reports[tool] = NoReport
               /\ run' = BeginRun(tool)
               /\ UNCHANGED <<holds, locked, keyNamed, reports, joined, changes>>

Scanned(r, f, c) == IF r.tool = "cbom" THEN CbomFile(r, f, c) ELSE KeysFile(r, f, c)

(* One file of the walk: read once, so analysed and digested as one version. *)
Opened(tool, f, c) ==
  /\ f \notin locked
  /\ f \in TextNamed => tool = "keys" /\ c.text # "large"

ScanFile ==
  /\ run.phase = "scan" /\ run.at <= Len(Listing)
  /\ LET f == Listing[run.at]
         c == holds[f]
         r == Scanned(run, f, c)
     IN  run' = IF Opened(run.tool, f, c) THEN [r EXCEPT !.at = @ + 1, !.seen[f] = c, !.last = f]
                ELSE [r EXCEPT !.at = @ + 1]
  /\ UNCHANGED <<holds, locked, keyNamed, reports, joined, changes>>

EndScan == /\ run.phase = "scan" /\ run.at > Len(Listing)
           /\ run' = [run EXCEPT !.phase = "list", !.at = 1]
           /\ UNCHANGED <<holds, locked, keyNamed, reports, joined, changes>>

(* tree_listing_digest: every file once more, from memory if it was the last *)
(* one read; another version than the run's stops the run.                   *)
ListedAs(r, f) == IF r.last = f THEN r.seen[f] ELSE IF f \in locked THEN Locked ELSE holds[f]

(* Fault in ChangedSince: the listing takes whatever is there now. *)
NeverChanged(r, f) == FALSE
ChangedSince(r, f) == r.last # f /\ f \notin locked /\ r.seen[f] \notin {NoVersion, holds[f]}

ListFile ==
  /\ run.phase = "list" /\ run.at <= Len(Listing)
  /\ LET f == Listing[run.at] IN
     /\ ~ChangedSince(run, f)
     /\ run' = [run EXCEPT !.at = @ + 1, !.listing[f] = ListedAs(run, f),
                           !.seen[f] = IF ListedAs(run, f) = Locked THEN @ ELSE ListedAs(run, f),
                           !.last = IF ListedAs(run, f) = Locked THEN @ ELSE f]
  /\ UNCHANGED <<holds, locked, keyNamed, reports, joined, changes>>

Changed == /\ run.phase = "list" /\ run.at <= Len(Listing) /\ ChangedSince(run, Listing[run.at])
           /\ run' = NoRun                                          \* exit 2, no report
           /\ UNCHANGED <<holds, locked, keyNamed, reports, joined, changes>>

Issue == /\ run.phase = "list" /\ run.at > Len(Listing)
         /\ reports' = [reports EXCEPT ![run.tool] =
              [run EXCEPT !.phase = IF run.tool = "cbom" THEN CbomVerdict(run) ELSE KeysVerdict(run)]]
         /\ run' = NoRun
         /\ UNCHANGED <<holds, locked, keyNamed, joined, changes>>

(* vex.main, csaf.main.  Fault in Joins: the listings are not compared. *)
JoinsByName(c, k) == c.phase # "NOT-ANALYSED" /\ k.phase # "NOT-ANALYSED"
Joins(c, k) == c.listing = k.listing /\ c.phase # "NOT-ANALYSED" /\ k.phase # "NOT-ANALYSED"

Join == /\ \A t \in Tools : reports[t] # NoReport
        /\ ~joined /\ Joins(reports["cbom"], reports["keys"])
        /\ joined' = TRUE
        /\ UNCHANGED <<holds, locked, keyNamed, run, reports, changes>>

(* Somebody else. *)
Change == /\ changes < MaxChanges /\ changes' = changes + 1
          /\ \E f \in WalkedFiles :
               \/ /\ \E c \in Holding(f) \ {holds[f]} : holds' = [holds EXCEPT ![f] = c]
                  /\ UNCHANGED locked
               \/ /\ locked' = IF f \in locked THEN locked \ {f} ELSE locked \cup {f}
                  /\ UNCHANGED holds
          /\ UNCHANGED <<keyNamed, run, reports, joined>>

InventoryNext ==
        \/ \E tool \in Tools : Start(tool)
        \/ ScanFile \/ EndScan \/ ListFile \/ Changed \/ Issue \/ Join \/ Change

InventorySpec == InventoryInit /\ [][InventoryNext]_invVars

-----------------------------------------------------------------------------
Issued(tool) == reports[tool] # NoReport
CbomReport == reports["cbom"]
KeysReport == reports["keys"]

(* NOTHING-VULNERABLE-FOUND: some Python was read, and every file that may   *)
(* hold Python was opened, and holds none or parsed with no use to classify. *)
CleanCbomReadAll ==
  Issued("cbom") /\ CbomReport.phase = "NOTHING-VULNERABLE-FOUND" =>
    /\ \A f \in WalkedFiles \ TextNamed : CbomReport.seen[f] # NoVersion
    /\ \A f \in WalkedFiles \ TextNamed :
         \/ CbomReport.seen[f].units = "none"
         \/ CbomReport.seen[f].units = "python" /\ CbomReport.seen[f].uses \subseteq {"SAFE"}
    /\ \E f \in WalkedFiles \ TextNamed : CbomReport.seen[f].units = "python"

(* Whatever else a tree holds, a broken primitive the readers find makes the *)
(* verdict BROKEN-CRYPTO: also armour in a file that does not parse.         *)
BrokenIsVerdict ==
  Issued("cbom") =>
    ((\E e \in CbomReport.tree : ~Bad(e[2]) /\ "BROKEN" \in e[2].uses) <=> CbomReport.phase = "BROKEN-CRYPTO")

(* Every file of the walk is accounted for once: read as Python, not opened, *)
(* or counted as not Python, and what is counted so is what is not Python.   *)
CountsAddUp ==
  Issued("cbom") =>
    /\ CbomReport.unreadable = Cardinality(CbomReport.notParsed \ {e[1] : e \in CbomReport.tree})
    /\ FilesNotPython(CbomReport) =
         Cardinality({f \in WalkedFiles : f \in TextNamed \/ (f \notin CbomReport.notParsed /\ CbomReport.seen[f].units = "none")})

(* NOTHING-FOUND: something other than an unopened archive was read, every   *)
(* file was opened, and none holds a key or is named like one.               *)
CleanKeysReadSome ==
  Issued("keys") /\ KeysReport.phase = "NOTHING-FOUND" =>
    /\ \E f \in WalkedFiles \ KeysReport.tooLarge : KeysReport.seen[f].text \in {"clean", "partial"}
    /\ \A f \in WalkedFiles :
         \/ f \in KeysReport.tooLarge \cup KeysReport.notOpened \cup KeysReport.partly
         \/ KeysReport.seen[f] # NoVersion /\ KeysReport.seen[f].text = "clean"

(* The version of a file the subject digest names is the one the uses were   *)
(* found in and the one the listing names.                                   *)
DigestIsWhatWasRead ==
  Issued("cbom") => \A e \in CbomReport.tree : CbomReport.seen[e[1]] = e[2] /\ CbomReport.listing[e[1]] \in {e[2], Locked}

(* A document joined from both reports speaks of one tree: no file that both *)
(* listings could open was read in two versions.                             *)
SameFiles == \A f \in WalkedFiles : CbomReport.seen[f] = KeysReport.seen[f] \/ NoVersion \in {CbomReport.seen[f], KeysReport.seen[f]}
JoinedIsOneTree ==
  joined /\ (\A f \in WalkedFiles : CbomReport.listing[f] # Locked) => SameFiles

(* A clean verdict rests on files that were read, a broken use always shows, *)
(* and each file is counted once.                                            *)
VerdictsAreEarned == CleanCbomReadAll /\ BrokenIsVerdict /\ CountsAddUp /\ CleanKeysReadSome

(* What is digested is what was analysed, and a document joined from two     *)
(* reports is about one tree.                                                *)
OneTreeRead == DigestIsWhatWasRead /\ JoinedIsOneTree
=============================================================================
