-------------------------------- MODULE Sarif --------------------------------
(***************************************************************************)
(* sarif.py gives every finding of a report an identity that must survive  *)
(* the next edit of the source.  The source here is what the auditor finds *)
(* in it: rule, file, message and line of each finding.  Somebody adds     *)
(* code with findings, adds and deletes lines without, and the report is   *)
(* converted again.                                                        *)
(***************************************************************************)
EXTENDS Naturals, Sequences, FiniteSets

CONSTANTS Rules, Sources, Details,
          LastLine,        \* the last line of a file
          MaxFindings   \* bound on findings

ASSUME LinesAssumption == LastLine \in Nat

VARIABLE findings       \* the report's findings, in its order

Notebook(file) == file = "notebook"
Key(f) == <<f.kind, f.file, f.detail>>

-----------------------------------------------------------------------------
(* to_sarif: among results of one rule, file and message the order in the    *)
(* file tells them apart; on one line, the order in the report.              *)

(* Faults in Occurrence: results of one line are not told apart; the line is *)
(* part of the identity.                                                     *)
OccurrenceByLine(fs, i) ==
  Cardinality({fs[j].line : j \in {k \in 1..Len(fs) : Key(fs[k]) = Key(fs[i]) /\ fs[k].line < fs[i].line}})
LineAsOccurrence(fs, i) ==
  fs[i].line + Cardinality({j \in 1..Len(fs) : Key(fs[j]) = Key(fs[i]) /\ fs[j].line = fs[i].line /\ j < i})

Occurrence(fs, i) ==
  Cardinality({j \in 1..Len(fs) :
    /\ Key(fs[j]) = Key(fs[i])
    /\ fs[j].line < fs[i].line \/ (fs[j].line = fs[i].line /\ j < i)})

Fingerprint(fs, i) == <<Key(fs[i]), Occurrence(fs, i)>>

Location(f) ==
  [file |-> f.file,
   startLine |-> IF Notebook(f.file) THEN 0 ELSE f.line,    \* 0: no region
   cell |-> IF Notebook(f.file) THEN f.line ELSE 0]

Result(fs, i) == [ruleId |-> fs[i].kind, text |-> fs[i].detail, at |-> Location(fs[i]), fp |-> Fingerprint(fs, i)]
ToSarif(fs) == [i \in 1..Len(fs) |-> Result(fs, i)]

-----------------------------------------------------------------------------
SarifInit == findings = <<>>

Put(fs, i, f) == SubSeq(fs, 1, i) \o <<f>> \o SubSeq(fs, i + 1, Len(fs))

(* A report lists the findings of a file in the order its readers met them.  *)
Write == /\ Len(findings) < MaxFindings
         /\ \E kind \in Rules, file \in Sources, detail \in Details, line \in 0..LastLine, i \in 0..Len(findings) :
              findings' = Put(findings, i, [kind |-> kind, file |-> file, detail |-> detail, line |-> line])

Fix == \E i \in 1..Len(findings) : findings' = SubSeq(findings, 1, i - 1) \o SubSeq(findings, i + 1, Len(findings))

(* A finding about a whole file has line 0.                                  *)
Moved(f, file, line, by) ==
  IF f.file = file /\ f.line >= line THEN [f EXCEPT !.line = @ + by] ELSE f

InsertLine ==
  \E file \in Sources, line \in 1..LastLine :
    LET fs == [i \in 1..Len(findings) |-> Moved(findings[i], file, line, 1)]
    IN  (\A i \in 1..Len(fs) : fs[i].line <= LastLine) /\ findings' = fs

DeleteLine ==     \* one without findings
  \E file \in Sources, line \in 1..LastLine :
    /\ \A i \in 1..Len(findings) : findings[i].file # file \/ findings[i].line # line
    /\ findings' = [i \in 1..Len(findings) |->
         IF findings[i].file = file /\ findings[i].line > line
         THEN [findings[i] EXCEPT !.line = @ - 1] ELSE findings[i]]

SarifNext == Write \/ Fix \/ InsertLine \/ DeleteLine
SarifSpec == SarifInit /\ [][SarifNext]_findings

-----------------------------------------------------------------------------
Sarif == ToSarif(findings)
Fps(sarif) == [i \in DOMAIN sarif |-> sarif[i].fp]

(* No two results of one log share a fingerprint: a code-scanning view would *)
(* show one of them and hide the other.                                      *)
NoneMerged == \A i, j \in 1..Len(findings) : Sarif[i].fp = Sarif[j].fp => i = j

(* A line put in or taken out closes no alert and opens none: every result   *)
(* keeps its fingerprint.                                                    *)
KeepsIdentity == InsertLine \/ DeleteLine => Fps(ToSarif(findings)) = Fps(ToSarif(findings))'

(* Fixing one finding closes exactly one alert: the fingerprints left are    *)
(* those there were, but for one of the same rule, file and message.         *)
FpSet(fs) == {Fingerprint(fs, i) : i \in 1..Len(fs)}
ClosesOne ==
  Fix => FpSet(findings)' \subseteq FpSet(findings) /\ Cardinality(FpSet(findings) \ FpSet(findings)') = 1

(* Alerts keep apart and keep their identity under edits, and a fix closes one. *)
AlertsKept == [][NoneMerged' /\ KeepsIdentity /\ ClosesOne]_findings
=============================================================================
