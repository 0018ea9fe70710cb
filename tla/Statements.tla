----------------------------- MODULE Statements -----------------------------
(***************************************************************************)
(* From a CBOM to the documents others read: a CycloneDX inventory with a  *)
(* component for each use (cyclonedx.py), VEX statements, one for each     *)
(* weakness and primitive (vex.py), and the same as a CSAF advisory with a *)
(* tracking id (csaf.py).  The tree changes between runs, scans run under  *)
(* an old or a new Python, and every run writes to one output path.        *)
(***************************************************************************)
EXTENDS Naturals, FiniteSets, FiniteSetsExt

CONSTANTS
  PythonFiles,
  NewSyntax,    \* files an old Python cannot parse
  Sites,        \* what a file may hold: [line, prim, status]
  Publishers,
  MaxRuns       \* bound on edits, scans and conversions

ASSUME StatementsAssumption == IsFiniteSet(PythonFiles) /\ IsFiniteSet(Sites)

VARIABLES
  tree,      \* the sites in each file
  cbom,      \* the CBOM on disk
  out,       \* the document at the output path
  shown,     \* every advisory written so far
  exit,      \* exit code of the last command
  runs

statementVars == <<tree, cbom, out, shown, exit, runs>>
NoDoc == [kind |-> "none"]

-----------------------------------------------------------------------------
(* cbom.py: uses, each once, and the files it could not parse; the subject   *)
(* digest binds the bytes of the files, whether they parsed or not.          *)
Uses(files) == UNION {{[file |-> f, line |-> s.line, prim |-> s.prim, status |-> s.status] : s \in tree[f]} : f \in files}

Cbom(unparsed) ==
  [uses |-> Uses(PythonFiles \ unparsed), subject |-> tree, unparsed |-> unparsed]

-----------------------------------------------------------------------------
(* vex.py *)

CWE_MAP == [BROKEN |-> 327, VULNERABLE |-> 327, WEAK_RNG |-> 338]

(* Faults in Hits: a file is counted once; in Class: only the weakness.      *)
HitsByFile(uses, class) ==
  {CHOOSE u \in uses : u.file = f /\ u.status \in DOMAIN CWE_MAP /\ <<CWE_MAP[u.status], u.prim>> = class :
     f \in {u.file : u \in {v \in uses : v.status \in DOMAIN CWE_MAP /\ <<CWE_MAP[v.status], v.prim>> = class}}}
Hits(uses, class) == {u \in uses : u.status \in DOMAIN CWE_MAP /\ <<CWE_MAP[u.status], u.prim>> = class}

Statement(uses, class) ==
  LET hits == Hits(uses, class)
  IN  [cwe |-> class[1], prim |-> class[2], sites |-> Cardinality(hits), files |-> Cardinality({u.file : u \in hits})]

KeyStatement == [cwe |-> 798, prim |-> "key material", sites |-> 0, files |-> 0]

(* Fault in ToVex: what is to be reviewed is stated as a weakness too.       *)
ToVexOfAll(rep, keys) ==
  {Statement(rep.uses, class) : class \in {<<327, u.prim>> : u \in rep.uses}}
    \cup (IF keys THEN {KeyStatement} ELSE {})
ToVex(rep, keys) ==
  {Statement(rep.uses, class) : class \in {<<CWE_MAP[u.status], u.prim>> : u \in {v \in rep.uses : v.status \in DOMAIN CWE_MAP}}}
    \cup (IF keys THEN {KeyStatement} ELSE {})

-----------------------------------------------------------------------------
(* csaf.py *)

(* Faults in TrackingId: the tree is left out, the statements are.           *)
IdOfStatements(rep, keys) == <<{}, ToVex(rep, keys)>>
IdOfTree(rep, keys) == <<rep.subject, {}>>
TrackingId(rep, keys) == <<rep.subject, ToVex(rep, keys)>>

ToCsaf(rep, keys, publisher) ==
  [kind |-> "csaf", id |-> TrackingId(rep, keys), statements |-> ToVex(rep, keys), subject |-> rep.subject,
   publisher |-> publisher, notParsed |-> rep.unparsed]

-----------------------------------------------------------------------------
(* cyclonedx.py *)
BomRef(u) == <<u.prim, u.file, u.line>>
Component(u) == [ref |-> BomRef(u), status |-> u.status]
ToCycloneDX(rep) == [kind |-> "cyclonedx", components |-> {Component(u) : u \in rep.uses}]

-----------------------------------------------------------------------------
StatementsInit ==
  /\ tree = [f \in PythonFiles |-> {}]
  /\ cbom = Cbom({})
  /\ out = NoDoc /\ shown = {} /\ exit = 0 /\ runs = 0

Ran == runs < MaxRuns /\ runs' = runs + 1

EditTree ==
  /\ Ran
  /\ \E f \in PythonFiles, s \in Sites :
       tree' = [tree EXCEPT ![f] = IF s \in @ THEN @ \ {s} ELSE @ \cup {s}]
  /\ UNCHANGED <<cbom, out, shown, exit>>

ScanTree ==
  /\ Ran
  /\ \E unparsed \in {{}, NewSyntax} : cbom' = Cbom(unparsed)
  /\ exit' = 0
  /\ UNCHANGED <<tree, out, shown>>

Vex(keys) ==
  /\ Ran
  /\ out' = [kind |-> "vex", statements |-> ToVex(cbom, keys)]
  /\ exit' = 0
  /\ UNCHANGED <<tree, cbom, shown>>

(* Nothing to state: nothing is written, and a document an earlier run left  *)
(* at the output path is an error.                                           *)
(* Fault in NothingStated: the exit code is that of a run that wrote.        *)
NothingStatedAtAll == exit' = 0 /\ UNCHANGED <<out, shown>>
NothingStated == exit' = (IF out = NoDoc THEN 0 ELSE 2) /\ UNCHANGED <<out, shown>>

Csaf(keys, publisher) ==
  /\ Ran
  /\ IF ToVex(cbom, keys) = {} THEN NothingStated
     ELSE /\ out' = ToCsaf(cbom, keys, publisher)
          /\ shown' = shown \cup {ToCsaf(cbom, keys, publisher)}
          /\ exit' = 0
  /\ UNCHANGED <<tree, cbom>>

CycloneDX ==
  /\ Ran
  /\ out' = ToCycloneDX(cbom)
  /\ exit' = 0
  /\ UNCHANGED <<tree, cbom, shown>>

Publish ==    \* whoever takes the document away
  /\ Ran /\ out # NoDoc /\ out' = NoDoc /\ UNCHANGED <<tree, cbom, shown, exit>>

StatementsNext ==
  \/ EditTree \/ ScanTree \/ CycloneDX \/ Publish
  \/ \E keys \in BOOLEAN : Vex(keys) \/ \E p \in Publishers : Csaf(keys, p)

StatementsSpec == StatementsInit /\ [][StatementsNext]_statementVars

-----------------------------------------------------------------------------
SitesStated(stated) == MapThenSumSet(LAMBDA s : s.sites, stated)
Weak(rep) == {u \in rep.uses : u.status \in DOMAIN CWE_MAP}

(* Every weak use is counted in exactly one statement, under its own         *)
(* weakness and primitive, and nothing else is counted.                      *)
EachWeakUseStatedOnce ==
  LET stated == ToVex(cbom, FALSE)
  IN  /\ \A u \in Weak(cbom) : \E s \in stated : s.cwe = CWE_MAP[u.status] /\ s.prim = u.prim
      /\ \A s, t \in stated : (s.cwe = t.cwe /\ s.prim = t.prim) => s = t
      /\ SitesStated(stated) = Cardinality(Weak(cbom))

(* One tracking id never names two trees or two sets of statements, over all *)
(* advisories ever written.                                                  *)
IdNamesStatements ==
  \A d, e \in shown : d.id = e.id => d.statements = e.statements /\ d.subject = e.subject

(* After a run that succeeded the output path holds this run's advisory or   *)
(* nothing: a step that publishes it never publishes an earlier one.         *)
LeavesThisRuns ==
  \A keys \in BOOLEAN, p \in Publishers :
    (Csaf(keys, p) /\ exit' = 0) => out' \in {NoDoc, ToCsaf(cbom, keys, p)}

(* Each weak use is in one statement, an id names one content, and a run     *)
(* leaves its own advisory or none.                                          *)
StatedOnce ==
  [][EachWeakUseStatedOnce' /\ IdNamesStatements' /\ LeavesThisRuns]_statementVars
=============================================================================
