----------------------------- MODULE ReportTrust -----------------------------
(***************************************************************************)
(* What a report and the in-toto Statement made from it are worth.  A      *)
(* report is issued, signed or not, and then handed around: anyone may     *)
(* change a field of it, compute its public hashes again, take the         *)
(* signature off, put another report's in, or sign it with a key of their  *)
(* own.  Only a key's owner makes its signatures.  A hash is what is       *)
(* hashed; a body is the report without what it is hashed into.            *)
(***************************************************************************)
EXTENDS Naturals, FiniteSets

CONSTANTS
  Targets,   \* names of what was audited
  Claims,    \* verdict and findings
  Keys,      \* public roots
  Issuer,    \* the key whose owner only signs what the tools issue
  AuditTool, CbomTool, OtherTool,
  MaxEdits   \* bound on what is done to a report and its Statement

Tools == {AuditTool, CbomTool}                        \* _PREDICATE_TYPES, _TOOLS
Absent == "absent"
Missing == [absent |-> TRUE]                  \* a hash or a subject that is not there
NoRoot == "no root"
NoSig == [by |-> NoRoot]
Junk == [by |-> "junk"]                       \* a signature field that is no object
Empty == ""

VARIABLES doc,     \* a report
          stmt,    \* a Statement made from it, or None
          signed,  \* history: the bodies each key has signed
          edits

trustVars == <<doc, stmt, signed, edits>>

None == [none |-> TRUE]

-----------------------------------------------------------------------------
BodyFields == {"tool", "target", "claim", "subject", "fdig", "root", "algorithm"}
Body(r) == [f \in BodyFields |-> r[f]]                          \* canonical_body
Reproducible(r) == [f \in {"tool", "target", "claim"} |-> r[f]] \* reproducible_body

(* The digest of the files read is the target's own here: `subject` names   *)
(* the target and its digest, in the reports' or in-toto's name for SHA3.   *)
SubjectOf(target, naming) == [target |-> target, naming |-> naming]

Lamport(r, key) == [by |-> key, root |-> key, algorithm |-> "lamport", over |-> Body(r)]

Unsigned(tool, target, claim, root) ==
  [tool |-> tool, target |-> target, claim |-> claim,
   subject |-> SubjectOf(target, "report"),
   fdig |-> [tool |-> tool, target |-> target, claim |-> claim],
   root |-> root, algorithm |-> IF root = Empty THEN "unsigned" ELSE "lamport",
   hash |-> Missing, tag |-> Empty, signature |-> NoSig]

Hashed(r) == [r EXCEPT !.hash = Body(r)]

(* audit, build_cbom: the signer's name goes in before the body is hashed   *)
(* and signed.                                                              *)
IssuedReport(tool, target, claim, key) ==
  LET r == Unsigned(tool, target, claim, key)
  IN  IF key = Empty THEN Hashed(r) ELSE [Hashed(r) EXCEPT !.signature = Lamport(r, key)]

-----------------------------------------------------------------------------
(* The checks. *)

HashMatches(r) == r.hash = Body(r)
FindingsDigestMatches(r) == r.fdig \in {Missing, Reproducible(r)}
SubjectMatches(r) == r.subject \in {Missing, SubjectOf(r.target, "report")}

(* Fault in ClaimsSigned: a body that names a signer is not asked for. *)
ClaimsNothing(r) == FALSE
ClaimsSigned(r) == r.root \notin {Empty, Absent} \/ r.algorithm \notin {"unsigned", Empty, Absent}

IsObject(sig) == sig \notin {NoSig, Junk}
IdentityMatches(r, sig) == r.root = sig.root /\ r.algorithm = sig.algorithm

(* Fault in VerifyAny: the pinned root is not compared. *)
VerifyUnpinned(body, sig, root) == sig.algorithm = "lamport" /\ sig.over = body /\ sig.by = sig.root

VerifyAny(body, sig, root) ==
  /\ sig.algorithm = "lamport"
  /\ root # NoRoot => sig.root = root
  /\ sig.over = body /\ sig.by = sig.root

Signature(r, body, root) ==
  IF VerifyAny(body, r, root) THEN IF root = NoRoot THEN "UNVERIFIED" ELSE "ATTESTED" ELSE "TAMPERED"

VerifyReport(r, root, tool) ==
  IF ~HashMatches(r) \/ ~FindingsDigestMatches(r) \/ ~SubjectMatches(r) \/ r.tool # tool THEN "TAMPERED"
  ELSE IF r.signature = NoSig THEN IF ClaimsSigned(r) THEN "TAMPERED" ELSE "UNSIGNED"
  ELSE IF r.tag # Empty \/ ~IsObject(r.signature) \/ ~IdentityMatches(r, r.signature) THEN "TAMPERED"
  ELSE Signature(r.signature, Body(r), root)

(* Fault in ReportProblem: the tag beside a signature is not looked at. *)
ProblemButTag(r) ==
  \/ r.hash # Missing /\ ~HashMatches(r)
  \/ ~FindingsDigestMatches(r) \/ ~SubjectMatches(r)
  \/ r.signature = NoSig /\ ClaimsSigned(r)
  \/ /\ r.signature # NoSig
     /\ \/ ~IsObject(r.signature)
        \/ ~IdentityMatches(r, r.signature) \/ ~VerifyAny(Body(r), r.signature, NoRoot)

ReportProblem(r) ==
  \/ r.hash # Missing /\ ~HashMatches(r)
  \/ ~FindingsDigestMatches(r) \/ ~SubjectMatches(r)
  \/ r.signature = NoSig /\ ClaimsSigned(r)
  \/ /\ r.signature # NoSig
     /\ \/ ~IsObject(r.signature) \/ r.tag # Empty
        \/ ~IdentityMatches(r, r.signature) \/ ~VerifyAny(Body(r), r.signature, NoRoot)

KindProblem(r, kind) == r.tool # kind \/ r.hash = Missing
Loads(r, kind) == ~KindProblem(r, kind) /\ ~ReportProblem(r)    \* load_report of a converter

-----------------------------------------------------------------------------
(* Statements. *)

PredicateFields == {"tool", "target", "claim", "fdig", "root", "algorithm"}
Renamed(subject, from, to) == IF subject.naming = from THEN [subject EXCEPT !.naming = to] ELSE subject

StatementSubject(r) == IF r.subject = Missing THEN SubjectOf(r.target, "report") ELSE r.subject

ToStatement(r, ptype) ==
  [predicate |-> [f \in PredicateFields |-> r[f]],
   subject |-> Renamed(StatementSubject(r), "report", "intoto"),
   ptype |-> ptype,
   block |-> IF r.signature = NoSig THEN NoSig
             ELSE [by |-> "tool", algorithm |-> r.algorithm, root |-> r.root, value |-> r.signature],
   foreign |-> FALSE]         \* a field to_statement does not write, anywhere in it

(* Fault in ReportSubject: the digest keeps in-toto's name. *)
KeptName(subject) == subject
ReportSubject(subject) == Renamed(subject, "intoto", "report")

(* The report a Statement carries, with the signer its signature names. *)
Rebuilt(s, root, algorithm) ==
  LET p == s.predicate
  IN  [tool |-> p.tool, target |-> p.target, claim |-> p.claim, subject |-> ReportSubject(s.subject),
       fdig |-> p.fdig, root |-> root, algorithm |-> algorithm]

VerifyStatement(s, root) ==
  LET p == s.predicate  b == s.block
      r == Rebuilt(s, p.root, p.algorithm)
      whole == Rebuilt(s, b.root, b.algorithm)
  IN IF p.tool \notin Tools \/ s.subject.naming = "both" \/ s.foreign \/ s.ptype # p.tool THEN "TAMPERED"
     ELSE IF ~FindingsDigestMatches(r) \/ ~SubjectMatches(r) THEN "TAMPERED"
     ELSE IF b = NoSig THEN IF ClaimsSigned(p) THEN "TAMPERED" ELSE "UNSIGNED"
     ELSE IF ~IsObject(b) \/ ~IsObject(b.value) THEN "TAMPERED"
     ELSE IF p.root \notin {Absent, b.root} \/ p.algorithm \notin {Absent, b.algorithm} THEN "TAMPERED"
     ELSE IF ~IdentityMatches(whole, b.value) THEN "TAMPERED"
     ELSE Signature(b.value, whole, root)

(* verify.main: exit code 0, the verifier chosen by the document's own tool. *)
VerifyCommand(r, root) == r.tool \in Tools /\ VerifyReport(r, root, r.tool) = "ATTESTED"

-----------------------------------------------------------------------------
TrustInit == /\ doc = None /\ stmt = None /\ edits = 0
             /\ signed = [k \in Keys |-> {}]

SignedBy(key, r) == signed' = IF key = Empty THEN signed
                              ELSE [signed EXCEPT ![key] = @ \cup {Body(r)}]

(* A tool issues a report; the one in hand before is gone, its signature may *)
(* have been kept.                                                           *)
Issue == \E tool \in Tools, target \in Targets, claim \in Claims, key \in Keys \cup {Empty} :
  LET r == IssuedReport(tool, target, claim, key) IN
  /\ doc = None
  /\ doc' = r
  /\ SignedBy(key, r)
  /\ UNCHANGED <<stmt, edits>>

Edit == edits < MaxEdits /\ edits' = edits + 1

FieldValues(f) ==
  CASE f = "tool" -> Tools \cup {OtherTool}
    [] f = "target" -> Targets
    [] f = "claim" -> Claims
    [] f = "root" -> Keys \cup {Empty, Absent}
    [] f = "algorithm" -> {"lamport", "unsigned", "unknown", Absent}
    [] f = "subject" -> {SubjectOf(t, n) : t \in Targets, n \in {"report", "both"}} \cup {Missing}
    [] f = "fdig" -> {Reproducible(doc), Missing}
    [] f = "hash" -> {Body(doc), Missing}
    [] f = "tag" -> {Empty, "tag"}
    [] f = "signature" -> {NoSig, Junk}

(* A key's own report of something else: where a signature may come from. *)
Elsewhere(key) == Unsigned(AuditTool, CHOOSE t \in Targets : TRUE, CHOOSE c \in Claims : TRUE, key)

Rewrite ==
  /\ doc # None /\ Edit
  /\ \/ \E f \in DOMAIN doc : \E v \in FieldValues(f) : doc' = [doc EXCEPT ![f] = v] /\ UNCHANGED signed
     \/ \E key \in Keys \ {Issuer} : /\ doc' = [doc EXCEPT !.signature = Lamport(doc, key)]
                                     /\ SignedBy(key, doc)
     \/ \E key \in Keys : /\ doc' = [doc EXCEPT !.signature = Lamport(Elsewhere(key), key)]
                          /\ SignedBy(key, Elsewhere(key))
     \/ /\ IsObject(doc.signature)
        /\ \E key \in Keys : doc' = [doc EXCEPT !.signature.root = key]
        /\ UNCHANGED signed
  /\ UNCHANGED stmt

(* attestation.main. *)
Convert == /\ doc # None /\ stmt = None
           /\ \E kind \in Tools : Loads(doc, kind) /\ stmt' = ToStatement(doc, kind)
           /\ UNCHANGED <<doc, signed, edits>>

RewriteStatement ==
  /\ stmt # None /\ Edit
  /\ \/ \E f \in PredicateFields : \E v \in FieldValues(f) : stmt' = [stmt EXCEPT !.predicate[f] = v]
     \/ \E v \in FieldValues("subject") \ {Missing} : stmt' = [stmt EXCEPT !.subject = v]
     \/ \E v \in Tools : stmt' = [stmt EXCEPT !.ptype = v]
     \/ stmt' = [stmt EXCEPT !.foreign = TRUE]
     \/ \E v \in {NoSig, Junk} : stmt' = [stmt EXCEPT !.block = v]
     \/ /\ IsObject(stmt.block)
        /\ \/ \E key \in Keys : stmt' = [stmt EXCEPT !.block.root = key]
           \/ stmt' = [stmt EXCEPT !.block.value = doc.signature]
  /\ UNCHANGED <<doc, signed>>

TrustNext == Issue \/ Rewrite \/ Convert \/ RewriteStatement

TrustSpec == TrustInit /\ [][TrustNext]_trustVars

-----------------------------------------------------------------------------
Roots == Keys \cup {NoRoot}

(* "ATTESTED: signed by expected_root; origin and integrity both proven":   *)
(* whatever was done to a report or a Statement, exit code 0 under the       *)
(* issuer's root means its owner signed this very body, and no field beside  *)
(* it was added.                                                             *)
AttestedWasSigned ==
  /\ doc # None /\ VerifyCommand(doc, Issuer) => Body(doc) \in signed[Issuer] /\ doc.tag = Empty
  /\ stmt # None /\ VerifyStatement(stmt, Issuer) = "ATTESTED" =>
       Rebuilt(stmt, stmt.block.root, stmt.block.algorithm) \in signed[Issuer] /\ ~stmt.foreign

(* A signature taken off reads as TAMPERED and never as a report that was    *)
(* not signed (_claims_signed): in a report and in a Statement.              *)
StrippedIsTampered ==
  /\ doc # None /\ Body(doc) \in signed[Issuer] => \A root \in Roots : VerifyReport(doc, root, doc.tool) # "UNSIGNED"
  /\ stmt # None /\ Rebuilt(stmt, stmt.predicate.root, stmt.predicate.algorithm) \in signed[Issuer] =>
       VerifyStatement(stmt, NoRoot) # "UNSIGNED"

(* The converters' own checks (report_problem, _kind_problem) and the        *)
(* verifier's agree on every report: what is TAMPERED is not converted, and  *)
(* nothing else is refused.                                                  *)
GateIsVerifier ==
  doc # None => \A kind \in Tools : Loads(doc, kind) <=> VerifyReport(doc, NoRoot, kind) # "TAMPERED"

(* A Statement of a report is worth what the report is, under every root.    *)
(* (Every tool writes a subject; one a Statement has to make up, from the    *)
(* target and its digest, is not in the body that was signed.)               *)
StatementIsReport ==
  doc # None /\ (doc.signature = NoSig \/ doc.subject # Missing) => \A kind \in Tools : Loads(doc, kind) =>
    \A root \in Roots : VerifyStatement(ToStatement(doc, kind), root) = VerifyReport(doc, root, kind)

(* One root at most attests a report; and with no root pinned the answer is  *)
(* UNVERIFIED exactly when some root would attest it.                        *)
OneRootAttests ==
  doc # None =>
    LET attesting == {key \in Keys : VerifyReport(doc, key, doc.tool) = "ATTESTED"}
    IN  /\ Cardinality(attesting) <= 1
        /\ (attesting # {}) <=> (VerifyReport(doc, NoRoot, doc.tool) = "UNVERIFIED")

\* What verifies was signed as it stands, by the root it names, and a Statement speaks of its own report.
TrustIsEarned == AttestedWasSigned /\ StrippedIsTampered /\ GateIsVerifier /\ StatementIsReport /\ OneRootAttests
=============================================================================
