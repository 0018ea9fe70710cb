----------------------------- MODULE MCDocuments -----------------------------
(***************************************************************************)
(* What is made from a report and checked later, for TLC; a behaviour is   *)
(* one bench's.  "trust": a report, its signature and a Statement about it. *)
(* "der" and "stamp": time stamps, from the bytes and from the fields.     *)
(* "sarif", "statements": what other tools are told.  "outputs": where the *)
(* commands write.                                                         *)
(***************************************************************************)
EXTENDS ReportTrust, Sarif, Outputs, Statements, TLC

CONSTANTS f1, f2, edited, NoVal, NoNonce, Sha256, IdSignedData, IdTstInfo, Idle

VARIABLES bench,
          token,
          report, asked, origin, stamp

-----------------------------------------------------------------------------
\* Bytes of three bits; 3 is a SEQUENCE.
Elements == INSTANCE Der WITH Bits <- 3, MaxWidth <- 2, Seq30 <- 3, MaxLen <- 5

Stamps == INSTANCE TimeStamp WITH
  Files <- {f1, f2, edited}, Intact <- {f1, f2}, MaxNonce <- 1, MaxEdits <- 4

Site(line, prim, status) == [line |-> line, prim |-> prim, status |-> status]
SomeSites == {Site(1, "MD5", "BROKEN"), Site(1, "MD5", "REVIEW"), Site(2, "MD5", "BROKEN"),
              Site(2, "random", "WEAK_RNG"), Site(2, "RSA", "VULNERABLE")}

-----------------------------------------------------------------------------
reportVars == <<doc, stmt, signed>>
stampVars == <<asked, origin, stamp>>

\* `edits` and `token` serve two benches each.
NoTrust == doc = None /\ stmt = None /\ signed = [k \in Keys |-> {}]
NoStamp == asked = Idle /\ origin = Idle /\ stamp = Idle
NoEdits == edits = Idle
NoToken == token = Idle
NoReport == report = Idle
NoLink == alias = [n \in PathNames |-> n]

Init ==
  /\ SarifInit /\ OutputsInit /\ StatementsInit
  /\ \/ /\ bench = "trust" /\ TrustInit
        /\ NoToken /\ NoReport /\ NoStamp /\ NoLink
     \/ /\ bench = "der" /\ Elements!Init
        /\ NoTrust /\ NoEdits /\ NoReport /\ NoStamp /\ NoLink
     \/ /\ bench = "stamp" /\ Stamps!Init
        /\ NoTrust /\ NoLink
     \/ /\ bench = "sarif"
        /\ NoTrust /\ NoEdits /\ NoToken /\ NoReport /\ NoStamp /\ NoLink
     \/ /\ bench = "statements"
        /\ NoTrust /\ NoEdits /\ NoToken /\ NoReport /\ NoStamp /\ NoLink
     \/ /\ bench = "outputs"
        /\ NoTrust /\ NoEdits /\ NoToken /\ NoReport /\ NoStamp

Next ==
  /\ UNCHANGED bench
  /\ \/ /\ bench = "trust" /\ TrustNext
        /\ UNCHANGED <<token, report, stampVars, findings, statementVars, outVars>>
     \/ /\ bench = "der" /\ Elements!Next
        /\ UNCHANGED <<reportVars, edits, report, stampVars, findings, statementVars, outVars>>
     \/ /\ bench = "stamp" /\ Stamps!Next
        /\ UNCHANGED <<reportVars, findings, statementVars, outVars>>
     \/ /\ bench = "sarif" /\ SarifNext
        /\ UNCHANGED <<reportVars, edits, token, report, stampVars, statementVars, outVars>>
     \/ /\ bench = "statements" /\ StatementsNext
        /\ UNCHANGED <<reportVars, edits, token, report, stampVars, findings, outVars>>
     \/ /\ bench = "outputs" /\ OutputsNext
        /\ UNCHANGED <<reportVars, edits, token, report, stampVars, findings, statementVars>>

benchVars == <<bench, reportVars, edits, token, report, stampVars, findings, statementVars, outVars>>

Spec == Init /\ [][Next]_benchVars

\* The two intact reports of "stamp" are interchangeable; the other benches name neither.
Symmetry == Permutations({f1, f2})

-----------------------------------------------------------------------------
\* Both readers of a token's elements agree and what is written is read back; a token that
\* passes stamps this report, for this request; a true answer passes, a request never does.
StampsProve ==
  /\ bench = "der" => Elements!ReadersAgree /\ Elements!WrittenIsRead /\ Elements!NonceReadBack
  /\ bench = "stamp" => /\ Stamps!EchoWasStamped /\ Stamps!ImprintIsSigned
                        /\ Stamps!EchoAccepted /\ Stamps!RequestProvesNothing
=============================================================================
