------------------------------ MODULE TimeStamp ------------------------------
(***************************************************************************)
(* RFC 3161 time stamps as timestamp.py asks for and checks them.  A DER   *)
(* file is the tree its elements make (module Der has the bytes); the      *)
(* digest of a report is the report's bytes themselves.  The authority is  *)
(* outside: it may leave fields out, answer other people, or refuse.       *)
(* Whoever carries its answer may change what its signature does not       *)
(* cover, wrap it, cut it, or hand over the request instead.  Forging what *)
(* the signature covers is left to `openssl ts -verify`, as the tool says. *)
(***************************************************************************)
EXTENDS Naturals, Sequences

CONSTANTS
  Files,      \* what a report file can hold
  Intact,     \* those that are an unedited report, or no report at all
  NoVal, NoNonce, Sha256, IdSignedData, IdTstInfo,   \* model values
  MaxNonce,   \* bound on nonces and serial numbers
  MaxEdits    \* bound on answers and edits

VARIABLES report,   \* the report's bytes
          asked,    \* requests written for it: [imprint, nonce]
          token,    \* the file given to --token
          origin,   \* history: what the token is
          stamp,    \* history: what the authority signed in it
          edits

tsVars == <<report, asked, token, origin, stamp, edits>>

Prim(tag, val) == [tag |-> tag, val |-> val, kids |-> <<>>]
Node(tag, kids) == [tag |-> tag, val |-> NoVal, kids |-> kids]
Seq30(kids) == Node("SEQUENCE", kids)
Cut == Prim("cut", NoVal)                          \* not one DER element
NoFields == <<Cut>>

Imprint(digest) == Seq30(<<Seq30(<<Prim("OID", Sha256), Prim("NULL", NoVal)>>), Prim("OCTETS", digest)>>)

(* build_request *)
RequestFile(digest, nonce) ==
  Seq30(<<Prim("INTEGER", 1), Imprint(digest), Prim("INTEGER", nonce), Prim("BOOLEAN", 1)>>)

-----------------------------------------------------------------------------
(* The authority (RFC 3161 section 2.4.2). *)

TstInfo(s) ==
  <<Prim("INTEGER", 1), Prim("OID", NoVal), Imprint(s.imprint), Prim("INTEGER", s.serial), Prim("TIME", NoVal)>>
  \o (IF s.accuracy THEN <<Seq30(<<Prim("INTEGER", 0)>>)>> ELSE <<>>)
  \o (IF s.ordering THEN <<Prim("BOOLEAN", 1)>> ELSE <<>>)
  \o (IF s.nonce = NoNonce THEN <<>> ELSE <<Prim("INTEGER", s.nonce)>>)

ContentInfo(s, unsignedAttrs) ==
  <<Prim("OID", IdSignedData),
    Node("[0]", <<Seq30(<<Prim("INTEGER", 3), Node("SET", <<>>),
                          Seq30(<<Prim("OID", IdTstInfo),
                                  Node("[0]", <<Node("OCTETS", <<Seq30(TstInfo(s))>>)>>)>>),
                          Node("SET", unsignedAttrs)>>)>>)>>

Granted(s, attrs) == Seq30(<<Seq30(<<Prim("INTEGER", 0)>>), Seq30(ContentInfo(s, attrs))>>)
Bare(s, attrs) == Seq30(ContentInfo(s, attrs))
Rejected == Seq30(<<Seq30(<<Prim("INTEGER", 2), Seq30(<<Prim("TEXT", NoVal)>>)>>)>>)

Stamps == [imprint : Intact, serial : 0..MaxNonce, accuracy : BOOLEAN, ordering : BOOLEAN,
           nonce : 0..MaxNonce \cup {NoNonce}]

-----------------------------------------------------------------------------
(* The checks. *)

Tags(kids, n) == IF Len(kids) < n THEN <<>> ELSE [i \in 1..n |-> kids[i].tag]
IsDerSequence(t) == t.tag = "SEQUENCE"

RECURSIVE Unwrapped(_)
Unwrapped(kids) == IF Len(kids) = 1 /\ kids[1].tag = "SEQUENCE" THEN Unwrapped(kids[1].kids) ELSE kids

(* Fault in IsTimestampRequest: a request in a SEQUENCE of its own is not   *)
(* looked for.                                                              *)
IsUnwrappedRequest(t) ==
  /\ IsDerSequence(t) /\ Tags(t.kids, 2) = <<"INTEGER", "SEQUENCE">>
  /\ Tags(t.kids[2].kids, 1) = <<"SEQUENCE">>

IsTimestampRequest(t) ==
  LET kids == Unwrapped(t.kids)
  IN  /\ IsDerSequence(t) /\ Tags(kids, 2) = <<"INTEGER", "SEQUENCE">>
      /\ Tags(kids[2].kids, 1) = <<"SEQUENCE">>

IsContentInfo(kids) == Len(kids) = 2 /\ Tags(kids, 2) = <<"OID", "[0]">>

(* From a ContentInfo to the fields of the TSTInfo its signature covers.    *)
TstOf(info) ==
  LET sd == info[2].kids
      fields == sd[1].kids
      encap == fields[3].kids
      octet == encap[2].kids
      tst == octet[1].kids
      isTst == /\ IsContentInfo(info) /\ info[1].val = IdSignedData
               /\ Len(sd) = 1 /\ sd[1].tag = "SEQUENCE"
               /\ Tags(fields, 3) = <<"INTEGER", "SET", "SEQUENCE">>
               /\ IsContentInfo(encap) /\ encap[1].val = IdTstInfo
               /\ Len(octet) = 1 /\ octet[1].tag = "OCTETS"
               /\ Len(tst) = 1 /\ tst[1].tag = "SEQUENCE"
  IN  IF isTst THEN tst[1].kids ELSE NoFields

(* Fault in SignedTstFields: a token with no response around it is not read. *)
FieldsOfResponse(t) ==
  IF IsDerSequence(t) /\ Len(t.kids) >= 2 /\ t.kids[2].tag = "SEQUENCE" THEN TstOf(t.kids[2].kids) ELSE NoFields

SignedTstFields(t) ==
  CASE ~IsDerSequence(t) -> NoFields
    [] IsContentInfo(t.kids) -> TstOf(t.kids)
    [] ~IsContentInfo(t.kids) /\ Len(t.kids) >= 2 /\ t.kids[2].tag = "SEQUENCE" -> TstOf(t.kids[2].kids)
    [] OTHER -> NoFields

SignedImprint(t) ==
  LET f == SignedTstFields(t)
  IN  IF /\ Len(f) >= 3 /\ f[3].tag = "SEQUENCE"
         /\ Len(f[3].kids) = 2 /\ f[3].kids[2].tag = "OCTETS"
      THEN f[3].kids[2].val ELSE NoVal

RECURSIVE Holds(_, _)
Holds(t, digest) == t.val = digest \/ \E i \in 1..Len(t.kids) : Holds(t.kids[i], digest)

(* Fault in ContainsDigest: the digest counts wherever it stands. *)
ContainsAnywhere(t, digest) == IsDerSequence(t) /\ ~IsTimestampRequest(t) /\ Holds(t, digest)

ContainsDigest(t, digest) ==
  /\ IsDerSequence(t) /\ ~IsTimestampRequest(t)
  /\ IF SignedImprint(t) # NoVal THEN SignedImprint(t) = digest ELSE Holds(t, digest)

(* Faults in TstNonce: any INTEGER of the TSTInfo counts, and accuracy is   *)
(* not stepped over.                                                        *)
AnyInteger(t, digest, nonce) ==
  LET f == SignedTstFields(t)
  IN  SignedImprint(t) = digest /\ \E i \in 1..Len(f) : f[i].tag = "INTEGER" /\ f[i].val = nonce

AfterTime(t, digest, nonce) ==
  LET f == SignedTstFields(t)
  IN  SignedImprint(t) = digest /\ Len(f) > 5 /\ f[6].tag = "INTEGER" /\ f[6].val = nonce

Drop(kids, tag) == IF kids # <<>> /\ kids[1].tag = tag THEN Tail(kids) ELSE kids

(* _tst_nonce: the nonce of the signed TSTInfo with this imprint is `nonce`. *)
TstNonce(t, digest, nonce) ==
  LET f == SignedTstFields(t)
      rest == Drop(Drop(SubSeq(f, 6, Len(f)), "SEQUENCE"), "BOOLEAN")
  IN  /\ Tags(f, 5) = <<"INTEGER", "OID", "SEQUENCE", "INTEGER", "TIME">>
      /\ Len(f[3].kids) = 2 /\ Tags(f[3].kids, 2) = <<"SEQUENCE", "OCTETS">> /\ f[3].kids[2].val = digest
      /\ rest # <<>> /\ rest[1].tag = "INTEGER" /\ rest[1].val = nonce

(* The exit code of `check` on a report that may be stamped. *)
CheckExit(t, digest, nonce) ==
  CASE IsTimestampRequest(t) -> 1
    [] ~IsTimestampRequest(t) /\ nonce # NoNonce /\ ~TstNonce(t, digest, nonce) -> 1
    [] OTHER -> IF ContainsDigest(t, digest) THEN 0 ELSE 1

-----------------------------------------------------------------------------
None == [imprint |-> NoVal, serial |-> 0, accuracy |-> FALSE, ordering |-> FALSE, nonce |-> NoNonce]

Init == /\ report \in Files
        /\ asked = {} /\ token = Cut /\ origin = "nothing" /\ stamp = None
        /\ edits = 0

Edited == edits < MaxEdits /\ edits' = edits + 1

EditReport == /\ \E f \in Files \ {report} : report' = f
              /\ Edited /\ UNCHANGED <<asked, token, origin, stamp>>

Request ==       \* a report that is not intact is refused; the nonce is drawn here
  /\ report \in Intact
  /\ \E n \in 0..MaxNonce : asked' = asked \cup {[imprint |-> report, nonce |-> n]}
  /\ Edited /\ UNCHANGED <<report, token, origin, stamp>>

(* The authority stamps a request of ours or of anyone else.                *)
Answer(s, bare) ==
  /\ token' = IF bare THEN Bare(s, <<>>) ELSE Granted(s, <<>>)
  /\ stamp' = s /\ origin' = "answer"
  /\ Edited /\ UNCHANGED <<report, asked>>

Reject == /\ token' = Rejected /\ origin' = "refusal"
          /\ Edited /\ UNCHANGED <<report, asked, stamp>>

(* Another report's digest goes where the signature does not reach.          *)
Decorate(digest) ==
  /\ origin = "answer"
  /\ \/ token = Granted(stamp, <<>>) /\ token' = Granted(stamp, <<Imprint(digest)>>)
     \/ token = Bare(stamp, <<>>) /\ token' = Bare(stamp, <<Imprint(digest)>>)
  /\ Edited /\ UNCHANGED <<report, asked, origin, stamp>>

HandOverRequest == /\ \E r \in asked : token' = RequestFile(r.imprint, r.nonce)
                   /\ origin' = "request"
                   /\ Edited /\ UNCHANGED <<report, asked, stamp>>

Wrap == /\ token # Cut /\ token' = Seq30(<<token>>)
        /\ origin' = IF origin = "request" THEN "request" ELSE "wrapped"
        /\ Edited /\ UNCHANGED <<report, asked, stamp>>

Truncate == /\ token # Cut /\ token' = Cut /\ origin' = "nothing"
            /\ Edited /\ UNCHANGED <<report, asked, stamp>>

Next == \/ EditReport \/ Request \/ Reject \/ HandOverRequest \/ Wrap \/ Truncate
        \/ \E s \in Stamps, bare \in BOOLEAN : Answer(s, bare)
        \/ \E digest \in Files : Decorate(digest)

Spec == Init /\ [][Next]_tsVars

-----------------------------------------------------------------------------
(* `check` of the report as it is now; it writes nothing.                    *)
Check(nonce) == IF report \in Intact THEN CheckExit(token, report, nonce) ELSE 2

(* `check --nonce` exits 0 only if the authority stamped exactly the bytes   *)
(* checked, for exactly that nonce: no reply to another request, however it  *)
(* is wrapped or decorated, and no serial number that equals the nonce.      *)
EchoWasStamped ==
  \A nonce \in 0..MaxNonce :
    Check(nonce) = 0 => origin = "answer" /\ stamp.imprint = report /\ stamp.nonce = nonce

(* Without a nonce too, an authority's answer is worth the imprint it signed *)
(* and nothing written beside it.                                            *)
ImprintIsSigned == Check(NoNonce) = 0 /\ origin = "answer" => stamp.imprint = report

(* Every answer that echoes a request of ours is accepted for that request:  *)
(* with or without the response around it, with any optional field, and with *)
(* anything beside what is signed.                                           *)
EchoAccepted ==
  origin = "answer" /\ [imprint |-> stamp.imprint, nonce |-> stamp.nonce] \in asked =>
    CheckExit(token, stamp.imprint, stamp.nonce) = 0

(* A request proves nothing about time: neither it nor a wrapped copy of it  *)
(* is ever accepted, with a nonce or without.                                *)
RequestProvesNothing ==
  origin = "request" => \A nonce \in 0..MaxNonce \cup {NoNonce} : Check(nonce) # 0
=============================================================================
