----------------------------- MODULE LogEvidence -----------------------------
(***************************************************************************)
(* entrovouch/tlog.py, what a buyer checks offline: verifier keys, signed  *)
(* notes with the signatures of several keys, checkpoints and proof        *)
(* bundles.  A key ID is four bytes of a hash: other keys may share it.    *)
(* A bundle is put together from what was signed and changed in a few      *)
(* places before it is verified.                                           *)
(***************************************************************************)
EXTENDS Merkle

CONSTANTS NoteKeys,      \* signing keys
          NoteNames,     \* key names
          KeyId(_, _),   \* of a name and a key
          Reports,       \* [digest, hash], and NoReport
          NoReport,
          MaxAppended,   \* bound on the log
          MaxChanges     \* bound on the changes made to a bundle

VARIABLES appended,   \* the entries appended to the log so far
          bundle,     \* the bundle at hand: [note, index, entry, inclusion, whole]
          genuine,    \* the bundle as proof_bundle gave it
          changes,    \* changes made since
          concluded   \* what verify_bundle said: [key, report, accepts]

bundleVars == <<appended, bundle, genuine, changes, concluded>>

-----------------------------------------------------------------------------
(* entry_line and _parse_entry: an entry names a report's two digests. *)
EntryLine(report) == [digest |-> report.digest, hash |-> report.hash]
LogHashes(entries) == [i \in DOMAIN entries |-> leaf_hash(entries[i])]

(* encode_vkey; parse_vkey refuses a key ID that is not the key's. *)
EncodeVkey(name, key) == [name |-> name, kid |-> KeyId(name, key), key |-> key]
ParsesVkey(vkey) == vkey.kid = KeyId(vkey.name, vkey.key)

CheckpointText(origin, size, root) == [origin |-> origin, size |-> size, root |-> root]

\* One signature line; `whole` is whether its bytes have the length its height asks for (_sig_dict).
SignatureLine(name, key, text) == [name |-> name, kid |-> KeyId(name, key), key |-> key, text |-> text, whole |-> TRUE]

(* Fault in VerifyNote: signatures are told apart by their names only. *)
VerifyNoteByName(note, vkey) ==
  LET own == {i \in DOMAIN note.sigs : note.sigs[i].name = vkey.name}
  IN  /\ ParsesVkey(vkey)
      /\ own # {}
      /\ \A i \in own : note.sigs[i].whole /\ note.sigs[i].key = vkey.key /\ note.sigs[i].text = note.text

\* Lines of other keys are passed over; one that claims to be the key's must verify.
VerifyNote(note, vkey) ==
  LET own == {i \in DOMAIN note.sigs : note.sigs[i].name = vkey.name /\ note.sigs[i].kid = vkey.kid}
  IN  /\ ParsesVkey(vkey)
      /\ own # {}
      /\ \A i \in own : note.sigs[i].whole /\ note.sigs[i].key = vkey.key /\ note.sigs[i].text = note.text

VerifyCheckpoint(note, vkey) ==
  VerifyNote(note, vkey) /\ (note.text.size = 0 => note.text.root = EmptyRoot)

(* Fault in VerifyBundle: the entry is not compared with the report. *)
VerifyBundleOnly(b, vkey, report) ==
  /\ b.whole
  /\ VerifyCheckpoint(b.note, vkey)
  /\ VerifyInclusion(leaf_hash(b.entry), b.index, b.note.text.size, b.inclusion, b.note.text.root)

VerifyBundle(b, vkey, report) ==
  /\ b.whole
  /\ VerifyCheckpoint(b.note, vkey)
  /\ VerifyInclusion(leaf_hash(b.entry), b.index, b.note.text.size, b.inclusion, b.note.text.root)
  /\ report # NoReport => b.entry = EntryLine(report)

-----------------------------------------------------------------------------
Nothing == [nothing |-> TRUE]
Signer == CHOOSE k \in NoteKeys : TRUE
LogName == CHOOSE n \in NoteNames : TRUE

Signed(entries, key, name) ==
  LET text == CheckpointText("origin", Len(entries), MerkleRoot(LogHashes(entries)))
  IN  [text |-> text, sigs |-> <<SignatureLine(name, key, text)>>]

\* append: the log gets longer.
Log(report) ==
  /\ bundle = Nothing /\ Len(appended) < MaxAppended
  /\ appended' = Append(appended, EntryLine(report))
  /\ UNCHANGED <<bundle, genuine, changes, concluded>>

\* proof_bundle, of the log as it is now.
Prove(index) ==
  /\ bundle = Nothing /\ index < Len(appended)
  /\ bundle' = [note |-> Signed(appended, Signer, LogName), index |-> index, entry |-> appended[index + 1],
                inclusion |-> InclusionPath(LogHashes(appended), index, Len(appended)), whole |-> TRUE]
  /\ genuine' = bundle'
  /\ UNCHANGED <<appended, changes, concluded>>

\* Other keys sign notes and other texts too, and lines get cut short: anybody may add one, in front or behind.
Lines ==
  LET texts == {genuine.note.text, CheckpointText("other", genuine.note.text.size, genuine.note.text.root)}
  IN  {SignatureLine(n, k, t) : n \in NoteNames, k \in NoteKeys \ {Signer}, t \in texts}
      \cup {[SignatureLine(LogName, k, genuine.note.text) EXCEPT !.whole = w] : k \in NoteKeys, w \in BOOLEAN}

Before == SubSeq(appended, 1, Len(appended) - 1)

Changed ==
  {[bundle EXCEPT !.note.sigs = Append(@, l)] : l \in Lines}
  \cup {[bundle EXCEPT !.note.sigs = <<l>> \o @] : l \in Lines}
  \cup {[bundle EXCEPT !.note.sigs = Tail(@)]}
  \cup {[bundle EXCEPT !.note.text = CheckpointText("other", @.size, @.root)]}
  \cup {[bundle EXCEPT !.note.text.size = @ + 1], [bundle EXCEPT !.note.text.size = @ - 1]}
  \cup {[bundle EXCEPT !.note.text.root = r] : r \in {EmptyRoot, MerkleRoot(LogHashes(Before))}}
  \cup {[bundle EXCEPT !.note = Signed(Before, Signer, LogName)]}
  \cup {[bundle EXCEPT !.index = i] : i \in 0 .. Len(appended)}
  \cup {[bundle EXCEPT !.entry = EntryLine(r)] : r \in Reports}
  \cup {[bundle EXCEPT !.inclusion = InclusionPath(LogHashes(appended), i, Len(appended))] : i \in 0 .. Len(appended) - 1}
  \cup {[bundle EXCEPT !.inclusion = InclusionPath(LogHashes(Before), i, Len(Before))] : i \in 0 .. Len(appended) - 2}
  \cup {[bundle EXCEPT !.whole = FALSE]}

Change ==
  /\ bundle # Nothing /\ concluded = Nothing /\ changes < MaxChanges
  /\ bundle' \in Changed
  /\ bundle'.note.sigs # <<>> /\ bundle'.note.text.size \in Nat
  /\ changes' = changes + 1
  /\ UNCHANGED <<appended, genuine, concluded>>

Verify(name, key, kid, report) ==
  /\ bundle # Nothing /\ concluded = Nothing
  /\ concluded' = [name |-> name, key |-> key, kid |-> kid, report |-> report,
                accepts |-> VerifyBundle(bundle, [name |-> name, kid |-> kid, key |-> key], report)]
  /\ UNCHANGED <<appended, bundle, genuine, changes>>

BundleInit == appended = <<>> /\ bundle = Nothing /\ genuine = Nothing /\ changes = 0 /\ concluded = Nothing

BundleNext == \/ \E r \in Reports : Log(r)
              \/ \E i \in 0..MaxAppended : Prove(i)
              \/ Change
              \/ \E n \in NoteNames, k, j \in NoteKeys, r \in Reports \cup {NoReport} : Verify(n, k, KeyId(n, j), r)

BundleSpec == BundleInit /\ [][BundleNext]_bundleVars

-----------------------------------------------------------------------------
ForLog == concluded.name = LogName /\ concluded.key = Signer

(* What verifies under the log's key is an entry at its place in a tree the
   log signed, and the report's own when one is given (verify_bundle). *)
BundleProves ==
  (concluded # Nothing /\ concluded.accepts /\ ForLog) =>
    /\ \E n \in 1 .. Len(appended) :
         /\ bundle.note.text = Signed(SubSeq(appended, 1, n), Signer, LogName).text
         /\ bundle.index < n /\ bundle.entry = appended[bundle.index + 1]
    /\ concluded.report # NoReport => bundle.entry = EntryLine(concluded.report)

(* A bundle as the log gave it verifies, whoever else has signed its note
   under a name or a key ID of their own (_verify_note). *)
OthersDoNotSpoil ==
  (concluded # Nothing /\ ForLog /\ concluded.kid = KeyId(LogName, Signer) /\ concluded.report = NoReport) =>
    LET own == {i \in DOMAIN bundle.note.sigs : bundle.note.sigs[i].name = LogName /\ bundle.note.sigs[i].kid = concluded.kid}
    IN  ([bundle EXCEPT !.note.sigs = <<>>] = [genuine EXCEPT !.note.sigs = <<>>] /\ own # {}
         /\ \A i \in own : bundle.note.sigs[i] = genuine.note.sigs[1]) => concluded.accepts

\* Proof bundles, whatever was changed in them on their way.
BundlesHold == BundleProves /\ OthersDoNotSpoil
=============================================================================
