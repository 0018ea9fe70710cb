----------------------------- MODULE MCLogProofs -----------------------------
(***************************************************************************)
(* The verifiers of the log for TLC; a behaviour is one bench's.           *)
(* "claims": every claim about a small tree, put to the verifiers          *)
(* (LogProofs).                                                            *)
(* "forks": two copies of a log and the checkpoints they gave out.         *)
(* "bundles": a proof bundle and its signed note, changed on their way.    *)
(* "signatures": signatures made, mixed and put to their verifiers.        *)
(***************************************************************************)
EXTENDS LogProofs, ForkCheck, LogEvidence, Signatures, TLC

CONSTANT Idle

VARIABLE bench

Report(hash) == [digest |-> "d1", hash |-> hash]
TwoReports == {Report("h1"), Report("h2")}
NoneGiven == [none |-> TRUE]
KeyIdOf(name, key) == IF key = "k3" THEN "id3" ELSE "id1"

\* LMS: digests of two digits of four values, with checksums that carry; a tree of two leaves.  Lamport: two bits, four leaves.
LmsScheme == [lamport |-> FALSE, base |-> 4, digits |-> 2, sums |-> 2, height |-> 1, keys |-> {"k1", "k2"},
              signable |-> {<<0, 3>>, <<2, 1>>, <<0, 0>>, <<3, 3>>},
              digest |-> [k \in {"k1", "k2"} |-> IF k = "k1" THEN <<0, 3>> ELSE <<2, 1>>]]
LamportScheme == [lamport |-> TRUE, base |-> 2, digits |-> 2, sums |-> 2, height |-> 2, keys |-> {"k1"},
                  signable |-> [1..2 -> 0..1], digest |-> [k \in {"k1"} |-> <<0, 1>>]]
TwoSchemes == {LmsScheme, LamportScheme}

claimVars == <<claim, verdict>>

NoBundle == BundleInit
NoCopies == origin = Idle /\ log = Idle /\ handed = Idle /\ answer = NoAnswer
NoClaim == claim = Idle /\ verdict = "none"
NoSignatures == scheme = Idle /\ signatures = Idle /\ presented = NothingPresented /\ verified = FALSE

BenchInit == \/ bench = "claims" /\ Init /\ NoCopies /\ NoBundle /\ NoSignatures
             \/ bench = "forks" /\ ForkInit /\ NoClaim /\ NoBundle /\ NoSignatures
             \/ bench = "bundles" /\ BundleInit /\ NoClaim /\ NoCopies /\ NoSignatures
             \/ bench = "signatures" /\ SignaturesInit /\ NoClaim /\ NoCopies /\ NoBundle

BenchNext == /\ UNCHANGED bench
             /\ \/ bench = "claims" /\ Next /\ UNCHANGED <<forkVars, bundleVars, signatureVars>>
                \/ bench = "forks" /\ ForkNext /\ UNCHANGED <<claimVars, bundleVars, signatureVars>>
                \/ bench = "bundles" /\ BundleNext /\ UNCHANGED <<claimVars, forkVars, signatureVars>>
                \/ bench = "signatures" /\ SignaturesNext /\ UNCHANGED <<claimVars, forkVars, bundleVars>>

benchVars == <<bench, claimVars, forkVars, bundleVars, signatureVars>>

BenchSpec == BenchInit /\ [][BenchNext]_benchVars

\* Entries, directories and origins are interchangeable; the other benches name none of them.
Symmetry == Permutations(Entries) \cup Permutations(Dirs) \cup Permutations(Origins)

=============================================================================
