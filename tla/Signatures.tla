----------------------------- MODULE Signatures -----------------------------
(***************************************************************************)
(* entrovouch/signer.py and lms.py: what is computed once a leaf is        *)
(* reserved, and the verifiers.  A hash is the term of what it hashes.  A  *)
(* one-time key is a row of hash chains; a signature shows each chain at   *)
(* the step the digest asks for, and whoever has a step can go on to the   *)
(* later ones.  A Lamport key (signer.py) is chains of one step, two per   *)
(* bit.  Leaves go out once: that is SignerState's and LmsState's.         *)
(***************************************************************************)
EXTENDS Merkle, FiniteSets

CONSTANTS
  Schemes,    \* parameter sets (LMOTS_TYPES, LMS_TYPES, and signer.py's own): records
  Top,        \* the first key of an HSS signature
  MaxSigned   \* bound on the signatures made

(* lamport: signer.py or lms.py; base: values of a digit; digits: of a       *)
(* digest; sums: of its checksum; height: of the tree; keys: identities;     *)
(* signable: the digests that get signed, any is put to the verifier;        *)
(* digest: of each key, where one signs another.                             *)
VARIABLES
  scheme,
  signatures, \* <<key, leaf, digest>> of every signature that was given out
  presented,  \* a signature put to the verifier
  verified    \* what the verifier says of it

signatureVars == <<scheme, signatures, presented, verified>>

NothingPresented == [kind |-> "none"]
Tags == {"leaf", "node", "hashed", "unknown"}

KeyLeaves(s) == 0 .. (Pow2[s.height] - 1)
DigestsOf(s) == [1..s.digits -> 0 .. (s.base - 1)]
LastStep(s) == s.base - 1

-----------------------------------------------------------------------------
\* A number, and what is left of it when its last digits are taken off.
Quotients(n, base) ==
  LET left[i \in Nat] == IF i = 0 THEN n ELSE left[i - 1] \div base
  IN  left

\* What the digits of a digest leave out, summed.
SumTo(s, d) ==
  LET total[i \in 0..s.digits] == IF i = 0 THEN 0 ELSE total[i - 1] + (LastStep(s) - d[i])
  IN  total

(* Fault in Cksm: no checksum. *)
NoCksm(s, d, j) == 0

\* The checksum's digits, the higher first.
Cksm(s, d, j) == Quotients(SumTo(s, d)[s.digits], s.base)[s.sums - j] % s.base

Row(s) == 1 .. (IF s.lamport THEN 2 * s.digits ELSE s.digits + s.sums)

\* The step each chain is shown at: of a pair of Lamport values one is revealed.
StepsOf(s, d) ==
  [i \in Row(s) |-> IF s.lamport THEN IF (i - 1) % 2 = d[(i + 1) \div 2] THEN 0 ELSE 1
                    ELSE IF i <= s.digits THEN d[i] ELSE Cksm(s, d, i - s.digits)]

ASSUME SchemeAssumption ==
  \A s \in Schemes :
    /\ s.lamport \in BOOLEAN /\ s.base \in Nat /\ s.digits \in Nat /\ s.sums \in Nat /\ s.height \in Nat
    /\ s.base > 1 /\ s.digits > 0 /\ s.height > 0
    /\ s.lamport => s.base = 2
    /\ Top \in s.keys /\ s.keys \cap Tags = {}
    /\ s.signable \subseteq DigestsOf(s) /\ s.digest \in [s.keys -> DigestsOf(s)]
    /\ \A d \in DigestsOf(s) : Quotients(SumTo(s, d)[s.digits], s.base)[s.sums] = 0     \* the checksum fits

Value(k, q, i, step) == <<k, q, i, step>>

\* From a step to the last one.  lms.py hashes with key, leaf, chain and step; signer.py with nothing.
ChainFrom(s, k, q, i, step, v) ==
  IF step = LastStep(s) THEN v
  ELSE IF s.lamport /\ v[4] = 0 THEN Value(v[1], v[2], v[3], LastStep(s))
  ELSE IF ~s.lamport /\ v = Value(k, q, i, step) THEN Value(k, q, i, LastStep(s))
  ELSE <<"hashed", k, q, i, step, v>>

\* The hash of what is a true node's has that node's name; lms.py hashes the key and the number too,
\* signer.py only a tag.  Nodes are numbered as RFC 8554 numbers them: the root is 1.
TreeNode(k, n) == <<k, n>>
Places(s) == s.keys \X (1 .. (2 * Pow2[s.height] - 1))

LeafOf(s, k, n, row) ==
  n >= Pow2[s.height] /\ row = [i \in Row(s) |-> Value(k, n - Pow2[s.height], i, LastStep(s))]

LeafHash(s, k, n, row) ==
  IF s.lamport
  THEN IF \E m \in Places(s) : LeafOf(s, m[1], m[2], row)
       THEN CHOOSE m \in Places(s) : LeafOf(s, m[1], m[2], row) ELSE <<"leaf", row>>
  ELSE IF LeafOf(s, k, n, row) THEN TreeNode(k, n) ELSE <<"leaf", k, n, row>>

ParentOf(k, n, left, right) == left = TreeNode(k, 2 * n) /\ right = TreeNode(k, 2 * n + 1)

NodeHash(s, k, n, left, right) ==
  IF s.lamport
  THEN IF \E m \in Places(s) : ParentOf(m[1], m[2], left, right)
       THEN CHOOSE m \in Places(s) : ParentOf(m[1], m[2], left, right) ELSE <<"node", left, right>>
  ELSE IF ParentOf(k, n, left, right) THEN TreeNode(k, n) ELSE <<"node", k, n, left, right>>

KeyRoot(k) == TreeNode(k, 1)

\* The numbers of the nodes from a leaf up, and their siblings.
NumbersUp(s, q) == Quotients(Pow2[s.height] + q, 2)
Sibling(n) == IF Odd(n) THEN n - 1 ELSE n + 1
AuthPath(s, k, q) == [i \in 1..s.height |-> TreeNode(k, Sibling(NumbersUp(s, q)[i - 1]))]

(* Fault in ClimbTo: the sibling is always hashed on the right. *)
ClimbLeft(s, k, n, node, sibling) == NodeHash(s, k, n \div 2, node, sibling)

ClimbTo(s, k, n, node, sibling) ==
  IF Odd(n) THEN NodeHash(s, k, n \div 2, sibling, node) ELSE NodeHash(s, k, n \div 2, node, sibling)

(* Fault in OtsCandidate: a chain goes on from the step the signature says. *)
CandidateAnywhere(s, k, q, digest, row) ==
  LeafHash(s, k, Pow2[s.height] + q, [i \in Row(s) |-> IF row[i][1] = k THEN Value(k, q, i, LastStep(s)) ELSE row[i]])

\* The leaf a signature implies.
OtsCandidate(s, k, q, digest, row) ==
  LeafHash(s, k, Pow2[s.height] + q, [i \in Row(s) |-> ChainFrom(s, k, q, i, StepsOf(s, digest)[i], row[i])])

\* From the leaf to the root, along the numbers of the leaf's own way up.
HashesUp(s, k, q, first, path) ==
  LET up[i \in Nat] == IF i = 0 THEN first ELSE ClimbTo(s, k, NumbersUp(s, q)[i - 1], up[i - 1], path[i])
  IN  up

\* lms_verify, verify_signature: the pinned key, a leaf inside the tree, a path as high as the tree.
LmsVerify(s, k, digest, sig) ==
  /\ sig.type = "own"
  /\ sig.root = KeyRoot(k)
  /\ sig.leaf \in KeyLeaves(s)
  /\ Len(sig.path) = s.height
  /\ HashesUp(s, k, sig.leaf, OtsCandidate(s, k, sig.leaf, digest, sig.row), sig.path)[s.height] = KeyRoot(k)

-----------------------------------------------------------------------------
\* The step of a chain that is known from the signatures there are, if any.
Shown(k, q, i) == {StepsOf(scheme, t[3])[i] : t \in {u \in signatures : u[1] = k /\ u[2] = q}}

\* A row for a digest from what a leaf has shown: the asked step where it is within reach.
Assembled(k, q, digest) ==
  [i \in Row(scheme) |-> IF \E step \in Shown(k, q, i) : step <= StepsOf(scheme, digest)[i]
                         THEN Value(k, q, i, StepsOf(scheme, digest)[i])
                         ELSE Value("unknown", q, i, StepsOf(scheme, digest)[i])]

SignatureOf(type, k, leaf, row, path) == [type |-> type, root |-> KeyRoot(k), leaf |-> leaf, row |-> row, path |-> path]

\* sign: a leaf that has not gone out.
Sign(k, q, d) ==
  /\ Cardinality(signatures) < MaxSigned
  /\ \A t \in signatures : <<t[1], t[2]>> # <<k, q>>
  /\ signatures' = signatures \cup {<<k, q, d>>}
  /\ UNCHANGED <<scheme, presented, verified>>

\* A row of one leaf (perhaps mixed with another's), the path of one, at any leaf, for any digest.
Present(k, leaf, d, from, path, extra) ==
  /\ presented' = [kind |-> "one", key |-> k, leaf |-> leaf, digest |-> d, from |-> from, path |-> path, extra |-> extra]
  /\ verified' = LmsVerify(scheme, k, d,
       SignatureOf(IF extra = "type" THEN "other" ELSE "own", k, leaf, Assembled(from[1], from[2], d),
                   IF extra = "short" THEN Tail(AuthPath(scheme, path[1], path[2])) ELSE AuthPath(scheme, path[1], path[2])))
  /\ UNCHANGED <<scheme, signatures>>

\* hss_verify: as many keys as the first one's number of levels, each signed by the one before; nothing left over.
HssVerify(s, levels, parts, d) ==
  /\ Len(parts) = levels
  /\ \A j \in 1..levels :
       LmsVerify(s, IF j = 1 THEN Top ELSE parts[j - 1].next, IF j = levels THEN d ELSE s.digest[parts[j].next], parts[j].sig)

PartOf(k, q, d, next) ==
  [sig |-> SignatureOf("own", k, q, Assembled(k, q, d), AuthPath(scheme, k, q)), next |-> next]

PresentHss(levels, child, d, leaves, drop) ==
  /\ presented' = [kind |-> "levels", child |-> child, digest |-> d, leaves |-> leaves, levels |-> levels, drop |-> drop]
  /\ LET last == PartOf(child, leaves[2], d, child)
     IN  verified' = HssVerify(scheme, levels,
           IF drop THEN <<last>> ELSE <<PartOf(Top, leaves[1], scheme.digest[child], child), last>>, d)
  /\ UNCHANGED <<scheme, signatures>>

SignaturesInit == scheme \in Schemes /\ signatures = {} /\ presented = NothingPresented /\ verified = FALSE

Signs == \E k \in scheme.keys, q \in KeyLeaves(scheme), d \in scheme.signable : Sign(k, q, d)

\* At most one thing about a presented signature is not from its place.
Presents ==
  \/ \E k \in scheme.keys, leaf \in 0 .. Pow2[scheme.height], d \in DigestsOf(scheme), other \in scheme.keys \X KeyLeaves(scheme) :
       \E from, path \in {<<k, leaf>>, other} :
         /\ {from, path} \subseteq scheme.keys \X KeyLeaves(scheme)
         /\ Present(k, leaf, d, from, path, "none")
  \/ \E k \in scheme.keys, leaf \in KeyLeaves(scheme), d \in DigestsOf(scheme), extra \in {"type", "short"} :
       Present(k, leaf, d, <<k, leaf>>, <<k, leaf>>, extra)
  \/ /\ ~scheme.lamport
     /\ \E levels \in 1..3, child \in scheme.keys, d \in scheme.signable,
           leaves \in KeyLeaves(scheme) \X KeyLeaves(scheme), drop \in BOOLEAN :
          PresentHss(levels, child, d, leaves, drop)

SignaturesNext == presented = NothingPresented /\ (Signs \/ (signatures # {} /\ Presents))

SignaturesSpec == SignaturesInit /\ [][SignaturesNext]_signatureVars

-----------------------------------------------------------------------------
Was(k, q, d) == <<k, q, d>> \in signatures

(* What verifies under a key is a digest that the key signed with that leaf,
   and each of those verifies: from one signature of a leaf nobody reaches
   another digest (_cksm, Algorithm 4b and 6a, verify_signature). *)
VerifiedWasSigned ==
  presented.kind = "one" =>
    (verified <=> /\ Was(presented.key, presented.leaf, presented.digest)
                  /\ presented.from = <<presented.key, presented.leaf>> /\ presented.path = presented.from
                  /\ presented.extra = "none")

(* An HSS signature verifies exactly when the top key signed the other key
   and that one the digest, with as many levels as the public key says. *)
LevelsWereSigned ==
  presented.kind = "levels" =>
    (verified <=> \/ /\ presented.levels = 2 /\ ~presented.drop
                     /\ Was(Top, presented.leaves[1], scheme.digest[presented.child])
                     /\ Was(presented.child, presented.leaves[2], presented.digest)
                  \/ /\ presented.levels = 1 /\ presented.drop /\ presented.child = Top
                     /\ Was(Top, presented.leaves[2], presented.digest))

(* A signature verifies exactly for what its key signed with its leaf, level *)
(* by level.                                                                 *)
SignaturesHold == VerifiedWasSigned /\ LevelsWereSigned
=============================================================================
