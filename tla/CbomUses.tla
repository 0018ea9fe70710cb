------------------------------- MODULE CbomUses ------------------------------
(***************************************************************************)
(* entrovouch/cbom.py, _check_python_ast: one walk over a file's syntax    *)
(* tree, breadth first, that learns what names stand for as it goes and    *)
(* records the primitives used.  A behaviour is a file and its walk, one   *)
(* node a step.  A call written `m.f(...)` is two nodes: the call, and one *)
(* level deeper the attribute it calls.                                    *)
(***************************************************************************)
EXTENDS Naturals, Sequences, SequencesExt, FiniteSets

CONSTANTS Statements,  \* a file may hold: [kind, name, of, flag]
          Depths,      \* at which they may stand
          MaxLines     \* bound on the statements

VARIABLES file,      \* the statements, with their depths
          walk,      \* the nodes still to come, at first the module
          aliases,   \* name -> module, as learnt so far
          out        \* the uses recorded: [line, primitive, status]

vars == <<file, walk, aliases, out>>

-----------------------------------------------------------------------------
Hashes == {"md5", "sha3"}
Status(algo) == IF algo = "md5" THEN "BROKEN" ELSE "SAFE"

(* The nodes in the order of ast.walk. *)
Nodes(f) ==
  LET all == UNION {{[line |-> i, level |-> f[i].depth, node |-> f[i].kind]} \cup
                      (IF f[i].kind = "call" THEN {[line |-> i, level |-> f[i].depth + 1, node |-> "attribute"]} ELSE {}) :
                    i \in DOMAIN f}
  IN  SetToSortSeq(all, LAMBDA x, y : x.level < y.level \/ (x.level = y.level /\ x.line < y.line))

\* Gathered before the walk, from the whole file: names of `from hashlib import md5 as m`, and plain bindings.
FromHashlib(name) == LET of == {file[i].of : i \in {j \in DOMAIN file : file[j].kind = "from" /\ file[j].name = name}}
                     IN  IF of = {} THEN "none" ELSE CHOOSE a \in of : TRUE
BoundTo(name) == {i \in DOMAIN file : file[i].kind = "bind" /\ file[i].name = name}

Real(name) == IF name \in DOMAIN aliases THEN aliases[name] ELSE name

Use(line, primitive, status) == [line |-> line, primitive |-> primitive, status |-> status]

\* `usedforsecurity=False` is shown, as the author's word.
Declared(algo, flag) == IF flag = "nonsecurity" /\ Status(algo) = "BROKEN" THEN "REVIEW" ELSE Status(algo)

\* The hash named by a string, or by a name bound once to one.
Named(s) == IF s.of \in Hashes THEN s.of
            ELSE IF Cardinality(BoundTo(s.of)) = 1 THEN file[CHOOSE i \in BoundTo(s.of) : TRUE].of ELSE "none"

\* Switching a check off, by what the line shows it is.
VerifyOff(s) == CASE Real(s.name) = "jwt" /\ s.of = "decode" -> "jwt" [] s.of = "get" -> "tls" [] OTHER -> "not shown"

(* What a call records. *)
OfCall(s, line) ==
  (IF Real(s.name) = "hashlib" /\ s.of \in Hashes THEN {Use(line, s.of, Declared(s.of, s.flag))} ELSE {})
    \cup (IF Real(s.name) = "hmac" /\ s.of # "compare_digest" THEN {Use(line, "hmac", "SAFE")} ELSE {})
    \cup (IF s.flag = "verify" THEN {Use(line, VerifyOff(s), "REVIEW")} ELSE {})

(* Fault in OfAttribute: what the call has recorded is not looked for. *)
OfAttributeAgain(s, line) ==
  IF Real(s.name) = "hashlib" /\ s.of \in Hashes THEN {Use(line, s.of, Status(s.of))} ELSE {}

\* An attribute passed by reference, unless its call has recorded the site.
OfAttribute(s, line) ==
  IF Real(s.name) = "hashlib" /\ s.of \in Hashes /\ ~\E u \in out : u.line = line /\ u.primitive = s.of
  THEN {Use(line, s.of, Status(s.of))} ELSE {}

\* An import of a module used for its comparison only computes nothing.
OfImport(s, line) ==
  LET used == {file[i].of : i \in {j \in DOMAIN file : file[j].kind \in {"call", "attribute"} /\ file[j].name = s.name}}
  IN  IF s.of = "hmac" /\ used # {"compare_digest"} THEN {Use(line, "hmac", "SAFE")} ELSE {}

Recorded(n) ==
  LET s == file[n.line]
  IN  CASE n.node = "import" -> OfImport(s, n.line)
        [] n.node = "bare" /\ FromHashlib(s.name) # "none" -> {Use(n.line, FromHashlib(s.name), Status(FromHashlib(s.name)))}
        [] n.node = "new" /\ Real(s.name) = "hashlib" /\ Named(s) \in Hashes ->
             {Use(n.line, Named(s), Declared(Named(s), s.flag))}
        [] n.node = "call" -> OfCall(s, n.line)
        [] n.node = "attribute" -> OfAttribute(s, n.line)
        [] OTHER -> {}

-----------------------------------------------------------------------------
NotBegun == <<[line |-> 0, level |-> 0, node |-> "module"]>>

Write(s, depth) ==
  /\ walk = NotBegun /\ Len(file) < MaxLines
  /\ file' = Append(file, [kind |-> s.kind, name |-> s.name, of |-> s.of, flag |-> s.flag, depth |-> depth])
  /\ UNCHANGED <<walk, aliases, out>>

Begin == walk = NotBegun /\ file # <<>> /\ walk' = Nodes(file) /\ UNCHANGED <<file, aliases, out>>

(* Fault in Learn: a name keeps the module it was first imported as. *)
LearnOnce(s) == IF s.name \in DOMAIN aliases THEN aliases
                ELSE [n \in DOMAIN aliases \cup {s.name} |-> IF n = s.name THEN s.of ELSE aliases[n]]

Learn(s) == [n \in DOMAIN aliases \cup {s.name} |-> IF n = s.name THEN s.of ELSE aliases[n]]

Visit ==
  /\ walk \notin {NotBegun, <<>>}
  /\ LET n == Head(walk)
     IN  /\ aliases' = IF n.node = "import" THEN Learn(file[n.line]) ELSE aliases
         /\ out' = out \cup Recorded(n)
  /\ walk' = Tail(walk)
  /\ UNCHANGED file

Init == file = <<>> /\ walk = NotBegun /\ aliases = << >> /\ out = {}

Next == (\E s \in Statements, d \in Depths : Write(s, d)) \/ Begin \/ Visit

Spec == Init /\ [][Next]_vars

Walked == walk = <<>>

-----------------------------------------------------------------------------
\* The line that last binds a name as the file runs, before a line of it.
BoundAt(name, line) ==
  LET lines == {i \in 1 .. line - 1 : file[i].kind = "import" /\ file[i].name = name}
  IN  IF lines = {} THEN 0 ELSE CHOOSE i \in lines : \A j \in lines : i >= j

(* A hash called through a name that was imported no deeper than the call,
   and not again as something else, is recorded at its line with the author's
   declaration (_check_python_ast). *)
UsesAreRecorded ==
  Walked =>
    \A i \in DOMAIN file :
      LET s == file[i]  b == BoundAt(s.name, i)
          settled == b # 0 /\ file[b].depth <= s.depth
                     /\ \A j \in DOMAIN file : (file[j].kind = "import" /\ file[j].name = s.name) => j <= i /\ file[j].depth <= file[b].depth
      IN  (settled /\ file[b].of = "hashlib" /\ s.of \in Hashes /\ s.kind = "call") =>
            Use(i, s.of, Declared(s.of, s.flag)) \in out

(* A site is recorded once, whichever of the two nodes got there: the status
   must not differ between the paths (the comment in _check_python_ast). *)
OnePerSite ==
  \A u, v \in out : u.line = v.line /\ u.primitive = v.primitive => u = v

=============================================================================
