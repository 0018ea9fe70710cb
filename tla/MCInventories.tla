---------------------------- MODULE MCInventories ----------------------------
(***************************************************************************)
(* The trees and files the inventories are made of, for TLC; a behaviour   *)
(* is one bench's.  "runs": the CBOM and the key search over a tree.       *)
(* "archives": packed files.  "walk": folders, mounts and links.           *)
(* "manifests": project and requirement files.  "setup", "keys", "uses":   *)
(* what one Python file declares, which keys it holds and which primitives *)
(* it uses.  "imports": a tree and an import.                              *)
(***************************************************************************)
EXTENDS Inventory, TLC

CONSTANT Idle

VARIABLES bench,
          file, packed, name,
          fs, pending, seen, files, skipped, links,
          names, includes, dynamic, next, naming, stack, deps, errors, listed,
          text, env, kw, call, installed, walk, aliases, out,
          rels, extending, site, asked

-----------------------------------------------------------------------------
\* Two files that may hold Python and one that does not; Python with and without uses, what does not parse, a text
\* and an archive nothing was read of.
C(units, uses, texts) == [units |-> units, uses |-> uses, text |-> texts]
SomeContents == {C("python", {}, "clean"), C("python", {"BROKEN", "REVIEW"}, "clean"), C("unparsable", {"BROKEN"}, "clean"),
                 C("none", {}, "clean"), C("none", {}, "nothingRead")}
ThreeFiles == <<"a", "b", "d">>

Archives == INSTANCE Containers WITH
  MemberLimit <- 2, TotalLimit <- 3, Depth <- 2, Sizes <- {1, 3}, MaxPacked <- 3

-----------------------------------------------------------------------------
\* A tree of two folders and one that is skipped, below a folder outside it.
Compose(n) == IF n \in {"e1", "e2"} THEN "e" ELSE n

WholeText == [up |-> 0, parts |-> <<>>]
Text(up, parts) == [up |-> up, parts |-> parts]
File(content) == [kind |-> "file", text |-> content, to |-> "root"]
Folder(id) == [kind |-> "folder", text |-> WholeText, to |-> id]
Link(target) == [kind |-> "link", text |-> target, to |-> "root"]
Texts == {WholeText, Text(0, <<"x">>), Text(0, <<"X">>), Text(0, <<"d", "x">>), Text(0, <<"l">>), Text(0, <<"l", "x">>), Text(1, <<"x">>),
          Text(0, <<"build", "x">>), Text(0, <<"none">>)}
Optional(under, entry) == IF under = {} THEN << >> ELSE [n \in under |-> entry]

Tree(x, y, l, d, b, e, o) ==
  [f \in {"root", "d", "b", "o"} |->
     CASE f = "root" -> [n \in {"x", "d"} |-> IF n = "x" THEN x ELSE Folder("d")]
                          @@ Optional(IF l = WholeText THEN {} ELSE {"l"}, l) @@ Optional(b, Folder("b"))
       [] f = "d" -> [n \in {"x"} |-> y] @@ Optional(d, Folder("root")) @@ [n \in e |-> IF n = "req" THEN File(Text(0, <<"x">>)) ELSE File(WholeText)]
       [] f = "b" -> [n \in {"z"} |-> File(WholeText)]
       [] f = "o" -> Optional(o, File(WholeText)) @@ [n \in {"root"} |-> Folder("root")]]

SomeTrees ==
  {Tree(x, y, l, d, b, e, o) :
     x \in {File(t) : t \in Texts} \cup {Link(t) : t \in Texts \ {WholeText}},
     y \in {File(WholeText), File(Text(0, <<"x">>)), File(Text(1, <<"x">>)), Link(Text(1, <<"l", "x">>))},
     l \in {WholeText, Link(Text(0, <<"d">>)), Link(Text(1, <<>>)), Folder("d"), Folder("b"), File(Text(0, <<"X">>))},
     d \in {{}, {"up"}},
     b \in {{}, {"build"}},
     e \in {{"req"}, {"e1", "e2", ".git"}},
     o \in {{}, {"x"}}}

Walk == INSTANCE TreeWalk WITH
  Skip <- {"build"}, Manifests <- {"req"}, Pointers <- {".git"}, Composed <- Compose,
  Root <- "root", Outside <- "o", Trees <- SomeTrees

-----------------------------------------------------------------------------
\* Nine files, in the walk's order; each may name or include at most two others.
FileOrder == <<"a/dev.txt", "extra", "more", "package.json", "pyproject", "reqs.txt", "setup.cfg", "setup.py", "tox.ini">>
KindOf(f) ==
  CASE f = "pyproject" -> "pyproject" [] f = "setup.cfg" -> "setupcfg" [] f = "setup.py" -> "setuppy"
    [] f = "tox.ini" -> "runner" [] f \in {"extra", "more"} -> "other" [] f = "package.json" -> "plain" [] OTHER -> "requirements"
ScopeByName(f) == IF f = "a/dev.txt" THEN "dev" ELSE "required"

Upto1(S) == {<<>>} \cup {<<x>> : x \in S}
Of(named, scopes) == {[file |-> f, scope |-> s] : f \in named, s \in scopes}
MayName(f) ==
  CASE f = "pyproject" -> Upto1(Of({"a/dev.txt", "extra"}, {"required", "optional"}) \cup Of({"missing", "reqs.txt"}, {"required"}))
    [] f = "setup.cfg" -> Upto1(Of({"a/dev.txt", "extra"}, {"required", "build"}) \cup Of({"missing"}, {"build"}))
    [] OTHER -> Upto1(Of({"extra", "missing"}, {"required"}))
MayInclude(f) ==
  CASE f = "a/dev.txt" -> Upto1({"extra"})
    [] f = "extra" -> Upto1({"more", "missing"})
    [] f = "more" -> Upto1({"extra"})
    [] OTHER -> Upto1({"extra", "missing", "reqs.txt"}) \cup {<<"extra", "a/dev.txt">>}
Lockable == {"extra", "reqs.txt", "package.json"}

Graph == INSTANCE ManifestGraph WITH
  Order <- FileOrder, Kind <- KindOf, NameScope <- ScopeByName, Missing <- "missing",
  NamedBy <- MayName, IncludedBy <- MayInclude, MayLock <- Lockable

-----------------------------------------------------------------------------
\* A setup.py of two lists and the dict handed to setup(), and the calls it may make.
L(items) == [op |-> "list", items |-> items]
N(id) == [op |-> "name", id |-> id]
Item == [op |-> "item", id |-> "kw"]
Call == [op |-> "call"]
Plus(left, right) == [op |-> "plus", left |-> left, right |-> right]
Does(what, on, value) == [does |-> what, on |-> on, value |-> value]
SetupLines ==
  {Does("assign", "a", v) : v \in {L(<<"p">>), N("b"), Item}} \cup {Does("assign", "b", v) : v \in {L(<<"p">>), Plus(N("a"), L(<<"q">>))}}
  \cup {Does("add", "a", L(<<"q">>)), Does("add", "a", N("b")), Does("add", "b", Call), Does("remove", "a", L(<<"p">>)), Does("remove", "b", L(<<"q">>))}
  \cup {Does("bind", "kw", L(<<"p">>)), Does("bind", "kw", Call), Does("set", "kw", Plus(N("a"), L(<<"q">>))), Does("set", "kw", Plus(Item, Item)),
        Does("extend", "kw", N("b")), Does("extend", "kw", Call)}
Keyword(keyword, value) == [keyword |-> keyword, value |-> value]
Installs(value) == Keyword("install_requires", value)
SetupCalls ==
  {<<Installs(v)>> : v \in {N("a"), Plus(N("a"), N("b")), Item, Call}} \cup {<<Keyword("**", Item)>>}
  \cup {<<Installs(N("b")), Keyword("tests_require", N("a"))>>, <<Keyword("tests_require", N("a")), Installs(N("b"))>>,
        <<Installs(Item), Keyword("tests_require", N("a"))>>}

Setup == INSTANCE SetupPy WITH
  Names <- {"a", "b"}, Literals <- {"p", "q"}, Lines <- SetupLines, Calls <- SetupCalls, MaxLines <- 3

-----------------------------------------------------------------------------
\* Names and literals of every class, and every form that binds one to the other.
KeyName == [id |-> "k", class |-> "key"]
BareName == [id |-> "b", class |-> "bare"]
PublicName == [id |-> "p", class |-> "public"]
V(op, of) == [op |-> op, of |-> of]
Hash(v) == V("hash", v)
Line(form, keyed, value) == [form |-> form, name |-> keyed, value |-> value]
Forms == {"default", "environ", "ctor", "keyword", "dict", "getenv", "attribute", "tuple", "lambda"}
KeyLines ==
  {Line("assign", KeyName, v) :
     v \in {V("literal", "secret"), V("literal", "blank"), V("transform", "secret"), V("zeros", "none"), V("env", "none"), V("name", "b"),
            Hash(V("literal", "secret")), Hash(V("name", "k")), Hash(V("name", "b"))}}
  \cup {Line("assign", BareName, v) : v \in {V("literal", "secret"), V("env", "none")}}
  \cup {Line("mac", KeyName, V("name", "k")), Line("mac", BareName, V("name", "k")), Line("mac", KeyName, V("literal", "secret")),
        Line("mac", BareName, V("name", "b"))}
  \cup {Line(f, n, v) : f \in Forms, n \in {KeyName, PublicName},
                        v \in {V("literal", "secret"), V("literal", "blank"), V("literal", "label"), V("transform", "secret")}}

Keys == INSTANCE KeyUses WITH
  Functions <- {"module", "f"}, Module <- "module", Names <- {KeyName, BareName, PublicName}, Lines <- KeyLines, MaxLines <- 3

-----------------------------------------------------------------------------
Stmt(kind, id, of, flag) == [kind |-> kind, name |-> id, of |-> of, flag |-> flag]
CryptoLines ==
  {Stmt("import", "h", of, "") : of \in {"hashlib", "hmac", "jwt"}}
  \cup {Stmt("call", "h", of, "") : of \in {"md5", "sha3", "compare_digest"}}
  \cup {Stmt("from", "m", "md5", ""), Stmt("bare", "m", "none", ""), Stmt("call", "h", "md5", "nonsecurity"), Stmt("attribute", "h", "md5", ""),
        Stmt("new", "h", "md5", "nonsecurity"), Stmt("new", "h", "v", ""), Stmt("bind", "v", "md5", ""), Stmt("bind", "v", "sha3", ""),
        Stmt("call", "h", "decode", "verify")}

Uses == INSTANCE CbomUses WITH Statements <- CryptoLines, Depths <- {1, 3}, MaxLines <- 3

-----------------------------------------------------------------------------
\* Modules, packages and projects of every shape, what else is installed, and the imports.
TreeFiles ==
  {<<"run">>, <<"requests">>, <<"pyproject">>, <<"requests", "__init__">>,
   <<"tools", "run">>, <<"tools", "__init__">>, <<"tools", "acme">>, <<"tools", "pyproject">>,
   <<"tools", "requests", "__init__">>, <<"src", "acme", "__init__">>, <<"acme", "ext", "__init__">>, <<"acme", "ext", "a">>,
   <<"google", "__init__">>, <<"google", "cloud", "own">>}
Distributions ==
  {{<<"requests", "__init__">>, <<"requests", "adapters">>, <<"requests", "structures">>},
   {<<"acme", "__init__">>, <<"acme", "util">>, <<"acme", "ext">>}, {<<"google", "cloud", "storage">>}}
Asks ==
  {[form |-> "import", name |-> n, part |-> ""] :
     n \in {<<"requests">>, <<"requests", "adapters">>, <<"acme">>, <<"acme", "ext">>, <<"google", "cloud", "storage">>, <<"google", "cloud", "own">>}}
  \cup {[form |-> "from", name |-> <<"google", "cloud">>, part |-> p] : p \in {"storage", "own"}}
  \cup {[form |-> "from", name |-> <<"requests">>, part |-> "structures"]}
  \cup {[form |-> f, name |-> <<"http">>, part |-> "client"] : f \in {"import", "from"}}

Imported == INSTANCE Imports WITH
  Files <- TreeFiles, Packages <- Distributions, Requests <- Asks, Listed <- {<<"requests">>, <<"google", "cloud">>, <<"http", "client">>},
  NonNetwork <- {<<"requests", "structures">>}, Stdlib <- {"http"}, SourceRoots <- {"src"}, Shared <- {"google"}, MaxFiles <- 3

-----------------------------------------------------------------------------
runVars == <<holds, keyNamed, run, reports, joined, changes>>
archiveVars == <<packed, name>>
walkVars == <<fs, pending, files, skipped, links>>
graphVars == <<names, includes, dynamic, next, naming, stack, deps, errors, listed>>
textVars == <<text, env>>
setupVars == <<kw, call, installed>>
useVars == <<walk, aliases, out>>
importVars == <<rels, extending, site, asked>>
sharedVars == <<locked, seen, file>>

NoRuns == /\ holds = Idle /\ keyNamed = {} /\ run = NoRun /\ reports = [t \in Tools |-> NoReport]
          /\ joined = FALSE /\ changes = 0
NoArchives == packed = Idle /\ name = Idle
NoWalk == fs = Idle /\ pending = Idle /\ files = Idle /\ skipped = Idle /\ links = Idle
NoGraph == /\ names = Idle /\ includes = Idle /\ dynamic = Idle /\ next = Idle /\ naming = Idle
           /\ stack = Idle /\ deps = Idle /\ errors = Idle /\ listed = Idle
NoText == text = Idle /\ env = Idle
NoSetup == kw = Idle /\ call = Idle /\ installed = Idle
NoUses == walk = Idle /\ aliases = Idle /\ out = Idle
NoImports == rels = Idle /\ extending = Idle /\ site = Idle /\ asked = Idle

\* `locked`, `seen` and `file` serve two benches each.
NoTrees == NoRuns /\ NoArchives /\ NoWalk /\ NoGraph
NoPython == NoText /\ NoSetup /\ NoUses /\ NoImports
KeepTrees == UNCHANGED <<runVars, archiveVars, walkVars, graphVars>>
KeepPython == UNCHANGED <<textVars, setupVars, useVars, importVars>>

TreeInit ==
  \/ bench = "runs" /\ InventoryInit /\ NoArchives /\ NoWalk /\ NoGraph /\ seen = Idle /\ file = Idle
  \/ bench = "archives" /\ Archives!Init /\ NoRuns /\ NoWalk /\ NoGraph /\ seen = Idle /\ locked = Idle
  \/ bench = "walk" /\ Walk!Init /\ NoRuns /\ NoArchives /\ NoGraph /\ locked = Idle /\ file = Idle
  \/ bench = "manifests" /\ Graph!Init /\ NoRuns /\ NoArchives /\ NoWalk /\ file = Idle

PythonInit ==
  /\ locked = Idle /\ seen = Idle
  /\ \/ bench = "setup" /\ Setup!Init /\ NoUses /\ NoImports /\ file = Idle
     \/ bench = "keys" /\ Keys!Init /\ NoSetup /\ NoUses /\ NoImports /\ file = Idle
     \/ bench = "uses" /\ Uses!Init /\ NoText /\ NoSetup /\ NoImports
     \/ bench = "imports" /\ Imported!Init /\ NoText /\ NoSetup /\ NoUses /\ file = Idle

Init == (TreeInit /\ NoPython) \/ (PythonInit /\ NoTrees)

TreeNext ==
  \/ bench = "runs" /\ InventoryNext /\ UNCHANGED <<archiveVars, walkVars, graphVars, seen, file>>
  \/ bench = "archives" /\ Archives!Next /\ UNCHANGED <<runVars, walkVars, graphVars, seen, locked>>
  \/ bench = "walk" /\ Walk!Next /\ UNCHANGED <<runVars, archiveVars, graphVars, locked, file>>
  \/ bench = "manifests" /\ Graph!Next /\ UNCHANGED <<runVars, archiveVars, walkVars, file>>

PythonNext ==
  /\ UNCHANGED <<locked, seen>>
  /\ \/ bench = "setup" /\ Setup!Next /\ UNCHANGED <<useVars, importVars, file>>
     \/ bench = "keys" /\ Keys!Next /\ UNCHANGED <<setupVars, useVars, importVars, file>>
     \/ bench = "uses" /\ Uses!Next /\ UNCHANGED <<textVars, setupVars, importVars>>
     \/ bench = "imports" /\ Imported!Next /\ UNCHANGED <<textVars, setupVars, useVars, file>>

Next == UNCHANGED bench /\ ((TreeNext /\ KeepPython) \/ (PythonNext /\ KeepTrees))

Spec == Init /\ [][Next]_<<bench, runVars, archiveVars, walkVars, graphVars, textVars, setupVars, useVars, importVars, sharedVars>>

-----------------------------------------------------------------------------
\* What archives hold is found or listed, nothing is listed without cause, and nothing outgrows the budget.
ArchivesAreTold == bench = "archives" => Archives!NoKeyUnnamed /\ Archives!ListedHasCause /\ Archives!WithinBudget

\* A walk reads every file once, under its own name, and links that are text hide none.
WalkIsRight ==
  bench = "walk" => Walk!WalkIsComplete /\ Walk!EachFolderOnce /\ Walk!NamesKeptApart /\ Walk!TextHidesNothing

\* Each file manifests lead to is declared once, in a scope it was named with, or is an error once.
DeclaredOrSaid ==
  bench = "manifests" =>
    Graph!ReachedIsDeclared /\ Graph!MissesAreErrors /\ Graph!CompleteOrSaid /\ Graph!NamedIsNotDev

\* What a setup.py installs is declared or said to be computed, each key the source holds is reported once and
\* no other, each primitive is recorded at its site once, with the author's declaration, and an import is told
\* or the tree's.
SourceIsTold ==
  /\ bench = "setup" => Setup!InstalledIsDeclared /\ Setup!SaidHasCause
  /\ bench = "keys" => Keys!BoundSecretsOnce /\ Keys!MacKeysAreTold
  /\ bench = "uses" => Uses!UsesAreRecorded /\ Uses!OnePerSite
  /\ bench = "imports" => Imported!InstalledIsTold /\ Imported!ShadowedIsOwn /\ Imported!OwnIsQuiet
=============================================================================
