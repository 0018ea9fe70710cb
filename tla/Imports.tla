-------------------------------- MODULE Imports -------------------------------
(***************************************************************************)
(* entrovouch/no_egress_auditor.py: which code an import names, the        *)
(* audited tree's own or an installed package's, as the audit decides it   *)
(* from the names of the files it walks and as Python decides it.  A       *)
(* behaviour puts a tree and an installation together and then imports.    *)
(***************************************************************************)
EXTENDS Naturals, Sequences, FiniteSets, SequencesExt

CONSTANTS Files,       \* the tree may hold: paths, the last name a module, "__init__" or "pyproject"
          Packages,    \* what may be installed: sets of paths
          Requests,    \* the imports: [form, name, part]
          Listed,      \* FORBIDDEN_IMPORT_MODULES
          NonNetwork,  \* NON_NETWORK_SUBMODULES
          Stdlib,      \* STDLIB_MODULE_NAMES
          SourceRoots, \* _SOURCE_ROOTS
          Shared,      \* _SHARED_NAMESPACES
          MaxFiles     \* bound on the tree

VARIABLES rels,      \* the walked files
          extending, \* packages whose __init__ extends its path
          site,      \* the paths of the installed packages
          asked      \* the import and the file it stands in, or NotAsked

vars == <<rels, extending, site, asked>>

NotAsked == [form |-> "none"]
PythonFiles == {f \in rels : Last(f) # "pyproject"}
Projects == {Front(f) : f \in rels \ PythonFiles}
Holds(package) == Append(package, "__init__") \in rels
Leading(name, from) == {SubSeq(name, 1, k) : k \in from .. Len(name)}
Under(name, from, set) == Leading(name, from) \cap set # {}

-----------------------------------------------------------------------------
(* Fault in InstalledHere: a package in any folder is taken for one. *)
InstalledAnywhere(folder) == TRUE

(* Fault in InstalledHere: only source folders are put on the path. *)
InstalledFromSource(folder) == ~Holds(folder) /\ Last(folder) \in SourceRoots

\* A folder whose packages are put on the import path when the project is installed.
InstalledHere(folder) == ~Holds(folder) /\ (Last(folder) \in SourceRoots \/ folder \in Projects)

(* The top-level packages of the tree, and the names it provides. *)
TopPackages == {Front(f) : f \in {g \in PythonFiles : Last(g) = "__init__" /\ (Len(g) = 2 \/ InstalledHere(Front(Front(g))))}}
LocalModules == {Last(p) : p \in TopPackages} \cup {f[1] : f \in {g \in PythonFiles : Len(g) = 1}}
ExtendedRoots == {Last(p) : p \in TopPackages \cap extending}

(* owned_from: how many leading names of a module are not the tree's; -1 where
   Python would not import it from the tree. *)
OwnedFrom(base, dotted) ==
  LET owned == {j \in 2 .. Len(dotted) : Holds(base \o SubSeq(dotted, 1, j))}
      installs == base \in Projects \/ (base # <<>> /\ Last(base) \in SourceRoots /\ Front(base) \in Projects)
  IN  IF dotted[1] \in Shared \/ Holds(Append(base, dotted[1])) THEN 0
      ELSE IF installs /\ owned # {} THEN CHOOSE j \in owned : \A i \in owned : j <= i
      ELSE -1

(* Fault in ModulesOf: a module in namespace folders is the tree's too. *)
ModulesLoose(base, dotted) == Leading(dotted, 2)

ModulesOf(base, dotted) ==
  LET from == OwnedFrom(base, dotted)
  IN  IF from = -1 THEN {}
      ELSE {dotted} \cup IF dotted[1] \in Shared THEN {} ELSE Leading(dotted, IF from > 2 THEN from ELSE 2)

\* The dotted names the tree holds, below a name.
TreeModules ==
  LET Parts(f) == IF Last(f) = "__init__" THEN Front(f) ELSE f
      Bases(parts) == {k \in 0 .. Len(parts) - 2 : k = 0 \/ parts[k] \in SourceRoots \/ SubSeq(parts, 1, k) \in Projects}
  IN  UNION {UNION {ModulesOf(SubSeq(Parts(f), 1, k), SubSeq(Parts(f), k + 1, Len(Parts(f)))) : k \in Bases(Parts(f))} : f \in PythonFiles}

(* Fault in Importable: what lies beside a module of a package is importable. *)
ImportableBeside(by) == LocalModules \cup {f[Len(by)] : f \in {g \in PythonFiles : Len(g) >= Len(by) /\ IsPrefix(Front(by), g)}}

\* The names found beside the file, unless it is in a package, and the tree's own.
Importable(by) ==
  LocalModules \cup IF Holds(Front(by)) THEN {}
                    ELSE {f[Len(by)] : f \in {g \in PythonFiles : Len(g) >= Len(by) /\ IsPrefix(Front(by), g)}}

-----------------------------------------------------------------------------
\* What an installed module of the name is.
ClassifyModule(name) ==
  CASE name \in NonNetwork -> "none"
    [] name \in Listed \/ \E k \in 2 .. Len(name) - 1 : SubSeq(name, 1, k) \in Listed -> "network"
    [] <<name[1]>> \in Listed -> "dependency"
    [] OTHER -> "none"

(* Fault in SharedRoot: a package that extends its path is all the tree's. *)
SharedRootNever(name) == FALSE

SharedRoot(name) == name[1] \in ExtendedRoots /\ Len(name) > 1 /\ ~Under(name, 2, TreeModules)

\* Taken for the tree's own: a name it provides, unless the file is the module itself, or a module below a namespace.
Own(by, name) ==
  /\ name[1] \notin Stdlib
  /\ \/ name[1] \in LocalModules /\ by # <<name[1]>> /\ ~SharedRoot(name)
     \/ Under(name, 2, TreeModules)

Classify(by, name) == IF Own(by, name) THEN "none" ELSE ClassifyModule(name)

(* The names an import is judged by: the module, and the part of it that is
   taken from it or used through its package. *)
PartOf(q) == IF q.part = "" THEN {}
             ELSE IF q.form = "from" THEN {Append(q.name, q.part)} ELSE {<<q.name[1], q.part>>}
Class(by, q) ==
  LET cls == Classify(by, q.name)
      pure == q.form = "from" /\ PartOf(q) # {} /\ PartOf(q) \subseteq NonNetwork
      through == /\ \E p \in PartOf(q) : Classify(by, p) = "network"
                 /\ q.form = "from" \/ Classify(by, <<q.name[1]>>) # "network"
  IN  IF through \/ (cls = "network" /\ ~pure) THEN "network" ELSE IF pure THEN "none" ELSE cls

\* shadowed_imports names it.
Shadowed(by, q) ==
  \E n \in {q.name} \cup (IF Class(by, q) = "network" THEN {} ELSE PartOf(q)) : Own(by, n) /\ ClassifyModule(n) # "none"

\* unlisted_imports names it.
Unlisted(by, q) ==
  LET root == q.name[1]
      shared == Len(q.name) > 1 /\ (root \in Shared \/ root \in ExtendedRoots)
  IN  /\ Class(by, q) = "none" /\ root \notin Stdlib /\ ClassifyModule(<<root>>) = "none"
      /\ ~Under(q.name, 2, TreeModules)
      /\ shared \/ root \notin Importable(by)

-----------------------------------------------------------------------------
(* Python's own way: the file's folder where it is run as a script, the
   folders the tree's projects are installed from, then the installed packages.
   A package or a module ends the search; a folder without __init__ is a part of
   a namespace, and the search goes on. *)
Bases == {<<>>} \cup Projects \cup {p \in UNION {Leading(Front(f), 1) : f \in PythonFiles} : Last(p) \in SourceRoots}
Search(by) == Bases \cup IF Holds(Front(by)) THEN {} ELSE {Front(by)}
Folders(files, at, name) == {p \in {Append(d, name) : d \in at} : \E f \in files : Len(f) > Len(p) /\ IsPrefix(p, f)}
Ends(files, at, name) == {p \in {Append(d, name) : d \in at} : p \in files \/ Append(p, "__init__") \in files}

Found(by, name) ==
  LET Next[k \in 0 .. Len(name)] ==
        IF k = 0 THEN [tree |-> Search(by), others |-> {<<>>}]
        ELSE LET at == Next[k - 1]
                 own == Ends(rels, at.tree, name[k])
                 ends == Ends(site, at.others, name[k])
             IN  CASE own \cap extending # {} -> [tree |-> own, others |-> Folders(site, at.others, name[k])]
                   [] own # {} -> [tree |-> own, others |-> {}]
                   [] ends # {} -> [tree |-> {}, others |-> ends]
                   [] OTHER -> [tree |-> Folders(rels, at.tree, name[k]), others |-> Folders(site, at.others, name[k])]
  IN  Next[Len(name)]

TakenFrom(by, name) ==
  CASE Found(by, name).tree # {} -> "tree"
    [] name[1] \in Stdlib -> "library"
    [] Found(by, name).others # {} -> "installed"
    [] OTHER -> "none"

-----------------------------------------------------------------------------
Add(f, extends) ==
  /\ asked = NotAsked /\ Cardinality(rels) < MaxFiles /\ f \notin rels
  /\ extends => Last(f) = "__init__"
  /\ rels' = rels \cup {f}
  /\ extending' = IF extends THEN extending \cup {Front(f)} ELSE extending
  /\ UNCHANGED <<site, asked>>

Import(by, q) ==
  /\ asked = NotAsked
  /\ asked' = [form |-> q.form, name |-> q.name, part |-> q.part, by |-> by]
  /\ UNCHANGED <<rels, extending, site>>

Init == rels = {} /\ extending = {} /\ site \in {UNION ps : ps \in SUBSET Packages} /\ asked = NotAsked

Next == \/ \E f \in Files, extends \in BOOLEAN : Add(f, extends)
        \/ \E by \in PythonFiles, q \in Requests : Import(by, q)

Spec == Init /\ [][Next]_vars

-----------------------------------------------------------------------------
By == asked.by
Taken == TakenFrom(By, asked.name)

\* Whether a folder without __init__ meets an installed package of its name the tree cannot tell.
CannotTell ==
  Folders(rels, Search(By), asked.name[1]) # {} /\ Ends(site, {<<>>}, asked.name[1]) # {}

(* An import that Python takes from an installed package is told: a finding, a
   shadowed name or an unlisted one, unless the package is listed and what is
   taken is known to be a pure part of it (_classify, _note_unlisted). *)
InstalledIsTold ==
  (asked # NotAsked /\ Taken = "installed" /\ ({asked.name} \cup PartOf(asked)) \cap NonNetwork = {}
     /\ (CannotTell => <<asked.name[1]>> \in Listed)) =>
    Class(By, asked) # "none" \/ Shadowed(By, asked) \/ Unlisted(By, asked)

(* An import said to be shadowed by the tree is not an installed package's. *)
ShadowedIsOwn ==
  (asked # NotAsked /\ Shadowed(By, asked) /\ ~CannotTell /\ extending \subseteq TopPackages) => Taken # "installed"

(* A package at the top of the tree, of a source folder or of a project, none
   of them a package itself, is no network import and no unlisted one where
   another file imports it, unless others install into its name. *)
OwnIsQuiet ==
  (asked # NotAsked /\ Taken = "tree" /\ By # <<asked.name[1]>> /\ asked.name[1] \notin Stdlib \cup Shared \cup ExtendedRoots
     /\ \E b \in Bases : ~Holds(b) /\ Holds(Append(b, asked.name[1]))) =>
    Class(By, asked) = "none" /\ ~Unlisted(By, asked)
=============================================================================
