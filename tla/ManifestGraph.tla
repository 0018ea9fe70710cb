--------------------------- MODULE ManifestGraph ---------------------------
(***************************************************************************)
(* collect_manifests and the SBOM made from it: manifests are read in the  *)
(* tree's order; a project file names the requirement files its            *)
(* dependencies come from, with a scope; requirement files include others, *)
(* in circles too.  A file is read once however many name it, so what it   *)
(* declares must end in the right scope whoever came first.  Each          *)
(* requirement file declares one dependency, known by the file.            *)
(***************************************************************************)
EXTENDS Naturals, Sequences, FiniteSets, SequencesExt

CONSTANTS
  Order,          \* every file the walk reads, in its order
  Kind(_),        \* pyproject, setupcfg, setuppy, plain, requirements (by its name), other, runner
  NameScope(_),   \* the scope a requirement file's name gives it
  Missing,        \* a name that leads to no file the walk reads
  NamedBy(_),     \* the [file, scope] lists a project file may hold
  IncludedBy(_),  \* the lists of files a requirement file may include
  MayLock         \* files that may be impossible to open

Files == Range(Order)
Manifests == {f \in Files : Kind(f) \in {"pyproject", "setupcfg", "setuppy"}}
Texts == {f \in Files : Kind(f) \in {"requirements", "other"}}

VARIABLES
  names, includes, locked, dynamic, \* the tree: what files name, which cannot be opened
  next,     \* how many files the pass has come to
  naming,   \* what is left of the names of the manifest at hand
  stack,    \* requirement files being read, with the includes left of each
  seen, deps, errors, listed

tree == <<names, includes, locked, dynamic>>
mgVars == <<names, includes, locked, dynamic, next, naming, stack, seen, deps, errors, listed>>

Error(by, of) == [by |-> by, of |-> of]
Walked(f) == f \in Files
Readable(f) == Walked(f) /\ f \notin locked
Report(by, of) == errors' = Append(errors, Error(by, of))

-----------------------------------------------------------------------------
(* read_requirements: a file's dependencies, in `scope` or its name's.       *)
Scoped(f, scope) == IF scope = "" THEN NameScope(f) ELSE scope

(* Fault in Rescoped: a file read before keeps the scope of its name.        *)
AsRead(ds, f, scope) == ds
Rescoped(ds, f, scope) ==
  {IF d.file = f /\ d.scope \in {"dev", "constraint"} THEN [d EXCEPT !.scope = scope] ELSE d : d \in ds}

(* Fault in Followed: what a file a manifest named includes is not read.     *)
FollowedByName(f) == IF Kind(f) = "requirements" THEN includes[f] ELSE <<>>
Followed(f) == includes[f]

ReadText(f, scope) ==
  /\ seen' = seen \cup {f}
  /\ deps' = deps \cup {[file |-> f, scope |-> Scoped(f, scope)]}
  /\ stack' = <<[file |-> f, rest |-> Followed(f)]>> \o stack
  /\ listed' = Append(listed, f)

FollowInclude ==
  /\ stack # <<>> /\ Head(stack).rest # <<>>
  /\ LET at == Head(stack)
         inc == Head(at.rest)
         below == <<[at EXCEPT !.rest = Tail(@)]>> \o Tail(stack)
     IN  IF ~Walked(inc) THEN Report(at.file, inc) /\ stack' = below /\ UNCHANGED <<seen, deps, listed>>
         ELSE IF inc \in seen THEN stack' = below /\ UNCHANGED <<seen, deps, errors, listed>>
         ELSE IF inc \in locked
         THEN Report(inc, inc) /\ seen' = seen \cup {inc} /\ stack' = below /\ UNCHANGED <<deps, listed>>
         ELSE /\ seen' = seen \cup {inc}
              /\ deps' = deps \cup {[file |-> inc, scope |-> NameScope(inc)]}
              /\ listed' = Append(listed, inc)
              /\ stack' = <<[file |-> inc, rest |-> Followed(inc)]>> \o below
              /\ UNCHANGED errors
  /\ UNCHANGED <<tree, next, naming>>

EndText == /\ stack # <<>> /\ Head(stack).rest = <<>>
           /\ stack' = Tail(stack)
           /\ UNCHANGED <<tree, next, naming, seen, deps, errors, listed>>

(* read_named: a file a manifest says its dependencies come from.            *)
(* Fault in SeenUnread: a file that cannot be opened is not noted.           *)
NotNoted(f) == seen
SeenUnread(f) == seen \cup {f}

ReadNamed ==
  /\ stack = <<>> /\ naming # <<>>
  /\ LET n == Head(naming) IN
       IF ~Walked(n.file) THEN Report(n.by, n.file) /\ UNCHANGED <<stack, seen, deps, listed>>
       ELSE IF n.file \in seen THEN deps' = Rescoped(deps, n.file, n.scope) /\ UNCHANGED <<stack, seen, errors, listed>>
       ELSE IF n.file \in locked THEN Report(n.file, n.file) /\ seen' = SeenUnread(n.file) /\ UNCHANGED <<stack, deps, listed>>
       ELSE ReadText(n.file, n.scope) /\ UNCHANGED errors
  /\ naming' = Tail(naming)
  /\ UNCHANGED <<tree, next>>

-----------------------------------------------------------------------------
At == Order[next]

Names(f) == [i \in 1..Len(names[f]) |-> [by |-> f, file |-> names[f][i].file, scope |-> names[f][i].scope]]


(* What a project file names: only with `dynamic` in pyproject.toml; `file:` *)
(* in setup.cfg; in setup.py whatever the script mentions that is there and  *)
(* holds requirement lines only.                                             *)
DynamicFiles(f) == IF dynamic THEN Names(f) ELSE <<>>
SetupCfgFiles(f) == Names(f)
ComputedFiles(f) == SelectSeq(Names(f), LAMBDA n : Readable(n.file) /\ n.file \in Texts)
Unresolved(f) == dynamic /\ names[f] = <<>> /\ ~\E g \in Files : Kind(g) \in {"setupcfg", "setuppy"}

Come == stack = <<>> /\ naming = <<>> /\ next <= Len(Order) /\ next' = next + 1 /\ UNCHANGED tree

Unreadable ==
  /\ Come /\ Kind(At) \notin {"other", "runner"} /\ At \in locked
  /\ IF At \in seen THEN UNCHANGED <<seen, errors>>
     ELSE seen' = seen \cup {At} /\ Report(At, At)
  /\ UNCHANGED <<naming, stack, deps, listed>>

ReadProject(kind, named, problem) ==
  /\ Come /\ Kind(At) = kind /\ At \notin locked
  /\ listed' = Append(listed, At)
  /\ naming' = named
  /\ errors' = IF problem THEN Append(errors, Error(At, Missing)) ELSE errors
  /\ UNCHANGED <<stack, seen, deps>>

ReadPyproject == next <= Len(Order) /\ ReadProject("pyproject", DynamicFiles(At), Unresolved(At))
ReadSetupCfg == next <= Len(Order) /\ ReadProject("setupcfg", SetupCfgFiles(At), FALSE)
ReadSetupPy ==
  next <= Len(Order) /\ Kind(At) = "setuppy"
    /\ ReadProject("setuppy", ComputedFiles(At), names[At] # <<>> /\ ComputedFiles(At) = <<>>)

ReadRequirements ==
  /\ Come /\ Kind(At) = "requirements" /\ At \notin locked
  /\ IF At \in seen THEN UNCHANGED <<stack, seen, deps, listed>> ELSE ReadText(At, "")
  /\ UNCHANGED <<naming, errors>>

(* package.json, Pipfile, environment.yml and configuration files.           *)
ReadPlain == Come /\ Kind(At) = "plain" /\ At \notin locked
             /\ listed' = Append(listed, At)
             /\ deps' = deps \cup {[file |-> At, scope |-> "required"]}
             /\ UNCHANGED <<naming, stack, seen, errors>>

PassOver == Come /\ Kind(At) \in {"other", "runner"} /\ UNCHANGED <<naming, stack, seen, deps, errors, listed>>

(* tox.ini and noxfile.py, in a pass of their own after all others.          *)
ReadRunners ==
  /\ stack = <<>> /\ naming = <<>> /\ next = Len(Order) + 1 /\ next' = next + 1
  /\ LET runners == {f \in Files : Kind(f) = "runner"}
     IN  /\ deps' = deps \cup {[file |-> f, scope |-> "dev"] : f \in runners \ locked}
         /\ errors' = errors \o SetToSeq({Error(f, f) : f \in runners \cap locked})
  /\ UNCHANGED <<tree, naming, stack, seen, listed>>

Init == /\ names \in [Manifests -> UNION {NamedBy(f) : f \in Manifests}] /\ \A f \in Manifests : names[f] \in NamedBy(f)
        /\ includes \in [Texts -> UNION {IncludedBy(f) : f \in Texts}] /\ \A f \in Texts : includes[f] \in IncludedBy(f)
        /\ locked \in {{}} \cup {{f} : f \in MayLock} /\ dynamic \in BOOLEAN
        /\ next = 1 /\ naming = <<>> /\ stack = <<>>
        /\ seen = {} /\ deps = {} /\ errors = <<>> /\ listed = <<>>

Next == \/ FollowInclude \/ EndText \/ ReadNamed \/ Unreadable \/ ReadPyproject \/ ReadSetupCfg
        \/ ReadSetupPy \/ ReadPlain \/ ReadRequirements \/ PassOver \/ ReadRunners
Spec == Init /\ [][Next]_mgVars

Done == next = Len(Order) + 2

-----------------------------------------------------------------------------
(* sbom.py: what is for development, building or pinning is no component.    *)
Components == {d \in deps : d.scope \notin {"dev", "build", "constraint"}}
Verdict == IF errors # <<>> THEN "INCOMPLETE" ELSE IF Components # {} THEN "DECLARED" ELSE "EMPTY"

(* The files manifests lead to: those that are manifests, those named, those *)
(* included by one that could be read.                                       *)
NamedIn(f) == IF Kind(f) = "pyproject" /\ ~dynamic THEN {} ELSE {names[f][i].file : i \in 1..Len(names[f])}
Step(fs) == fs \cup UNION {Range(includes[f]) : f \in {g \in fs \cap Texts : Readable(g)}}
FirstReached == {f \in Files : Kind(f) = "requirements"}
                  \cup UNION {NamedIn(f) : f \in {g \in Manifests : Readable(g) /\ Kind(g) # "setuppy"}}
Reached == Step(Step(Step(FirstReached)))

(* Every requirement file reached through names and includes, in circles or  *)
(* not, has its dependency declared, and only once.                          *)
ReachedIsDeclared ==
  Done => \A f \in Reached \cap Texts : Readable(f) => Cardinality({d \in deps : d.file = f}) = 1

(* Whatever was not read is an error, once: a name that leads nowhere, a     *)
(* file that cannot be opened, however many files name it.                   *)
MissesAreErrors ==
  Done => /\ \A f \in Reached : ~Readable(f) => \E i \in 1..Len(errors) : errors[i].of = f
          /\ \A i, j \in 1..Len(errors) : (errors[i] = errors[j] /\ errors[i].of # Missing) => i = j
          /\ \A f \in locked : Cardinality({i \in 1..Len(errors) : errors[i].of = f}) <= 1

(* The inventory is complete, or says it is not: with a verdict other than   *)
(* INCOMPLETE every file reached was read.                                   *)
CompleteOrSaid ==
  (Done /\ Verdict # "INCOMPLETE") => \A f \in Reached \cup Manifests : Readable(f) /\ (f \in Texts => f \in seen)

(* "a manifest names it as where its dependencies come from, so they are in  *)
(* that manifest's scope": a file with the name of a development or          *)
(* constraint file is the product's when a project file says so, before or   *)
(* after it was read.                                                        *)
NamedIsNotDev ==
  Done => \A m \in Manifests : \A i \in 1..Len(names[m]) :
            (Readable(m) /\ Kind(m) # "setuppy" /\ names[m][i].file \in NamedIn(m) /\ names[m][i].scope \in {"required", "optional"}) =>
              \A d \in deps : d.file = names[m][i].file => d.scope \notin {"dev", "constraint"}
=============================================================================
