------------------------------- MODULE Outputs -------------------------------
(***************************************************************************)
(* Where the commands write (_cli.py).  A scan reads a tree, may sign with *)
(* a key, and writes a report and a page; a conversion reads a report and  *)
(* writes a document.  Whoever runs them has files, symbolic links and     *)
(* hard links wherever they like, and names any of them as an output.      *)
(* Nothing a run reads may be destroyed by what it writes.                 *)
(***************************************************************************)
EXTENDS Naturals, Sequences, FiniteSets

CONSTANTS
  PathNames,       \* paths, already absolute
  InTree,      \* those inside the tree that is scanned
  Folders,     \* those that are folders
  Orphans,     \* those whose folder does not exist
  KeyName,     \* the signing key
  MaxWrites    \* bound on runs and on what the user does

ASSUME PathsAssumption == /\ IsFiniteSet(PathNames) /\ KeyName \in PathNames /\ InTree \subseteq PathNames
                          /\ MaxWrites \in Nat

NoFile == 0
Inodes == 0..(Cardinality(PathNames) + MaxWrites)

VARIABLES
  alias,   \* what a path resolves to: itself, or what a symbolic link names
  ino,     \* the file each path is; hard links are one file
  body,    \* what each file holds
  code,    \* the exit code of the last run
  steps

outVars == <<alias, ino, body, code, steps>>

(* What a file holds: source, a key, a document of this tool's by which its *)
(* own readers know it, or one they do not (SARIF, CSAF).                   *)
BodyKinds == {"source", "key", "report", "page", "sarif"}
OwnOutput(n) == body[ino[n]] \in {"report", "page"}
Exists(n) == ino[n] # NoFile
SameFile(m, n) == Exists(m) /\ Exists(n) /\ ino[m] = ino[n]
Unused(table) == CHOOSE i \in Inodes \ {NoFile} : \A n \in PathNames : table[n] # i

-----------------------------------------------------------------------------
(* missing_folder: `outs` in order, `inputs`, `tree` and `key` as given.     *)

LinkedIntoTree(n) == \E t \in InTree : SameFile(n, t)

(* Faults in Reads: only the path is compared; in OverwritesSource: only the *)
(* path; in GuardsKey: a symbolic link is not followed.                      *)
ReadsByName(n, inputs) == n \in {alias[i] : i \in inputs}
Reads(n, inputs) == n \in {alias[i] : i \in inputs} \/ \E i \in inputs : SameFile(n, alias[i])

OverwritesByName(n) == Exists(n) /\ ~OwnOutput(n) /\ n \in InTree
OverwritesSource(n) == Exists(n) /\ ~OwnOutput(n) /\ (n \in InTree \/ LinkedIntoTree(n))

GuardsUnresolved(n) == n = KeyName /\ alias[n] = n
GuardsKey(n) == n = alias[KeyName]

Clash(outs, inputs, tree, key) ==
  \E i \in 1..Len(outs) :
    LET full == alias[outs[i]] IN
    \/ full \in Orphans \cup Folders
    \/ key /\ GuardsKey(full)
    \/ Reads(full, inputs)
    \/ tree /\ OverwritesSource(full)
    \/ \E j \in 1..(i - 1) : alias[outs[j]] = full

-----------------------------------------------------------------------------
(* write_text truncates the file in place: every hard link sees it.          *)
WriteText(fs, n, kind) ==
  LET i == IF fs.ino[n] # NoFile THEN fs.ino[n] ELSE Unused(fs.ino)
  IN  [ino |-> [fs.ino EXCEPT ![n] = i], body |-> [fs.body EXCEPT ![i] = kind]]

(* One output or two.                                                        *)
Written(fs, outs, kinds) ==
  LET first == WriteText(fs, alias[outs[1]], kinds[1])
  IN  IF Len(outs) = 1 THEN first ELSE WriteText(first, alias[outs[2]], kinds[2])

(* Signing replaces the key's file (module StateIO): its name leads to a new *)
(* file, and a hard link keeps the old one.                                  *)
(* Fault in Resaved: the key is written in place.                            *)
ResavedInPlace(fs) == fs
Resaved(fs) == [ino |-> [fs.ino EXCEPT ![alias[KeyName]] = Unused(ino)], body |-> [fs.body EXCEPT ![Unused(ino)] = "key"]]

Apply(fs) == ino' = fs.ino /\ body' = fs.body
Now == [ino |-> ino, body |-> body]
Command == steps < MaxWrites /\ steps' = steps + 1 /\ UNCHANGED alias

(* An audit or inventory: one or two outputs.                                *)
Scan(outs, key) ==
  /\ Command
  /\ key => Exists(alias[KeyName]) /\ body[ino[alias[KeyName]]] = "key"
  /\ IF Clash(outs, {}, TRUE, key) THEN code' = 2 /\ UNCHANGED <<ino, body>>
     ELSE code' = 0 /\ Apply(Written(IF key THEN Resaved(Now) ELSE Now, outs, <<"report", "page">>))

(* A conversion; a missing folder shows when the document is written.        *)
Conversion(input, out) ==
  /\ Command
  /\ Exists(alias[input]) /\ body[ino[alias[input]]] = "report"
  /\ IF Clash(<<out>>, {input}, FALSE, FALSE) THEN code' = 2 /\ UNCHANGED <<ino, body>>
     ELSE code' = 0 /\ Apply(Written(Now, <<out>>, <<"sarif">>))

(* The user makes a file or another name for one.                            *)
Create(n) == /\ Command /\ n \notin Folders \cup Orphans /\ alias[n] = n /\ ~Exists(n)
             /\ \/ \E m \in PathNames : Exists(m) /\ ino' = [ino EXCEPT ![n] = ino[m]] /\ UNCHANGED body
                \/ \E kind \in BodyKinds : ino' = [ino EXCEPT ![n] = Unused(ino)] /\ body' = [body EXCEPT ![Unused(ino)] = kind]
             /\ code' = 0

(* There is a key, and at most one symbolic link.                            *)
OutputsInit ==
  /\ alias \in {a \in [PathNames -> PathNames] :
                 \A n \in PathNames : a[a[n]] = a[n] /\ (n \in InTree \cup Folders \cup Orphans => a[n] = n)}
  /\ Cardinality({n \in PathNames : alias[n] # n}) <= 1
  /\ ino = [n \in PathNames |-> IF n = alias[KeyName] THEN 1 ELSE NoFile]
  /\ body = [i \in Inodes |-> IF i = 1 THEN "key" ELSE "source"]
  /\ code = 0 /\ steps = 0

OutputsNext ==
  \/ \E a, b \in PathNames, key \in BOOLEAN : Scan(<<a>>, key) \/ Scan(<<a, b>>, key)
  \/ \E a, b \in PathNames : Conversion(a, b)
  \/ \E n \in PathNames : Create(n)

OutputsSpec == OutputsInit /\ [][OutputsNext]_outVars

-----------------------------------------------------------------------------
Holds(n) == IF Exists(alias[n]) THEN body[ino[alias[n]]] ELSE "nothing"
Scans == \E a, b \in PathNames, key \in BOOLEAN : Scan(<<a>>, key) \/ Scan(<<a, b>>, key)

(* A conversion leaves the report it reads as it was, under every name.      *)
KeepsInput == \A a, b \in PathNames : Conversion(a, b) => Holds(a)' = Holds(a)

(* No scan overwrites a file of the tree that this tool did not write, by    *)
(* whatever path or link the output is named.                                *)
KeepsSource ==
  Scans => \A n \in InTree : Holds(n) \notin {"report", "page", "nothing"} => Holds(n)' = Holds(n)

(* No signed scan destroys the key it signed with: not by its own path or a  *)
(* symbolic link to it, and not by a hard link, since signing has put        *)
(* another file in its place.                                                *)
KeepsKey == \A a, b \in PathNames : Scan(<<a>>, TRUE) \/ Scan(<<a, b>>, TRUE) => Holds(KeyName)' = "key"

(* No command replaces a report that it reads, a source of the tree, or the *)
(* key it signs with.                                                       *)
NothingReadIsLost == [][Command => KeepsInput /\ KeepsSource /\ KeepsKey]_outVars
=============================================================================
