------------------------------ MODULE TreeWalk ------------------------------
(***************************************************************************)
(* tree_files: which files of a tree every tool reads (manifests.py).  A   *)
(* folder lists its entries in whatever order the file system gives; a     *)
(* folder may be mounted in a second place, a loop included; a symbolic    *)
(* link may be one, or the short text file git leaves where it cannot make *)
(* one.  Folders are their identities (device and inode).                  *)
(***************************************************************************)
EXTENDS Naturals, Sequences, FiniteSets, SequencesExt, FiniteSetsExt

CONSTANTS
  Skip,         \* names skipped wherever they are
  Pointers,     \* `.git`, `.coverage`: files that are skipped
  Manifests,    \* names of manifests: a bare word in one is a declaration
  Composed(_),  \* a name's NFC form
  Root, Outside,\* the tree's folder, and the one above it
  Trees         \* the file systems a walk may meet: entries by folder and name

VARIABLES
  fs,       \* [folder -> [name -> entry]]
  pending,  \* folders to walk, with their parts inside the tree
  seen,     \* identities met
  files,    \* [rel, stored, at] of each file to be read
  skipped,  \* skipped folders and files, by their path
  links     \* entries counted as links

twVars == <<fs, pending, seen, files, skipped, links>>

(* Entries: a file with its text, a folder with its identity, a link with    *)
(* its text.  A text is a path, or not one.                                  *)
Code == [up |-> 0, parts |-> <<>>]
File(text) == [kind |-> "file", text |-> text, to |-> Root]
Folder(id) == [kind |-> "folder", text |-> Code, to |-> id]
Link(text) == [kind |-> "link", text |-> text, to |-> Root]

-----------------------------------------------------------------------------
(* os.listdir follows links: the folder a path inside the tree leads to, or  *)
(* {} when there is none.  A trail is the folders from the outside down.     *)
Ups(n) == [i \in 1..n |-> ".."]

RECURSIVE Lead(_, _, _, _)
Lead(g, trail, parts, fuel) ==
  IF parts = <<>> THEN {Last(trail)}
  ELSE IF Head(parts) = ".."
  THEN IF Len(trail) = 1 THEN {} ELSE Lead(g, Front(trail), Tail(parts), fuel)
  ELSE IF fuel = 0 \/ Head(parts) \notin DOMAIN g[Last(trail)] THEN {}
  ELSE LET e == g[Last(trail)][Head(parts)]
       IN  CASE e.kind = "folder" -> Lead(g, Append(trail, e.to), Tail(parts), fuel - 1)
             [] e.kind = "link" -> Lead(g, trail, Ups(e.text.up) \o e.text.parts \o Tail(parts), fuel - 1)
             [] OTHER -> {}
FolderAt(g, path) == Lead(g, <<Outside, Root>>, path, 6)

Normal(path) ==      \* of parts below the root; <<"..">> is outside
  LET step(done, part) == IF part # ".." THEN Append(done, part)
                          ELSE IF done # <<>> /\ Last(done) # ".." THEN Front(done) ELSE Append(done, part)
  IN  FoldLeft(step, <<>>, path)

(* Fault in ExistsExactly: a link is nothing a text can name.                *)
ExistsAsFile(g, path) == \E at \in FolderAt(g, Front(path)) : Last(path) \in DOMAIN g[at] /\ g[at][Last(path)].kind = "file"
ExistsExactly(g, path) ==
  \A i \in 1..Len(path) : \E at \in FolderAt(g, SubSeq(path, 1, i - 1)) : path[i] \in DOMAIN g[at]

IsLinkPlaceholder(g, own, text) ==
  LET joined == Normal(Front(own) \o Ups(text.up) \o text.parts)
  IN  /\ text # Code
      /\ ~(Last(own) \in Manifests /\ text.up = 0 /\ Len(text.parts) = 1)
      /\ ~(text.up = 0 /\ text.parts = <<Last(own)>>)
      /\ joined \notin {<<>>, <<"..">>, own}
      /\ \/ Head(joined) = ".."
         \/ \E i \in 1..Len(joined) : joined[i] \in Skip
         \/ ExistsExactly(g, joined)

-----------------------------------------------------------------------------
(* _walk_one: one folder, whose subfolders come in some order.               *)

RECURSIVE Count(_, _, _)
Count(g, at, met) ==      \* files under a skipped folder, links left aside
  LET es == g[at]
      below == {n \in DOMAIN es : es[n].kind = "folder" /\ es[n].to \notin met}
  IN  Cardinality({n \in DOMAIN es : es[n].kind = "file"})
        + MapThenSumSet(LAMBDA n : Count(g, es[n].to, met \cup {es[m].to : m \in below}), below)

(* Faults in First: a mounted folder is not recognised.                      *)
NeverMet(g, at, order, i, met) == TRUE
First(g, at, order, i, met) ==
  LET id == g[at][order[i]].to IN id \notin met /\ \A j \in 1..(i - 1) : g[at][order[j]].to # id

(* Fault in IsFile: a worktree's `.git` is read.                             *)
IsAnyFile(g, at, parts, n) ==
  g[at][n].kind = "file" /\ ~IsLinkPlaceholder(g, Append(parts, n), g[at][n].text)
IsFile(g, at, parts, n) ==
  /\ g[at][n].kind = "file" /\ n \notin Pointers
  /\ ~IsLinkPlaceholder(g, Append(parts, n), g[at][n].text)

WalkOne ==
  /\ pending # <<>>
  /\ LET at == Head(pending).at
         parts == Head(pending).parts
         es == fs[at]
         folders == {n \in DOMAIN es : es[n].kind = "folder"}
     IN  \E order \in SetToSeqs(folders) :
           LET new == {i \in 1..Len(order) : First(fs, at, order, i, seen)}
               keep == {i \in new : order[i] \notin Skip}
               kept == [k \in 1..Cardinality(keep) |-> CHOOSE i \in keep : Cardinality({j \in keep : j < i}) = k - 1]
               read == {n \in DOMAIN es : IsFile(fs, at, parts, n)}
           IN  /\ seen' = seen \cup {es[n].to : n \in folders}
               /\ skipped' = skipped
                    \cup {Append(parts, order[i]) : i \in {j \in new \ keep : Count(fs, es[order[j]].to, {}) > 0}}
                    \cup {Append(parts, n) : n \in {m \in DOMAIN es \cap Pointers : es[m].kind = "file"}}
               /\ files' = files \cup {[rel |-> [i \in 1..(Len(parts) + 1) |-> Composed(Append(parts, n)[i])],
                                         stored |-> Append(parts, n), at |-> at] : n \in read}
               /\ links' = links + (Len(order) - Cardinality(new))
                    + Cardinality({n \in DOMAIN es : es[n].kind = "link"})
                    + Cardinality({n \in DOMAIN es \ read : es[n].kind = "file" /\ n \notin Pointers})
               /\ pending' = [k \in 1..Len(kept) |-> [at |-> es[order[kept[k]]].to,
                                                      parts |-> Append(parts, order[kept[k]])]] \o Tail(pending)
  /\ UNCHANGED fs

Init == /\ fs \in Trees
        /\ pending = <<[at |-> Root, parts |-> <<>>]>>
        /\ seen = {Root} /\ files = {} /\ skipped = {} /\ links = 0

Next == WalkOne
Spec == Init /\ [][Next]_twVars

(* _walk_tree: names that are one after NFC keep the form they are stored in.*)
(* Fault in Walked: they do not.                                             *)
WalkedComposed == {f.rel : f \in files}
Walked == {IF \E g \in files \ {f} : g.rel = f.rel THEN f.stored ELSE f.rel : f \in files}

Done == pending = <<>>

-----------------------------------------------------------------------------
(* What a walk reads, said without one: every file that names of folders not *)
(* skipped lead to, as long as no folder is mounted twice.                   *)
RECURSIVE Below(_, _, _)
Below(g, at, parts) ==
  UNION {CASE g[at][n].kind = "folder" /\ n \notin Skip -> Below(g, g[at][n].to, Append(parts, n))
           [] g[at][n].kind = "file" /\ n \notin Pointers -> {Append(parts, n)}
           [] OTHER -> {} : n \in DOMAIN g[at]}

Plain(g) ==       \* no folder has two names
  \A d, e \in DOMAIN g : \A m \in DOMAIN g[d], n \in DOMAIN g[e] :
    (g[d][m].kind = "folder" /\ g[e][n].kind = "folder" /\ g[d][m].to = g[e][n].to) => <<d, m>> = <<e, n>>
Loopless(g) == \A d \in DOMAIN g \ {Outside} : \A n \in DOMAIN g[d] : g[d][n].kind = "folder" => g[d][n].to # Root

(* The same tree checked out where links are short text files.               *)
AsText(g) == [d \in DOMAIN g |-> [n \in DOMAIN g[d] |-> IF g[d][n].kind = "link" THEN File(g[d][n].text) ELSE g[d][n]]]
Taken(g) == {p \in Below(g, Root, <<>>) :
               \A at \in FolderAt(g, Front(p)) : ~IsLinkPlaceholder(g, p, g[at][Last(p)].text)}

(* A walk's files, links and skipped entries do not depend on the order in   *)
(* which a file system lists names: a tree without mounts has one answer,    *)
(* and each of its files is read or counted as a link.                       *)
WalkIsComplete ==
  (Done /\ Plain(fs) /\ Loopless(fs)) =>
    /\ {f.stored : f \in files} = Taken(fs)
    /\ links >= Cardinality(Below(fs, Root, <<>>) \ Taken(fs))

(* A folder mounted twice, or above itself, is walked at most once: no file  *)
(* of it is read under two names.                                            *)
EachFolderOnce == \A f, g \in files : (f.at = g.at /\ Last(f.stored) = Last(g.stored)) => f = g

(* Names the file system keeps apart stay apart in the report, so a finding  *)
(* names its own file.                                                       *)
NamesKeptApart == Cardinality(Walked) = Cardinality(files)

(* What a checkout with links reads, one with links as text reads too: it    *)
(* "can add a finding but never hide one".                                   *)
TextHidesNothing == Done /\ Plain(fs) /\ Loopless(fs) => Taken(fs) \subseteq Taken(AsText(fs))
=============================================================================
