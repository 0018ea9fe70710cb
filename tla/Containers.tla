------------------------------ MODULE Containers ------------------------------
(***************************************************************************)
(* How key_provenance.py searches archives: by their bytes, whatever they  *)
(* are named, archives inside archives included, within limits on depth,   *)
(* on one member and on all that one file may unpack to.  What is not read *)
(* must be named.  Data is text, a private key, an archive no reader is    *)
(* shipped for, or a container: zip, tar or a compressed stream.  Sizes    *)
(* are what unpacking yields; a container itself counts 1, since it is     *)
(* compressed.                                                             *)
(***************************************************************************)
EXTENDS Naturals, Sequences, FiniteSets, SequencesExt

CONSTANTS
  MemberLimit, TotalLimit, Depth,   \* _ARCHIVE_MEMBER_LIMIT, _ARCHIVE_TOTAL_LIMIT, _ARCHIVE_DEPTH
  Sizes,                            \* sizes of what is not a container
  MaxPacked                         \* bound on how often a file is packed

VARIABLES file,     \* what the file holds
          packed,
          name      \* "archive" when _ARCHIVE_NAMES has its suffix

Leaf(kind, size) == [kind |-> kind, size |-> size, body |-> <<>>]
Leaves == {Leaf(kind, n) : kind \in {"text", "key"}, n \in Sizes} \cup {Leaf("7z", 1)}
Container(kind, body) == [kind |-> kind, size |-> 1, body |-> body]

(* A member opens, is compressed by a method no reader here has, or makes    *)
(* the reader stop with an error (encrypted, damaged).                       *)
Member(flag, data) == [flag |-> flag, data |-> data]

ContainerKind(d) == IF d.kind \in {"zip", "sfx", "tar", "stream"} THEN d.kind ELSE "none"
OtherArchive(d) == d.kind = "7z"

(* Cut off, a text or a key is a text and an archive cannot be opened.       *)
CutTo(d, n) ==
  IF ContainerKind(d) = "none" THEN [d EXCEPT !.size = n, !.kind = IF d.kind = "7z" THEN "7z" ELSE "text"]
  ELSE [d EXCEPT !.body = <<Member("error", Leaf("text", 1))>>]

-----------------------------------------------------------------------------
(* Reading the members of one zip or tar, in order, out of the budget.       *)

Min2(a, b) == IF a < b THEN a ELSE b
Start == [budget |-> TotalLimit, held |-> 0, whole |-> TRUE, members |-> <<>>, stopped |-> FALSE]
Stop(r) == [r EXCEPT !.stopped = TRUE, !.whole = FALSE]

Take(r) == Min2(MemberLimit, r.budget)

ReadAs(r, m, body, whole) ==
  IF r.stopped THEN r
  ELSE IF m.flag = "method" THEN [r EXCEPT !.whole = FALSE]
  ELSE IF m.flag = "error" \/ r.budget = 0 THEN Stop(r)
  ELSE [r EXCEPT !.members = Append(r.members, body), !.whole = whole,
                 !.budget = IF @ >= body.size THEN @ - body.size ELSE 0, !.held = @ + body.size]

(* Faults in ReadMember: a member cut at its limit is taken for the whole;  *)
(* one that just fits is taken for a cut one; nothing is cut.               *)
ReadCutMember(r, m) ==
  ReadAs(r, m, IF m.data.size > Take(r) THEN CutTo(m.data, Take(r)) ELSE m.data, r.whole)
ReadExact(r, m) ==
  ReadAs(r, m, IF m.data.size >= Take(r) THEN CutTo(m.data, Take(r)) ELSE m.data, r.whole /\ m.data.size < Take(r))
ReadUnlimited(r, m) == ReadAs(r, m, m.data, r.whole)

ReadMember(r, m) ==
  LET cut == m.data.size > Take(r)
  IN  ReadAs(r, m, IF cut THEN CutTo(m.data, Take(r)) ELSE m.data, r.whole /\ ~cut)

(* A stream is unpacked as a whole: an error anywhere in it loses all of it. *)
ReadStream(r, d) ==     \* _decompress_all
  LET m == d.body[1].data
      cut == m.size > r.budget
      body == IF cut THEN CutTo(m, r.budget) ELSE m
  IN  IF \E i \in 1..Len(d.body) : d.body[i].flag = "error" THEN Stop(r)
      ELSE [r EXCEPT !.members = <<body>>, !.budget = @ - body.size, !.held = @ + body.size, !.whole = r.whole /\ ~cut]

ReadContainer(s, d) ==
  LET r == [Start EXCEPT !.budget = s.budget, !.held = s.held, !.whole = s.whole]
  IN  IF d.kind = "stream" THEN ReadStream(r, d) ELSE FoldSeq(LAMBDA m, acc : ReadMember(acc, m), r, d.body)

-----------------------------------------------------------------------------
(* _search_container.  s is the state it passes down: budget, whole, read,   *)
(* and what it found; `opened` is what it returns.                           *)

Fresh == [budget |-> TotalLimit, held |-> 0, whole |-> TRUE, read |-> FALSE, found |-> FALSE, opened |-> FALSE]
SetOpened(s) == [s EXCEPT !.opened = TRUE]

(* Fault in Search: what is nested too deep is passed over.                  *)
RECURSIVE SearchShallow(_, _, _)
SearchShallow(s, d, depth) ==
  LET r == ReadContainer(s, d)
      unopened == r.members = <<>> /\ r.stopped
      into == [s EXCEPT !.budget = r.budget, !.held = r.held,
                        !.whole = IF unopened /\ depth = 0 THEN s.whole ELSE r.whole]
      member(acc, b) ==
        IF ContainerKind(b) # "none" THEN SearchShallow(acc, b, depth + 1)
        ELSE IF OtherArchive(b) THEN [acc EXCEPT !.whole = FALSE]
        ELSE [acc EXCEPT !.read = TRUE, !.found = acc.found \/ b.kind = "key"]
  IN  CASE ContainerKind(d) = "none" -> [s EXCEPT !.opened = FALSE]
        [] ContainerKind(d) # "none" /\ depth >= Depth -> SetOpened(s)
        [] OTHER -> IF unopened THEN [into EXCEPT !.opened = depth > 0]
                    ELSE SetOpened(FoldSeq(LAMBDA b, acc : member(acc, b), into, r.members))

RECURSIVE Search(_, _, _)
Search(s, d, depth) ==
  LET r == ReadContainer(s, d)
      unopened == r.members = <<>> /\ r.stopped
      into == [s EXCEPT !.budget = r.budget, !.held = r.held,
                        !.whole = IF unopened /\ depth = 0 THEN s.whole ELSE r.whole]
      member(acc, b) ==
        IF ContainerKind(b) # "none" THEN Search(acc, b, depth + 1)
        ELSE IF OtherArchive(b) THEN [acc EXCEPT !.whole = FALSE]
        ELSE [acc EXCEPT !.read = TRUE, !.found = acc.found \/ b.kind = "key"]
  IN  CASE ContainerKind(d) = "none" -> [s EXCEPT !.opened = FALSE]
        [] ContainerKind(d) # "none" /\ depth >= Depth -> SetOpened([s EXCEPT !.whole = FALSE])
        [] OTHER -> IF unopened THEN [into EXCEPT !.opened = depth > 0]
                    ELSE SetOpened(FoldSeq(LAMBDA b, acc : member(acc, b), into, r.members))

(* _archive_contents: what is recorded of a file that was searched.          *)
Listed(d, s) ==
  CASE ~s.opened -> IF d.kind = "zip" \/ OtherArchive(d) \/ name = "archive"
                    THEN {"archives_not_opened"} ELSE {}
    [] s.opened /\ ~s.whole -> {"archives_not_fully_read"} \cup (IF s.read THEN {} ELSE {"archives_read_nothing"})
    [] OTHER -> {}

Searched == Search(Fresh, file, 0)
Unread == Listed(file, Searched)

-----------------------------------------------------------------------------
(* A file is packed again and again, with another member before or after it. *)

Init == /\ file \in Leaves /\ packed = 0
        /\ name \in {"archive", "other"}

Others == {Member("ok", Leaf("text", 1)), Member("ok", Leaf("key", 1)), Member("error", Leaf("key", 1))}

Pack(kind, flag) ==
  LET m == Member(flag, file)
  IN  \/ file' = Container(kind, <<m>>)
      \/ \E o \in Others : file' \in {Container(kind, <<m, o>>), Container(kind, <<o, m>>)}

Next == /\ packed < MaxPacked /\ packed' = packed + 1 /\ UNCHANGED name
        /\ \/ Pack("zip", "ok") \/ Pack("zip", "method")
           \/ Pack("sfx", "ok")        \* a zip with bytes in front of it
           \/ Pack("tar", "ok")
           \/ file' = Container("stream", <<Member("ok", file)>>)
           \/ file' = Container("stream", <<Member("ok", file), Member("error", file)>>)

Spec == Init /\ [][Next]_<<file, packed, name>>

-----------------------------------------------------------------------------
RECURSIVE HasKey(_)
HasKey(d) == d.kind = "key" \/ \E i \in 1..Len(d.body) : HasKey(d.body[i].data)

RECURSIVE Obstacle(_, _)
Obstacle(d, depth) ==    \* something that keeps part of d from being read, limits on size aside
  \/ OtherArchive(d)
  \/ ContainerKind(d) # "none" /\ depth >= Depth
  \/ \E i \in 1..Len(d.body) : d.body[i].flag # "ok" \/ Obstacle(d.body[i].data, depth + 1)

RECURSIVE Total(_)
Total(d) ==
  LET sizes[i \in 0..Len(d.body)] == IF i = 0 THEN 0 ELSE sizes[i - 1] + d.body[i].data.size + Total(d.body[i].data)
  IN  sizes[Len(d.body)]

RECURSIVE Largest(_)
Largest(d) == LET inner == {d.body[i].data.size : i \in 1..Len(d.body)}
                           \cup {Largest(d.body[i].data) : i \in 1..Len(d.body)}
              IN  IF inner = {} THEN 0 ELSE CHOOSE n \in inner : \A k \in inner : k <= n

Named == name = "archive" \/ file.kind \in {"zip", "7z"}

(* No key is passed over in silence: one inside an archive that was opened,  *)
(* or that its name or first bytes give away, is found, or the file is       *)
(* listed as one that was not (fully) read, whatever limit or damage hid it. *)
NoKeyUnnamed ==
  ContainerKind(file) # "none" /\ HasKey(file) /\ (Searched.opened \/ Named) => Searched.found \/ Unread # {}

(* Nothing is listed without cause: an archive within every limit, with      *)
(* nothing in it that cannot be opened, is read to the end and not listed.   *)
Readable == ~Obstacle(file, 0) /\ Total(file) <= TotalLimit /\ Largest(file) <= MemberLimit
ListedHasCause ==
  ContainerKind(file) # "none" /\ Readable =>
    Unread = {} /\ Searched.read /\ (Searched.found <=> HasKey(file))

(* All that one file unpacks to, over every level, stays within its budget:  *)
(* an archive that grows at each level cannot exhaust memory.                *)
WithinBudget == Searched.held <= TotalLimit
=============================================================================
