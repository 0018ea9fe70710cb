------------------------------ MODULE ShellLines ------------------------------
(***************************************************************************)
(* entrovouch/no_egress_auditor.py, _check_script_lines on a shell script: *)
(* which of its lines are judged as commands, which are read as Python and *)
(* which are passed over as text.  A behaviour writes a script while a     *)
(* shell takes each line, and then the reader goes through it.             *)
(***************************************************************************)
EXTENDS Naturals, Sequences, FiniteSets, SequencesExt, TLC

CONSTANTS Scripts,  \* what a script may be written with: sets of lines
          MaxLines  \* bound on the script

(* A line is a sequence of words: "go" is a command that reaches the network,
   `$go` one that is substituted; "cat", "sh" and "python" take a body, "echo"
   none; "'", "dq", "$(" and ")" quote; "#", ";", "|" and a last "\\" are the
   shell's, and "tab" an indent; "import" is Python, "A" and "B" words. *)
Docs == ("<<A" :> "A") @@ ("<<B" :> "B") @@ ("<<-A" :> "A")
Joins == {";"}
Starts == {";", "|", "$("}
PythonWords == {"import", "$go", "A", "B"}

VARIABLES lines,   \* the script
          allowed, \* the lines it is written with
          shell,   \* what a shell that runs it has done
          reading  \* the reader, or NotRead

vars == <<lines, allowed, shell, reading>>

NotRead == [at |-> 0]
Top(quote) == IF quote = <<>> THEN "none" ELSE Last(quote)
Quoted(quote) == Top(quote) \in {"'", "dq"}

\* The quotes open after each word of a line (_shell_quote_scan): a substitution in a string quotes afresh.
QuotesOf(words, before) ==
  LET After[k \in 0 .. Len(words)] ==
        IF k = 0 THEN before
        ELSE LET q == After[k - 1]
                 w == words[k]
             IN  CASE w = Top(q) /\ w \in {"'", "dq"} -> Front(q)
                   [] w = ")" /\ Top(q) = "$(" -> Front(q)
                   [] w \in {"'", "dq"} /\ ~Quoted(q) -> Append(q, w)
                   [] w = "$(" /\ Top(q) = "dq" -> Append(q, w)
                   [] OTHER -> q
  IN  After

\* The line without its margin, as `<<-` compares it.
Unindented(words, dash) == IF dash /\ words # <<>> /\ Head(words) = "tab" THEN Tail(words) ELSE words

-----------------------------------------------------------------------------
(* The reader's side of one line. *)
\* A `#` word and all after it (_TRAILING_COMMENT_RE).
Cut(words) == LET at == {k \in DOMAIN words : words[k] = "#"}
              IN  IF at = {} THEN words ELSE SubSeq(words, 1, (CHOOSE k \in at : \A j \in at : k <= j) - 1)
Continues(words) == LET w == Cut(words) IN w # <<>> /\ Last(w) = "\\"

\* The lines one command runs over, and its words.
JoinedTo(i) == CHOOSE c \in i .. Len(lines) :
                 /\ c = Len(lines) \/ ~Continues(lines[c])
                 /\ \A k \in i .. c - 1 : Continues(lines[k])
Stripped(i, c) == SelectSeq(FlattenSeq([k \in 1 .. c - i + 1 |-> Cut(lines[i + k - 1])]), LAMBDA w : w \notin {"\\", "tab"})

\* The pieces of a line: from the last of `at` before k, or up to the next one after it.
Before(words, k, at) == LET js == {j \in 1 .. k - 1 : words[j] \in at}
                        IN  SubSeq(words, IF js = {} THEN 1 ELSE (CHOOSE j \in js : \A i \in js : i <= j) + 1, k - 1)
Rest(words, k, at) == LET js == {j \in k + 1 .. Len(words) : words[j] \in at}
                      IN  SubSeq(words, k + 1, IF js = {} THEN Len(words) ELSE (CHOOSE j \in js : \A i \in js : i >= j) - 1)
Segment(words, k) == Before(words, k, Joins) \o <<words[k]>> \o Rest(words, k, Joins)

\* The interpreter a here-document is handed to, directly or through the pipe after it.
PythonReads(words, k) ==
  LET own == Before(words, k, Starts)
      after == Rest(words, k, Joins)
  IN  \/ own # <<>> /\ Head(own) = "python"
      \/ Len(after) > 1 /\ after[1] = "|" /\ after[2] = "python"

(* Fault in RunsAsCode: only the program the body is handed to is looked at. *)
RunsAsCodeFirst(words, k) == Segment(words, k) # <<>> /\ Head(Segment(words, k)) = "sh"

\* The body is run: a shell in its command, or what `$(cat <<A` prints where that stands as a command.
RunsAsCode(words, k) ==
  \/ Contains(Segment(words, k), "sh")
  \/ k > 2 /\ words[k - 1] = "cat" /\ words[k - 2] = "$(" /\ (k = 3 \/ words[k - 3] = ";")

\* Handed to a file that may be run later.
ToScript(words, k) == Contains(Segment(words, k), ">script")

\* Where a body that starts at `from` ends: a line that is the word exactly.
Ends(doc, from) == {j \in from .. Len(lines) : Unindented(lines[j], doc = "<<-A") = <<Docs[doc]>>}

Substitutes(from, to) == \E k \in from .. to : Contains(lines[k], "$go")
Parses(doc, from, to) ==
  \A k \in from .. to : LET w == Unindented(lines[k], doc = "<<-A") IN \A j \in DOMAIN w : w[j] \in PythonWords

Begun == [at |-> 1, skip |-> {}, judged |-> {}, python |-> {}, ends |-> <<>>, textTo |-> 0, checked |-> 0, quote |-> <<>>]

(* Fault in EndIn: an enclosing body's end is not minded. *)
EndInAnywhere(ends, js) == IF js = {} THEN 0 ELSE CHOOSE j \in js : \A i \in js : j <= i

\* The end of a body, or 0: the enclosing body ends first.
EndIn(ends, js) ==
  LET j == IF js = {} THEN 0 ELSE CHOOSE k \in js : \A i \in js : k <= i
  IN  IF j # 0 /\ ends # <<>> /\ j >= Last(ends) THEN 0 ELSE j

(* One here-document, in the order they open on a line; d holds the reader r,
   where the next body starts, the bodies opened, and whether the loop ended. *)
Document(d, words, k) ==
  LET r == d.r
      doc == words[k]
      j == EndIn(r.ends, Ends(doc, d.from))
      open == IF r.ends = <<>> THEN Len(lines) + 1 ELSE Last(r.ends)
      python == PythonReads(words, k)
      On(from, to) == IF Parses(doc, from, to) THEN r.python \cup (from .. to) ELSE r.python
  IN  CASE d.over -> d
        [] j = 0 ->
             [d EXCEPT !.over = TRUE,
                       !.r = IF python /\ open > r.checked
                             THEN [r EXCEPT !.checked = open, !.python = On(d.from, open - 1)] ELSE r]
        [] j # 0 /\ python ->
             LET lined == Substitutes(d.from, j - 1) \/ ~Parses(doc, d.from, j - 1)
             IN  [d EXCEPT !.from = j + 1,
                           !.r = [r EXCEPT !.python = On(d.from, j - 1),
                                           !.textTo = IF lined /\ j > @ THEN j ELSE @,
                                           !.skip = IF lined THEN @ ELSE @ \cup (d.from .. j)]]
        [] j # 0 /\ ~python /\ ~ToScript(words, k) /\ ~RunsAsCode(words, k) ->
             [d EXCEPT !.from = j + 1, !.r = [r EXCEPT !.skip = @ \cup (d.from .. j)]]
        [] OTHER -> [d EXCEPT !.from = j + 1, !.opened = @ \cup {j}]

(* Fault in OpenedWith: each line is quoted on its own. *)
OpenedWithAfresh(r) == <<>>

\* The quotes a line starts in.
OpenedWith(r) == r.quote

\* One command: the bodies it opens, and the line itself.
Step(r0) ==
  LET i == r0.at
      c == JoinedTo(i)
      words == Stripped(i, c)
      r == [r0 EXCEPT !.at = c + 1, !.ends = SelectSeq(@, LAMBDA e : e >= i)]
      quotes == QuotesOf(words, OpenedWith(r))
      inText == i <= r.textTo
      docs == SelectSeq([k \in DOMAIN words |-> k], LAMBDA k : words[k] \in DOMAIN Docs /\ ~Quoted(quotes[k]))
      read == IF inText THEN [r |-> r, opened |-> {}]
              ELSE FoldLeft(LAMBDA d, k : Document(d, words, k), [r |-> r, from |-> c + 1, opened |-> {}, over |-> FALSE], docs)
  IN  CASE i \in r0.skip -> [r0 EXCEPT !.at = i + 1]
        [] words = <<>> -> [r0 EXCEPT !.at = c + 1]
        [] OTHER -> [read.r EXCEPT !.judged = @ \cup (i .. c),
                                   !.ends = @ \o Reverse(SetToSortSeq(read.opened, <)),
                                   !.quote = IF inText THEN @ ELSE quotes[Len(words)]]

-----------------------------------------------------------------------------
(* The shell.  `bodies` are the inputs that are open, the script first and the
   body being read last: who reads it, the word that ends it, its lines, its
   quotes, the here-documents that come after it and the words of a command
   that goes on.  `odd` notes what the reader is known to take another way. *)
Input(reads, doc, after) ==
  [reads |-> reads, doc |-> doc, lines |-> {}, quote |-> <<>>, waiting |-> after, held |-> <<>>]
Fresh == [bodies |-> <<Input("shell", "none", <<>>)>>, ran |-> {}, text |-> {}, odd |-> FALSE]

\* Who gets the body of the k-th word: the program after the last start, or the one its output is piped to.
Receiver(words, k) ==
  LET own == Before(words, k, Starts)
      after == Rest(words, k, Joins)
      program == IF own = <<>> THEN "none" ELSE Head(own)
      piped == IF Len(after) > 1 /\ after[1] = "|" THEN after[2] ELSE "none"
      handed == k > 2 /\ words[k - 2] = "$("
  IN  CASE own = <<>> -> "nobody"
        [] program \in {"sh", "python"} -> IF program = "sh" THEN "shell" ELSE "python"
        [] program = "cat" /\ piped \in {"sh", "python"} -> IF piped = "sh" THEN "shell" ELSE "python"
        [] program = "cat" /\ (handed \/ Contains(after, ">script")) -> "shell"
        [] OTHER -> "text"

\* The body, if any, that a line ends: the outermost one of that word.
Closed(line) ==
  LET at == {b \in 2 .. Len(shell.bodies) : Unindented(line, shell.bodies[b].doc = "<<-A") = <<Docs[shell.bodies[b].doc]>>}
  IN  IF at = {} THEN 0 ELSE CHOOSE b \in at : \A a \in at : b <= a

\* The next waiting here-document is opened, where no string is open.
Opening(bodies) ==
  LET b == Last(bodies)
  IN  IF b.waiting = <<>> \/ Quoted(b.quote) THEN bodies
      ELSE Append(Front(bodies) \o <<[b EXCEPT !.waiting = Tail(@)]>>, Head(b.waiting))

End(line, n) ==
  LET at == Closed(line)
      b == shell.bodies[at]
  IN  shell' = [shell EXCEPT
        !.bodies = Opening(SubSeq(@, 1, at - 1)),
        !.text = IF b.reads = "text" THEN @ \cup b.lines ELSE @,
        !.odd = @ \/ \E a \in at .. Len(shell.bodies) : shell.bodies[a].reads = "shell" /\ shell.bodies[a].quote # <<>>]

Read(line, n) ==
  LET b == Last(shell.bodies)
      words == b.held \o line
      quotes == QuotesOf(words, b.quote)
      hash == {k \in DOMAIN words : words[k] = "#"}
      stop == LET free == {k \in hash : ~Quoted(quotes[k - 1])}
              IN  IF free = {} THEN Len(words) ELSE (CHOOSE k \in free : \A j \in free : k <= j) - 1
      goesOn == stop > 0 /\ words[stop] = "\\" /\ stop = Len(words) /\ Top(quotes[stop]) # "'"
      runs == \E k \in 1 .. stop : words[k] \in {"go", "$go"} /\ ~Quoted(quotes[k])
      docs == SelectSeq([k \in 1 .. stop |-> k], LAMBDA k : words[k] \in DOMAIN Docs /\ ~Quoted(quotes[k]))
      inputs == [k \in DOMAIN docs |-> Input(Receiver(words, docs[k]), words[docs[k]], <<>>)]
  IN  shell' = IF goesOn
               THEN [shell EXCEPT !.bodies = Front(@) \o <<[b EXCEPT !.held = SubSeq(words, 1, stop - 1), !.lines = @ \cup {n}]>>]
               ELSE [shell EXCEPT
                      !.bodies = Opening(Front(@) \o <<[b EXCEPT !.held = <<>>, !.lines = @ \cup {n},
                                                                !.quote = quotes[stop], !.waiting = @ \o inputs]>>),
                      !.ran = IF runs THEN @ \cup {n} ELSE @,
                      !.odd = @ \/ (docs # <<>> /\ Quoted(quotes[stop])) \/ hash \ {stop + 1} # {}]

Write(line) ==
  LET n == Len(lines) + 1
      b == Last(shell.bodies)
      inside == Len(shell.bodies) > 1
  IN  /\ reading = NotRead /\ n <= MaxLines
      /\ Contains(line, "\\") => ~inside      \* (a backslash carries a line on in the script only)
      /\ lines' = Append(lines, line)
      /\ UNCHANGED <<allowed, reading>>
      /\ CASE Closed(line) # 0 -> End(line, n)
           [] Closed(line) = 0 /\ b.reads = "shell" -> Read(line, n)
           [] OTHER -> shell' = [shell EXCEPT
                         !.bodies = Front(@) \o <<[b EXCEPT !.lines = @ \cup {n}]>>,
                         !.ran = IF b.reads = "python" /\ Contains(line, "$go") THEN @ \cup {n} ELSE @]

Go ==
  /\ reading.at <= Len(lines) /\ lines # <<>>
  /\ reading' = IF reading = NotRead THEN Begun ELSE Step(reading)
  /\ UNCHANGED <<lines, allowed, shell>>

Init == lines = <<>> /\ allowed \in Scripts /\ shell = Fresh /\ reading = NotRead

Next == (\E line \in allowed : Write(line)) \/ Go

Spec == Init /\ [][Next]_vars

-----------------------------------------------------------------------------
Done == reading.at > Len(lines) /\ lines # <<>>

\* What an opener in a Python body that no line ends is taken for passes over lines the shell substitutes in.
Settled ==
  /\ ~shell.odd
  /\ \A b \in DOMAIN shell.bodies : shell.bodies[b].reads = "python" =>
       \A n \in shell.bodies[b].lines : \A k \in DOMAIN lines[n] : lines[n][k] \notin DOMAIN Docs

(* A line on which a shell runs a command that reaches the network, its own or
   that of a body it was handed, is judged as a command or read as Python. *)
RunIsRead == (Done /\ Settled) => shell.ran \subseteq reading.judged \cup reading.python

(* A line of a body that a program reads as text is not judged as a command. *)
TextIsText == (Done /\ Settled) => shell.text \cap reading.judged = {}
=============================================================================
