-------------------------------- MODULE JsScan -------------------------------
(***************************************************************************)
(* entrovouch/no_egress_auditor.py, _scan_js without JSX: one reading of a *)
(* JavaScript file that blanks its comments, and with `blanks` what its    *)
(* strings hold, a character a step.  A quote, a backquote or a `/*` that  *)
(* never closes is read again as text.  The file is put together from      *)
(* pieces: operands and operators as the language has them in turn,        *)
(* comments anywhere, and strays, which are text by mistake.               *)
(***************************************************************************)
EXTENDS Naturals, Sequences, SequencesExt

CONSTANTS Pieces,      \* [text, kept, code, from, to]: what a piece is, and is to be read as
          Strays,      \* pieces of one opening character that nothing closes
          LineRetries, \* _JS_LINE_RETRIES
          MaxPieces    \* bound on the file

VARIABLES file,    \* the pieces
          expects, \* "operand" or "operator"
          blanks,  \* blank_strings
          scan     \* the reading, or NotBegun

vars == <<file, expects, blanks, scan>>

NotBegun == [mode |-> "not begun"]
Newline == "nl"
\* "tick" is a backquote.
Words == {"a", "return", "if"}       \* what an identifier or keyword is read as, a word a character
RegexBefore == {"", "(", "=", "*"}
RegexAfterWords == {"return"}

Join(pieces, Part(_)) == FlattenSeq([i \in DOMAIN pieces |-> Part(pieces[i])])
Source == Join(file, LAMBDA p : p.text)

Blank(c) == IF c = Newline THEN Newline ELSE " "

-----------------------------------------------------------------------------
(* A reading: where it is, what it has put out, and what it has seen.
   `marks` are where an open string or comment began, in the source and in out. *)
Begun == [mode |-> "code", at |-> 1, out |-> <<>>, prev |-> "", word |-> "", parens |-> <<>>, control |-> FALSE,
          marks |-> <<1, 0>>, noTemplate |-> FALSE, noBlock |-> FALSE,
          stringFails |-> <<0, 0>>, regexFails |-> <<0, 0>>, noString |-> 0, noRegex |-> 0]

At(s, k) == IF s.at + k \in DOMAIN Source THEN Source[s.at + k] ELSE "end"
LineEnd(j) == CHOOSE e \in j .. Len(Source) + 1 :
                /\ e = Len(Source) + 1 \/ Source[e] = Newline
                /\ \A k \in j .. e - 1 : Source[k] # Newline

Out(s, chars, n) == [s EXCEPT !.out = @ \o chars, !.at = @ + n]
Significant(s, prev) == [s EXCEPT !.prev = prev, !.word = ""]

\* Fails counted on the line that ends at e; past LineRetries the line's quotes (or slashes) are characters.
Failed(fails, e) == IF fails[1] = e THEN <<e, fails[2] + 1>> ELSE <<e, 1>>
StringFailed(s, e) == LET f == Failed(s.stringFails, e)
                      IN  [s EXCEPT !.stringFails = f, !.noString = IF f[2] > LineRetries THEN e ELSE @]

\* Back to after the opening character, which was text.
Again(s, as) == [Significant(s, as) EXCEPT !.out = Append(SubSeq(@, 1, s.marks[2]), as), !.at = s.marks[1] + 1, !.mode = "code"]

(* Fault in Unclosed: what is open at the end of the file stays open. *)
UnclosedStays(s) == [s EXCEPT !.mode = "done"]

\* The end of the file.
Unclosed(s) ==
  CASE s.mode = "tick" -> [Again(s, "tick") EXCEPT !.noTemplate = TRUE]
    [] s.mode = "'" -> Again(StringFailed(s, Len(Source) + 1), "'")
    [] s.mode = "block" -> [Again(s, "/") EXCEPT !.noBlock = TRUE]
    [] OTHER -> [s EXCEPT !.mode = "done"]

\* The closing `/` of a regular expression on its line, honouring escapes and classes: <<found, where>>.
RegexEnd(from) ==
  LET End[j \in from + 1 .. Len(Source) + 1, class \in BOOLEAN] ==
        IF j > Len(Source) \/ Source[j] = Newline THEN <<FALSE, j>>
        ELSE IF Source[j] = "\\" /\ j < Len(Source) THEN End[j + 2, class]
        ELSE IF Source[j] = "/" /\ ~class THEN <<TRUE, j>>
        ELSE End[j + 1, (class \/ Source[j] = "[") /\ Source[j] # "]"]
  IN  End[from + 1, FALSE]

(* Fault in RegexMayStart: what is in front is not looked at. *)
RegexAnywhere(s) == At(s, 0) = "/" /\ At(s, 1) \notin {"/", "*"} /\ s.at >= s.noRegex

RegexMayStart(s) ==
  /\ At(s, 0) = "/" /\ At(s, 1) \notin {"/", "*"} /\ s.at >= s.noRegex
  /\ s.prev \in RegexBefore \/ s.word \in RegexAfterWords \/ (s.prev = ")" /\ s.control)

InComment(s) ==
  CASE s.mode = "line" -> [Out(s, <<Blank(At(s, 0))>>, 1) EXCEPT !.mode = IF At(s, 0) = Newline THEN "code" ELSE @]
    [] At(s, 0) = "*" /\ At(s, 1) = "/" -> [Out(s, <<" ", " ">>, 2) EXCEPT !.mode = "code"]
    [] OTHER -> Out(s, <<Blank(At(s, 0))>>, 1)

\* The braces of `${...}` are followed to the one that closes them.
ExpressionEnd(from) ==
  LET End[j \in from .. Len(Source) + 1, depth \in 0 .. Len(Source)] ==
        IF j > Len(Source) THEN j - 1
        ELSE IF Source[j] = "}" /\ depth = 1 THEN j
        ELSE End[j + 1, CASE Source[j] = "{" -> depth + 1 [] Source[j] = "}" -> depth - 1 [] OTHER -> depth]
  IN  End[from, 0]

(* Fault in InString: an escaped quote closes the string. *)
InStringNoEscape(s) ==
  IF s.mode = "'" /\ At(s, 0) = Newline THEN Again(StringFailed(s, s.at), "'")
  ELSE [Out(s, IF blanks /\ At(s, 0) # s.mode THEN <<Blank(At(s, 0))>> ELSE <<At(s, 0)>>, 1) EXCEPT
          !.mode = IF At(s, 0) = s.mode THEN "code" ELSE @]

InString(s) ==
  CASE s.mode = "'" /\ At(s, 0) = Newline -> Again(StringFailed(s, s.at), "'")
    [] At(s, 0) = "\\" /\ At(s, 1) # "end" ->
         Out(s, IF blanks THEN <<" ", Blank(At(s, 1))>> ELSE <<"\\", At(s, 1)>>, 2)
    [] At(s, 0) = s.mode -> [Out(s, <<s.mode>>, 1) EXCEPT !.mode = "code"]
    [] blanks /\ s.mode = "tick" /\ At(s, 0) = "$" /\ At(s, 1) = "{" ->
         LET e == ExpressionEnd(s.at + 1) IN Out(s, SubSeq(Source, s.at, e), e + 1 - s.at)
    [] OTHER -> Out(s, <<IF blanks THEN Blank(At(s, 0)) ELSE At(s, 0)>>, 1)

\* A letter straight before.
AfterName(s) == s.at > 1 /\ Source[s.at - 1] \in Words

InCode(s) ==
  LET c == At(s, 0)
  IN  CASE c = "/" /\ At(s, 1) = "/" -> [Out(s, <<" ", " ">>, 2) EXCEPT !.mode = "line"]
        [] c = "/" /\ At(s, 1) = "*" /\ ~s.noBlock ->
             [Out(s, <<" ", " ">>, 2) EXCEPT !.mode = "block", !.marks = <<s.at, Len(s.out)>>]
        [] c = "'" /\ AfterName(s) /\ s.word \notin RegexAfterWords -> Significant(Out(s, <<c>>, 1), c)
        [] c \in {"'", "tick"} /\ ~(c = "tick" /\ s.noTemplate) /\ ~(c = "'" /\ s.at < s.noString) ->
             [Significant(Out(s, <<c>>, 1), c) EXCEPT !.mode = c, !.marks = <<s.at, Len(s.out)>>]
        [] c \in {" ", Newline} -> Out(s, <<c>>, 1)
        [] c \in Words -> [Out(s, <<c>>, 1) EXCEPT !.prev = "name", !.word = IF AfterName(s) THEN "a" ELSE c]
        [] c = "(" -> [Significant(Out(s, <<c>>, 1), c) EXCEPT !.control = FALSE, !.parens = Append(@, s.word = "if")]
        [] c = ")" -> [Significant(Out(s, <<c>>, 1), c) EXCEPT
                         !.control = s.parens # <<>> /\ Last(s.parens), !.parens = IF @ = <<>> THEN @ ELSE Front(@)]
        [] OTHER -> [Significant(Out(s, <<c>>, 1), c) EXCEPT !.control = FALSE]

Regex(s) ==
  LET end == RegexEnd(s.at)
      f == Failed(s.regexFails, end[2])
  IN  IF end[1] THEN Significant(Out(s, SubSeq(Source, s.at, end[2]), end[2] + 1 - s.at), ")")
      ELSE InCode([s EXCEPT !.regexFails = f, !.noRegex = IF f[2] > LineRetries THEN end[2] ELSE @])

Step(s) ==
  CASE s.at > Len(Source) -> Unclosed(s)
    [] s.mode \in {"line", "block"} -> InComment(s)
    [] s.mode \in {"'", "tick"} -> InString(s)
    [] RegexMayStart(s) -> Regex(s)
    [] OTHER -> InCode(s)

-----------------------------------------------------------------------------
Write(p) ==
  /\ scan = NotBegun /\ Len(file) < MaxPieces /\ p.from \in {"any", expects}
  /\ file' = Append(file, p)
  /\ expects' = IF p.to = "same" THEN expects ELSE p.to
  /\ UNCHANGED <<blanks, scan>>

Scan ==
  /\ scan.mode # "done" /\ file # <<>>
  /\ scan' = IF scan = NotBegun THEN Begun ELSE Step(scan)
  /\ UNCHANGED <<file, expects, blanks>>

Init == file = <<>> /\ expects = "operand" /\ blanks \in BOOLEAN /\ scan = NotBegun

Next == (\E p \in Pieces \cup Strays : Write(p)) \/ Scan

Spec == Init /\ [][Next]_vars

Done == scan.mode = "done"
Strayed == {i \in DOMAIN file : file[i] \in Strays}

-----------------------------------------------------------------------------
(* In a file as the language has it, comments are blanked and nothing else,
   and with `blanks` what the strings hold too (_strip_js_comments). *)
CommentsOnly ==
  Done /\ Strayed = {} => scan.out = Join(file, LAMBDA p : IF blanks THEN p.code ELSE p.kept)

(* Whatever the file is, each reading is the file's length and keeps its
   lines: readings merge by position and lines are the file's own. *)
Aligned ==
  Done => /\ Len(scan.out) = Len(Source)
          /\ \A i \in DOMAIN Source : scan.out[i] = Newline <=> Source[i] = Newline

(* One character that nothing closes hides no name of the code: an apostrophe
   to the end of its line, a backquote or a `/*` to the end of the file. *)
StraysHideNothing ==
  \A i \in Strayed :
    (Done /\ Strayed = {i} /\ \A j \in i + 1 .. Len(file) : ~Contains(file[j].text, Last(file[i].text))) =>
      LET code == Join(file, LAMBDA p : p.code)
      IN  \A k \in DOMAIN code : code[k] \in Words => scan.out[k] = code[k]
=============================================================================
