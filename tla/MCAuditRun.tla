----------------------------- MODULE MCAuditRun -----------------------------
(***************************************************************************)
(* What an audit reads, for TLC; a behaviour is one bench's.               *)
(* "reads": runs of any tool over two files somebody rewrites (Spec).      *)
(* "audit": one audit of two files of nine kinds.                          *)
(* "stream": one file digested chunk by chunk, at every cut.               *)
(* "js": a JavaScript file read for its comments.  "calls": a Python file  *)
(* and what one call of it is said to do.  "shell": a shell script and     *)
(* which of its lines are judged.                                          *)
(* "pipelines" (UnreadSpec only): files that a CI file includes.           *)
(* The first two and the last are AuditRun itself, "stream" is             *)
(* StreamDigest, with the constants of the .cfg; a bench leaves the other  *)
(* benches' variables Idle or as they begin, and what is claimed of an     *)
(* audit or a stream holds of them for having none.                        *)
(***************************************************************************)
EXTENDS AuditRun, StreamDigest, TLC

CONSTANT Idle

VARIABLES bench,
          jsFile, expects, blanks, scan,
          text, env, tampered, went,
          lines, allowed, shell, reading

jsVars == <<jsFile, expects, blanks, scan>>
callVars == <<text, env, tampered, went>>
shellVars == <<lines, allowed, shell, reading>>
sourceVars == <<jsVars, callVars, shellVars>>

\* A short text, which may stand for a link, a text, and an executable too large to hold.
MCSizes == [c \in Contents |-> CASE c = "link" -> 1 [] c = "text" -> 2 [] OTHER -> 3]

\* In an audit nothing is a text: two kinds of contents show every case its readers tell apart.
AuditNames == {"python", "setup", "bare", "pth", "artifact", "js", "manifest", "required", "other"}
PipelineNames == {"included", "manifest"}
HoldsNoText(d) == \A f \in Files : d[f] # "text"

-----------------------------------------------------------------------------
\* Operands and operators as the language has them, comments, and one character nothing closes.
Piece(source, kept, code, from, to) == [text |-> source, kept |-> kept, code |-> code, from |-> from, to |-> to]
Operand(source) == Piece(source, source, source, "operand", "operator")
Opens(source) == Piece(source, source, source, "operand", "operand")
StringOf(source, code) == Piece(source, source, code, "operand", "operator")
Comment(source, code) == Piece(source, code, code, "any", "same")
JsPieces ==
  {Operand(p) : p \in {<<" ", "a">>, <<"tick", "$", "{", "a", "}", "tick">>, <<"/", "'", "/", ".", "a">>,
                       <<"/", "\\", "/", "/", ".", "a">>, <<"/", "[", "/", "]", "*", "/", ".", "a">>}}
  \cup {Opens(p) : p \in {<<" ", "return">>, <<"(">>, <<" ", "if", "(", "a", ")">>}}
  \cup {StringOf(<<"'", "/", "*", "'">>, <<"'", " ", " ", "'">>), StringOf(<<"'", "\\", "'", "a", "'">>, <<"'", " ", " ", " ", "'">>),
        StringOf(<<"tick", "/", "/", "tick">>, <<"tick", " ", " ", "tick">>)}
  \cup {Piece(<<"=">>, <<"=">>, <<"=">>, "operator", "operand"), Piece(<<")">>, <<")">>, <<")">>, "operator", "operator"),
        Piece(<<"/", " ", "a">>, <<"/", " ", "a">>, <<"/", " ", "a">>, "operator", "operator")}
  \cup {Comment(<<"/", "/", "'", "nl">>, <<" ", " ", " ", "nl">>), Comment(<<"nl">>, <<"nl">>),
        Comment(<<"/", "*", "tick", "nl", "'", "*", "/">>, <<" ", " ", " ", "nl", " ", " ", " ">>)}
\* A `/*` that is text, with something after it.
Globbed == Piece(<<"/", "*">>, <<"/", "*">>, <<"/", "*">>, "any", "operand")

Js == INSTANCE JsScan WITH
  file <- jsFile, Pieces <- JsPieces, Strays <- {Operand(<<"'">>), Operand(<<"tick">>), Globbed}, LineRetries <- 1, MaxPieces <- 4

-----------------------------------------------------------------------------
Value(op, of) == [op |-> op, of |-> of]
Unset == Value("unbound", "none")
Away == Value("url", "away")
Here == Value("url", "here")
MadeBy(package) == Value("client", package)
Lines(kind, target, values) == {[kind |-> kind, name |-> target, value |-> v] : v \in values}
FileLines ==
  Lines("bind", "u", {Here, Away}) \cup Lines("for", "u", {Away})
  \cup Lines("bind", "s", {MadeBy("requests"), MadeBy("httpx"), Value("name", "t")} \cup {Value(op, "none") : op \in {"dict", "queue", "cache", "mock", "opaque"}})
  \cup Lines("with", "s", {MadeBy("requests"), Value("double", "none")}) \cup Lines("for", "s", {MadeBy("requests")})
  \cup Lines("parameter", "s", {MadeBy("httpx"), Value("opaque", "none")})
  \cup Lines("bind", "t", {MadeBy("requests")}) \cup Lines("bind", "queue", {MadeBy("requests")})
  \cup Lines("star", "any", {Unset}) \cup Lines("reflect", "any", {Unset})

CallOf(recv, address, flag, under) == [recv |-> recv, given |-> address, flag |-> flag, under |-> under]
CallsMade ==
  {CallOf(r, g, "none", u) : r \in {"urlopen", "s"}, g \in {Away, Here, Value("name", "u")},
                             u \in {Unset, Value("transport", "requests")} \cup {Value(op, "none") : op \in {"socket", "refused", "passes"}}}
  \cup {CallOf("s", g, f, Unset) : g \in {Away, Here}, f \in {"proxy", "reply"}}
  \cup {CallOf("requests", Away, "none", Value("transport", "requests"))}
  \cup {CallOf("Request", Away, f, Unset) : f \in {"none", "sent"}}

Calls == INSTANCE CallSites WITH
  Names <- {"u", "s", "t", "queue"}, Statements <- FileLines, Sites <- CallsMade, ModuleShadowed <- FALSE, MaxLines <- 3

-----------------------------------------------------------------------------
\* Bodies inside bodies, bodies and strings, and bodies read as Python or joined to other lines.
Nested == {<<"go">>, <<"A">>, <<"B">>, <<"cat", "<<A">>, <<"sh", "<<A">>, <<"cat", "<<B">>, <<"cat", "<<A", "|", "sh">>,
           <<"cat", "<<A", ";", "sh", "<<B">>, <<"cat", "<<A", ">script">>}
Strings == {<<"go">>, <<"A">>, <<"cat", "<<A">>, <<"#", "'">>, <<"'">>, <<"echo", "'", "<<A", "'">>,
            <<"sh", "dq", "$(", "cat", "<<A">>, <<")", "dq">>}
Others == {<<"go">>, <<"A">>, <<"tab", "A">>, <<"python", "<<A">>, <<"import">>, <<"$go">>, <<"cat", "<<-A">>, <<"cat", "\\">>,
           <<"<<A", "|", "python">>}

Lined == INSTANCE ShellLines WITH Scripts <- {Nested, Strings, Others}, MaxLines <- 5

-----------------------------------------------------------------------------
NoReads == Init /\ disk = [f \in Files |-> "text"]
NoRun == /\ name = Idle /\ phase = Idle /\ cur = Idle /\ todo = Idle /\ links = Idle /\ tree = Idle
         /\ scanned = Idle /\ unscanned = Idle /\ findings = Idle /\ mtree = Idle /\ judged = Idle
NoJs == jsFile = Idle /\ expects = Idle /\ blanks = Idle /\ scan = Idle
NoCall == text = Idle /\ env = Idle /\ tampered = Idle /\ went = Idle
NoShell == lines = Idle /\ allowed = Idle /\ shell = Idle /\ reading = Idle
NoSource == NoJs /\ NoCall /\ NoShell

BenchInit == /\ StreamInit
             /\ \/ bench = "reads" /\ Init /\ NoRun /\ NoSource
                \/ bench = "audit" /\ AuditInit /\ HoldsNoText(disk) /\ NoSource
                \/ NoReads /\ NoRun
                   /\ \/ bench = "stream" /\ NoSource
                      \/ bench = "js" /\ Js!Init /\ NoCall /\ NoShell
                      \/ bench = "calls" /\ Calls!Init /\ NoJs /\ NoShell
                      \/ bench = "shell" /\ Lined!Init /\ NoJs /\ NoCall

BenchNext == /\ UNCHANGED bench
             /\ \/ bench = "reads" /\ Next /\ UNCHANGED <<runVars, streamVars, sourceVars>>
                \/ bench = "audit" /\ AuditNext /\ HoldsNoText(disk') /\ UNCHANGED <<streamVars, sourceVars>>
                \/ bench = "stream" /\ NextChunk /\ UNCHANGED <<readVars, runVars, sourceVars>>
                \/ /\ UNCHANGED <<readVars, runVars, streamVars>>
                   /\ \/ bench = "js" /\ Js!Next /\ UNCHANGED <<callVars, shellVars>>
                      \/ bench = "calls" /\ Calls!Next /\ UNCHANGED <<jsVars, shellVars>>
                      \/ bench = "shell" /\ Lined!Next /\ UNCHANGED <<jsVars, callVars>>

benchVars == <<bench, readVars, runVars, streamVars, sourceVars>>

BenchSpec == BenchInit /\ [][BenchNext]_benchVars

UnreadSpec == /\ bench = "pipelines" /\ AuditInit /\ StreamInit /\ NoSource
              /\ [][AuditNext /\ UNCHANGED <<bench, streamVars, sourceVars>>]_benchVars

\* Files are interchangeable in every bench.
Symmetry == Permutations(Files)

-----------------------------------------------------------------------------
\* What is looked at is the code and what is said of it so: comments alone are
\* blanked, a call that leaves is told, and a line a shell runs is judged.
SourcesAreRead ==
  /\ bench = "js" => Js!CommentsOnly /\ Js!Aligned /\ Js!StraysHideNothing
  /\ bench = "calls" => Calls!SaidToStayStays /\ Calls!SentIsTold /\ Calls!NetworkIsShown
  /\ bench = "shell" => Lined!RunIsRead /\ Lined!TextIsText
=============================================================================
