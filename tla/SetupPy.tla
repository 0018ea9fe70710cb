------------------------------- MODULE SetupPy -------------------------------
(***************************************************************************)
(* entrovouch/manifests.py, setup.py: what the file declares is read from  *)
(* its text, what is installed is what it does when it runs.  A behaviour  *)
(* is one file, written and run statement by statement; statements in a    *)
(* branch may not run, and a call this reader does not follow gives        *)
(* something no text shows.  Lists are copied where one is named in        *)
(* another (`b = list(a)`), never shared.                                  *)
(***************************************************************************)
EXTENDS Naturals, Sequences, SequencesExt

CONSTANTS Names,      \* of lists
          Literals,   \* requirements written in the file
          Lines,      \* the statements it may hold: [does, on, value]
          Calls,      \* the calls of setup() it may make
          MaxLines    \* bound on the statements

VARIABLES text,       \* the statements so far: [does, on, value, branch]
          env,        \* each list as the file has run so far
          kw,         \* the item of kw: a list, NoItem or NoDict
          call,       \* how setup() is called, or <<>>
          installed   \* the requirements it is given, per keyword

vars == <<text, env, kw, call, installed>>

Unbound == <<"unbound">>
Computed == "computed"      \* a requirement that is written nowhere
NoDict == <<"no dict">>
NoItem == <<"no item">>

List(lits) == [op |-> "list", items |-> lits]
Name(id) == [op |-> "name", id |-> id]
Item == [op |-> "item", id |-> "kw"]
Call == [op |-> "call"]
Plus(l, r) == [op |-> "plus", left |-> l, right |-> r]

-----------------------------------------------------------------------------
(* What running the file does. *)
RECURSIVE Eval(_)
Eval(e) ==
  CASE e.op = "list" -> e.items
    [] e.op = "call" -> <<Computed>>
    [] e.op = "name" -> env[e.id]
    [] e.op = "item" -> kw
    [] e.op = "plus" -> LET l == Eval(e.left)  r == Eval(e.right)
                        IN  IF {l, r} \cap {Unbound, NoDict, NoItem} # {} THEN Unbound ELSE l \o r
Parts(e) == IF e.op = "plus" THEN {e.left, e.right} ELSE {e}
Runs(e) == Eval(e) \notin {Unbound, NoDict, NoItem}

\* `list.remove("p")` is written with the list of that one entry.
Removed(s) == s.value.items[1]
Without(list, x) == LET at == SelectInSeq(list, LAMBDA y : y = x) IN RemoveAt(list, at)

-----------------------------------------------------------------------------
(* What the reader gathers from the text, in the order of the text. *)
Does(what, on) == SelectSeq(text, LAMBDA s : s.does = what /\ s.on = on)
ValuesOf(what, on) == LET of == Does(what, on) IN [i \in DOMAIN of |-> of[i].value]

Assigned(id) == IF id = "kw" THEN ValuesOf("bind", "kw") \o ValuesOf("set", "kw") \o ValuesOf("extend", "kw")
                ELSE ValuesOf("assign", id)
Additions(id) == IF id = "kw" THEN <<>> ELSE ValuesOf("add", id)
AddedOn(id) ==
  LET lines == {i \in DOMAIN text : text[i].on = id /\ text[i].does \in {"assign", "add"}}
  IN  IF lines = {} THEN 0 ELSE CHOOSE i \in lines : \A j \in lines : i >= j

(* Fault in TakenOut: a removal counts wherever it stands. *)
TakenOutAnywhere(id, got) ==
  LET Out[i \in 0 .. Len(text)] ==
        IF i = 0 THEN got
        ELSE IF text[i].does = "remove" /\ text[i].on = id /\ Contains(Out[i - 1], Removed(text[i]))
             THEN Without(Out[i - 1], Removed(text[i])) ELSE Out[i - 1]
  IN  Out[Len(text)]

\* A removal counts that always runs, after the last line that adds to the list.
TakenOut(id, got) ==
  LET Out[i \in 0 .. Len(text)] ==
        IF i = 0 THEN got
        ELSE IF /\ text[i].does = "remove" /\ text[i].on = id /\ ~text[i].branch
                /\ i > AddedOn(id) /\ Contains(Out[i - 1], Removed(text[i]))
             THEN Without(Out[i - 1], Removed(text[i])) ELSE Out[i - 1]
  IN  Out[Len(text)]

\* What a reading of an expression gives, and what it leaves for the next: kept results, what is
\* being read, and what was met again meanwhile.
Result(got, whole, bad) == [got |-> got, whole |-> whole, bad |-> bad]
NotRead == Result(<<>>, FALSE, FALSE)
NothingNew == Result(<<>>, TRUE, FALSE)
NoMemory == [memo |-> << >>, reading |-> <<>>, met |-> {}]
And(x, y) == Result(x.got \o y.got, x.whole /\ y.whole, x.bad \/ y.bad)
After(x, y) == [result |-> And(x.result, y.result), m |-> y.m]

\* A value is kept unless something it depends on is still being read.
Kept(id, result, m) ==
  LET reading == Front(m.reading)  met == m.met \ {id}
  IN  [result |-> result,
       m |-> [memo |-> IF met \cap ToSet(reading) # {}
                       THEN [n \in DOMAIN m.memo \ {id} |-> m.memo[n]] ELSE [m.memo EXCEPT ![id] = result],
              reading |-> reading, met |-> met]]

(* Fault in Begun: a list met again while it is read counts as not read. *)
BegunUnread(id, m) == [memo |-> [n \in DOMAIN m.memo \cup {id} |-> IF n = id THEN NotRead ELSE m.memo[n]],
                       reading |-> Append(m.reading, id), met |-> m.met]

Begun(id, m) == [memo |-> [n \in DOMAIN m.memo \cup {id} |-> IF n = id THEN NothingNew ELSE m.memo[n]],
                 reading |-> Append(m.reading, id), met |-> m.met]

\* What a list is bound to, then what is added to it: an addition that is not read is bad.
Gathered(id, bound, added) ==
  LET all == And(bound.result, [added.result EXCEPT !.bad = @ \/ ~added.result.whole])
  IN  Kept(id, [all EXCEPT !.got = TakenOut(id, @)], added.m)

DerivedFromItem(e) == e.op = "item" \/ (e.op = "plus" /\ e.left.op = "item" /\ e.right.op = "item")

RECURSIVE Resolve(_, _)
Resolve(e, m) ==
  LET Read(values, start) ==
        FoldLeft(LAMBDA x, v : After(x, Resolve(v, x.m)), [result |-> NothingNew, m |-> start], values)
  IN  CASE e.op = "list" -> [result |-> Result(e.items, TRUE, FALSE), m |-> m]
        [] e.op = "call" -> [result |-> NotRead, m |-> m]
        [] e.op = "plus" -> Read(<<e.left, e.right>>, m)
        [] e.op = "item" /\ Contains(m.reading, "kw") -> [result |-> NothingNew, m |-> m]
        [] e.op \in {"name", "item"} /\ e.id \in DOMAIN m.memo ->
             [result |-> m.memo[e.id], m |-> [m EXCEPT !.met = IF Contains(m.reading, e.id) THEN @ \cup {e.id} ELSE @]]
        [] e.op \in {"name", "item"} /\ Assigned(e.id) = <<>> -> [result |-> NotRead, m |-> m]
        [] OTHER ->
             LET values == SelectSeq(Assigned(e.id), LAMBDA v : e.op = "name" \/ ~DerivedFromItem(v))
                 bound == Read(values, Begun(e.id, m))
             IN  Gathered(e.id, bound, Read(Additions(e.id), bound.m))

\* Expressions one after the other, with one memory.
Listed(x, y) == [results |-> Append(x.results, y.result), m |-> y.m]
ResolveEach(values) ==
  FoldLeft(LAMBDA x, v : Listed(x, Resolve(v, x.m)), [results |-> <<>>, m |-> NoMemory], values).results

-----------------------------------------------------------------------------
(* _setup_py_declarations and _setup_install_computed, of the call of setup():
   keywords in its order, `**kw` giving every value the item may have. *)
Keywords(c) ==
  FlattenSeq([i \in DOMAIN c |->
    IF c[i].keyword = "**" THEN [j \in DOMAIN Assigned("kw") |-> [keyword |-> "install_requires", value |-> Assigned("kw")[j]]]
    ELSE <<c[i]>>])

Unpacks(c) == \E i \in DOMAIN c : c[i].keyword = "**"

SomeNotRead(results) == \E i \in DOMAIN results : ~results[i].whole
Values(keywords) == [i \in DOMAIN keywords |-> keywords[i].value]

\* An item set as the file runs whose value is not read.
ChangeNotRead ==
  SomeNotRead(ResolveEach(SelectSeq(ValuesOf("set", "kw") \o ValuesOf("extend", "kw"), LAMBDA v : ~DerivedFromItem(v))))

\* Of keywords and what their values were read as.
Told(ks, results) ==
  [declared |-> UNION {{[keyword |-> ks[i].keyword, spec |-> x] : x \in ToSet(results[i].got) \cap Literals} : i \in DOMAIN ks},
   bad |-> \E i \in DOMAIN ks : ks[i].keyword = "install_requires" /\ results[i].bad]

Declarations(c) ==
  LET ks == Keywords(c)
      told == Told(ks, ResolveEach(Values(ks)))
  IN  [declared |-> told.declared,
       said |-> \/ told.bad
                \/ SomeNotRead(ResolveEach(Values(SelectSeq(ks, LAMBDA k : k.keyword = "install_requires"))))
                \/ Unpacks(c) /\ (ChangeNotRead \/ Assigned("kw") = <<>>)]

-----------------------------------------------------------------------------
\* What a statement does when it runs.
Effect(s) ==
  CASE s.does = "assign" -> env' = [env EXCEPT ![s.on] = Eval(s.value)] /\ kw' = kw
    [] s.does = "add" -> env' = [env EXCEPT ![s.on] = @ \o Eval(s.value)] /\ kw' = kw
    [] s.does = "remove" -> env' = [env EXCEPT ![s.on] = Without(@, Removed(s))] /\ kw' = kw
    [] s.does \in {"bind", "set"} -> env' = env /\ kw' = Eval(s.value)
    [] s.does = "extend" -> env' = env /\ kw' = kw \o Eval(s.value)

\* Where it would not raise.
MayRun(s) ==
  CASE s.does \in {"assign", "bind"} -> Runs(s.value)
    [] s.does = "add" -> Runs(s.value) /\ env[s.on] # Unbound
    [] s.does = "remove" -> env[s.on] # Unbound /\ Contains(env[s.on], Removed(s))
    [] s.does = "set" -> Runs(s.value) /\ kw # NoDict
    [] s.does = "extend" -> Runs(s.value) /\ kw \notin {NoDict, NoItem}

Copied(n) == \E i \in DOMAIN text : text[i].does # "remove" /\ Name(n) \in Parts(text[i].value)

Write(s, taken) ==
  /\ call = <<>> /\ Len(text) < MaxLines
  /\ text' = Append(text, s)
  /\ IF taken THEN MayRun(s) /\ Effect(s) ELSE s.branch /\ UNCHANGED <<env, kw>>
  /\ UNCHANGED <<call, installed>>

Setup(c) ==
  /\ call = <<>> /\ text # <<>>
  /\ \A i \in DOMAIN c : Runs(c[i].value)
  /\ call' = c
  /\ installed' = {[keyword |-> IF c[i].keyword = "**" THEN "install_requires" ELSE c[i].keyword, spec |-> x] :
                     i \in DOMAIN c, x \in Literals \cup {Computed}} \cap
                  UNION {{[keyword |-> IF c[i].keyword = "**" THEN "install_requires" ELSE c[i].keyword, spec |-> x] :
                            x \in ToSet(Eval(c[i].value))} : i \in DOMAIN c}
  /\ UNCHANGED <<text, env, kw>>

Init == text = <<>> /\ env = [n \in Names |-> Unbound] /\ kw = NoDict /\ call = <<>> /\ installed = {}

Next == \/ \E line \in Lines, branch, taken \in BOOLEAN :
             /\ line.does = "remove" => ~Copied(line.on)   \* see README: what a copy was made of
             /\ Write([does |-> line.does, on |-> line.on, value |-> line.value, branch |-> branch], taken)
        \/ \E c \in Calls : Setup(c)

Spec == Init /\ [][Next]_vars

-----------------------------------------------------------------------------
(* Whatever setup() installs that the file writes down is declared, or the
   reader says that something was not read (_setup_resolver). *)
InstalledIsDeclared ==
  call # <<>> => LET d == Declarations(call)
                 IN  \/ d.said
                     \/ \A i \in installed : \/ i.spec \in {x.spec : x \in d.declared}
                                            \/ (i.spec = Computed /\ i.keyword = "tests_require")

(* It says so only of a file in which something is called or never bound. *)
SaidHasCause ==
  call # <<>> /\ Declarations(call).said =>
    LET Opaque(e) == \E p \in Parts(e) : p.op = "call" \/ (p.op \in {"name", "item"} /\ Assigned(p.id) = <<>>)
    IN  \/ \E i \in DOMAIN text : text[i].does # "remove" /\ Opaque(text[i].value)
        \/ \E i \in DOMAIN call : Opaque(call[i].value)
=============================================================================
