------------------------------- MODULE KeyUses -------------------------------
(***************************************************************************)
(* entrovouch/key_provenance.py: where a key written in Python source is   *)
(* bound, and which MAC is keyed with one.  A behaviour is a file, written *)
(* statement by statement and run as it is written: each function keeps    *)
(* what its names are bound to.  Names and values are classes: what the    *)
(* regular expressions tell apart.                                         *)
(***************************************************************************)
EXTENDS Naturals, Sequences, FiniteSets

CONSTANTS Functions,   \* of the file; Module is its own body
          Module,
          Names,       \* [id, class]: class "key", "bare" (`key`), "public" or "plain"
          Lines,       \* the statements: [form, name, value]; a value is [op, of]
          MaxLines     \* bound on the statements

VARIABLES text,   \* the statements: [in, form, name, value]
          env     \* <<function, id>> -> the statement that bound it as the file ran, or 0

vars == <<text, env>>

-----------------------------------------------------------------------------
(* The classes of a literal: "secret", "short" (under eight characters),
   "blank" (no letter or digit) and "label" (an identifier, an address or a mask). *)
(* _is_literal_behind, _unwrap_literal_transform: a literal, or one behind hex, base64 or a repeat. *)
LiteralBehind(v) == v.op \in {"literal", "transform"}
Text(v) == IF LiteralBehind(v) THEN v.of ELSE "none"

KeyNamed(name) == name.class \in {"key", "bare", "public"}
KeyShaped(name) == name.class \in {"key", "public"}
SecretLike(text_) == text_ \in {"secret", "label"}

(* FIRST PASS: literals bound or handed over under a key-shaped name. *)
Literals(s) ==
  LET v == s.value
  IN  \/ s.form \in {"assign", "default"} /\ LiteralBehind(v) /\ KeyShaped(s.name) /\ Text(v) # "blank"
      \/ s.form = "environ" /\ LiteralBehind(v) /\ KeyNamed(s.name) /\ SecretLike(Text(v))
      \/ s.form = "ctor" /\ LiteralBehind(v)
      \/ s.form \in {"keyword", "dict"} /\ LiteralBehind(v) /\ KeyShaped(s.name) /\ SecretLike(Text(v))
      \/ s.form = "getenv" /\ LiteralBehind(v) /\ KeyNamed(s.name) /\ SecretLike(Text(v))

(* Fault in Bound: an item of os.environ is a configuration entry too. *)
BoundEnviron(s) ==
  /\ s.form \in {"attribute", "config", "tuple", "walrus", "setattr", "lambda", "environ"}
  /\ LiteralBehind(s.value) /\ s.name.class = "key" /\ Text(s.value) = "secret"

\* PASS 1a: the other ways Python binds a literal; labels and public names are let go.
Bound(s) ==
  /\ s.form \in {"attribute", "config", "tuple", "walrus", "setattr", "lambda"}
  /\ LiteralBehind(s.value) /\ s.name.class = "key" /\ Text(s.value) = "secret"

-----------------------------------------------------------------------------
(* Module-level names bound to a literal, whatever else they are bound to. *)
Consts == {text[i].name.id : i \in {j \in DOMAIN text : text[j].in = Module /\ text[j].form = "assign" /\ text[j].value.op = "literal"}}

\* _describe: what an expression says of itself.
Describe(v) ==
  CASE v.op \in {"literal", "transform", "zeros"} -> "literal-key"
    [] v.op = "hash" /\ v.of.op = "literal" -> "derived-from-literal"
    [] v.op = "hash" /\ v.of.op = "name" /\ v.of.of \in Consts -> "derived-from-constant"
    [] v.op = "name" /\ v.of \in Consts -> "derived-from-constant"
    [] OTHER -> "none"

DescribeParameterHash(v) == IF v.op = "hash" /\ v.of.op = "name" THEN "derived-from-parameter" ELSE "none"

Or(a, b) == IF a # "none" THEN a ELSE b

\* _derivations: the last assignment of a name, in the whole file, that says what it is.
Derived(id) ==
  LET told == {i \in DOMAIN text : /\ text[i].form = "assign" /\ text[i].name.id = id
                                   /\ Or(Describe(text[i].value), DescribeParameterHash(text[i].value)) # "none"}
  IN  IF told = {} THEN "none"
      ELSE LET v == text[CHOOSE i \in told : \A j \in told : i >= j].value
           IN  Or(Describe(v), DescribeParameterHash(v))

(* Fault in LastIsDerived: the call's own assignment counts too. *)
LastIsDerivedOwn(id, line) ==
  LET own == {i \in 1..line : text[i].in = text[line].in /\ text[i].form \in {"assign", "mac"} /\ text[i].name.id = id}
  IN  own = {} \/ LET last == CHOOSE i \in own : \A j \in own : i >= j
                  IN  text[last].form = "assign" /\ Describe(text[last].value) # "none"

\* _last_assignment_is_derived: bound in the function before the call (its own result apart), and to what.
LastIsDerived(id, line) ==
  LET own == {i \in 1 .. line - 1 : text[i].in = text[line].in /\ text[i].form \in {"assign", "mac"} /\ text[i].name.id = id}
  IN  own = {} \/ LET last == CHOOSE i \in own : \A j \in own : i >= j
                  IN  text[last].form = "assign" /\ Describe(text[last].value) # "none"

(* Fault in MacKey: what the file binds the name to anywhere. *)
MacKeyAnywhere(s, line) ==
  IF s.form # "mac" THEN "none"
  ELSE Or(Describe(s.value), IF s.value.op = "name" THEN Derived(s.value.of) ELSE DescribeParameterHash(s.value))

\* PASS 2: a MAC or KDF keyed by something the source holds.
MacKey(s, line) ==
  IF s.form # "mac" THEN "none"
  ELSE Or(Describe(s.value),
          IF s.value.op = "name" THEN IF LastIsDerived(s.value.of, line) THEN Derived(s.value.of) ELSE "none"
          ELSE DescribeParameterHash(s.value))

\* PASS 1b: a key-shaped name that is the hash of something written here.
HashedName(s) == s.form = "assign" /\ ~LiteralBehind(s.value) /\ KeyShaped(s.name)
                 /\ Describe(s.value) \notin {"none", "literal-key"}

One(holds) == IF holds THEN 1 ELSE 0
\* A `key=` keyword of a MAC is left to pass 2.
Findings(i) == LET s == text[i]
               IN  One(Literals(s)) + One(Bound(s)) + One(HashedName(s)) + One(MacKey(s, i) # "none")

-----------------------------------------------------------------------------
\* The statement runs as it is written; what a call gives back binds its name too.
Write(fn, form, name, value) ==
  /\ Len(text) < MaxLines
  /\ text' = Append(text, [in |-> fn, form |-> form, name |-> name, value |-> value,
                           keyed |-> IF form = "mac" /\ value.op = "name" THEN env[<<fn, value.of>>] ELSE 0])
  /\ env' = IF form \in {"assign", "mac"} THEN [env EXCEPT ![<<fn, name.id>>] = Len(text) + 1] ELSE env

Init == text = <<>> /\ env = [at \in Functions \X {n.id : n \in Names} |-> 0]

\* Forms that neither look at nor change what a name is bound to come first.
Next == \E fn \in Functions, l \in Lines :
          /\ l.form \in {"assign", "mac"} \/ text = <<>>
          /\ Write(fn, l.form, l.name, l.value)

Spec == Init /\ [][Next]_vars

-----------------------------------------------------------------------------
(* However a literal that looks like a secret is bound to a key-shaped name,
   it is reported, and once; one without letters or digits never is
   (_scan_python_tree, passes 1 and 1a). *)
BoundSecretsOnce ==
  \A i \in DOMAIN text : text[i].form # "mac" =>
    /\ Findings(i) <= 1
    /\ (text[i].value = [op |-> "literal", of |-> "secret"] /\ text[i].name.class = "key") => Findings(i) = 1
    /\ (text[i].value = [op |-> "literal", of |-> "blank"] /\ text[i].form # "ctor") => Findings(i) = 0

(* A MAC is reported exactly when its key, as the function has bound it by
   then, is described by the source: not after the name was set to something
   else, the RFC 6979 case (_last_assignment_is_derived). *)
MacKeysAreTold ==
  \A i \in DOMAIN text :
    (text[i].form = "mac" /\ text[i].value.op = "name" /\ text[i].keyed # 0 /\ text[i].value.of \notin Consts) =>
      (MacKey(text[i], i) # "none" <=>
         text[text[i].keyed].form = "assign" /\ Describe(text[text[i].keyed].value) # "none")
=============================================================================
