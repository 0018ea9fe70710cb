------------------------------ MODULE CallSites ------------------------------
(***************************************************************************)
(* entrovouch/no_egress_auditor.py, _check_python_source: what is said of  *)
(* a call that is handed an address.  A behaviour is one file, written and *)
(* run statement by statement, with one such call in it: the reader goes   *)
(* by all the file binds, the call by what its names hold when it runs.    *)
(***************************************************************************)
EXTENDS Naturals, Sequences, FiniteSets

CONSTANTS Names,       \* the file binds; "queue" is the module of that name
          Statements,  \* it may hold before and after the call: [kind, name, value]
          Sites,       \* the calls: [recv, given, flag, under]
          ModuleShadowed, \* BOOLEAN: the tree holds its own `queue`
          MaxLines     \* bound on the statements

VARIABLES text,      \* the statements, with branch: it may be skipped
          env,       \* name -> what it holds as the file runs
          tampered,  \* methods of containers have been replaced
          went       \* where the call went: "not made", "nowhere", "here" or "away"

vars == <<text, env, tampered, went>>

(* Values, [op, of]: an address ("url", where); a client ("client", package);
   a container written out ("dict") or made by `queue` ("queue"); a cache, a
   Mock, a test double, what another file gives ("opaque"), a name. *)
Is(op, of) == [op |-> op, of |-> of]
Unbound == Is("unbound", "none")
Fetchers == {"urlopen", "requests"}     \* called by their own names
Holds(v) == IF v.op = "name" THEN env[v.of]
            ELSE IF v.op = "queue" THEN IF ModuleShadowed \/ env["queue"] # Unbound THEN Is("client", "requests") ELSE Is("dict", "none")
            ELSE v

-----------------------------------------------------------------------------
(* What the file binds each name to, wherever that stands. *)
Lines(P(_)) == {i \in DOMAIN text : P(text[i])}
Binds(n) == Lines(LAMBDA s : s.kind = "bind" /\ s.name = n)
WithBinds(n) == Lines(LAMBDA s : s.kind = "with" /\ s.name = n)
BoundOtherwise(n) == Lines(LAMBDA s : s.kind \in {"with", "for", "parameter"} /\ s.name = n) # {}
RebindsAll == Lines(LAMBDA s : s.kind = "star")
Values(lines) == {text[i].value : i \in lines}
\* Names bound once, by an assignment only.
OnceBound(n) == Cardinality(Binds(n)) = 1 /\ ~BoundOtherwise(n)

(* Fault in Assigned: a later `import *` is not minded. *)
AssignedOnce(n) == IF OnceBound(n) THEN {v.of : v \in {w \in Values(Binds(n)) : w.op = "url"}} ELSE {}

\* The address of a name that holds it wherever it is used: a set of at most one.
Assigned(n) ==
  IF OnceBound(n) /\ ~\E i \in Binds(n), j \in RebindsAll : i < j
  THEN {v.of : v \in {w \in Values(Binds(n)) : w.op = "url"}} ELSE {}

MockNames == {n \in Names : \/ OnceBound(n) /\ \E v \in Values(Binds(n)) : v.op = "mock"
                            \/ WithBinds(n) # {} /\ Binds(n) = {} /\ \A v \in Values(WithBinds(n)) : v.op = "double"}
CacheNames == {n \in Names : Binds(n) # {} /\ \A v \in Values(Binds(n)) : v.op = "cache"}

ContainerModule == Binds("queue") = {} /\ ~BoundOtherwise("queue") /\ ~ModuleShadowed
Reflective == Lines(LAMBDA s : s.kind = "reflect") # {}

(* Fault in ContainerNames: what replaces a container's methods is not looked for. *)
ContainerNamesFixed ==
  {n \in Names : /\ OnceBound(n) /\ RebindsAll = {} /\ ~ModuleShadowed
                 /\ \E v \in Values(Binds(n)) : v.op = "dict" \/ (v.op = "queue" /\ ContainerModule)}

ContainerNames ==
  {n \in Names : /\ OnceBound(n) /\ RebindsAll = {} /\ ~Reflective /\ ~ModuleShadowed
                 /\ \E v \in Values(Binds(n)) : v.op = "dict" \/ (v.op = "queue" /\ ContainerModule)}

(* _receiver_is_network, _made_by_network_package and _package_roots: the
   packages a name's object comes from, by any of its bindings, so deep. *)
Evidence(n) == Binds(n) \cup WithBinds(n) \cup Lines(LAMBDA s : s.kind = "parameter" /\ s.name = n)
RECURSIVE Roots(_, _)
Roots(n, depth) ==
  IF depth = 0 THEN {}
  ELSE UNION {CASE v.op = "client" -> {v.of} [] v.op = "name" -> Roots(v.of, depth - 1) [] OTHER -> {} : v \in Values(Evidence(n))}
OnClient(site) == site.recv \in Fetchers \/ Roots(site.recv, 2) # {}
PackageRoots(recv) == CASE recv = "urlopen" -> {"urllib"} [] recv = "requests" -> {"requests"} [] OTHER -> Roots(recv, 3)

(* Fault in Covers: a patched transport is everybody's. *)
CoversAny(site) == site.under.op = "transport"

\* The test replaces the transport of the library the call goes through.
Covers(site) == site.under.op = "transport" /\ site.under.of \in PackageRoots(site.recv)

(* What is said of the call; "silent": nothing is. *)
Verdict(site) ==
  LET given == IF site.given.op = "url" THEN {site.given.of}
               ELSE IF site.recv \in Fetchers THEN Assigned(site.given.of) ELSE {}
      described == site.flag = "reply" /\ ~OnClient(site)
  IN  CASE site.recv = "Request" -> IF site.flag = "sent" THEN "network" ELSE "target"
        [] site.recv \in ContainerNames \cup CacheNames \/ given = {} -> "silent"
        [] described \/ site.recv \in MockNames -> "target"
        [] given = {"here"} -> IF site.flag = "proxy" THEN "unresolved" ELSE "loopback"
        [] ~OnClient(site) -> "unresolved"
        [] Covers(site) \/ site.under.op \in {"socket", "refused"} -> "target"
        [] OTHER -> "network"

-----------------------------------------------------------------------------
(* The file as it runs. *)
Sends(site) ==
  LET obj == CASE site.recv \in {"urlopen", "Request"} -> Is("client", "urllib")
               [] site.recv = "requests" -> Is("client", "requests")
               [] OTHER -> env[site.recv]
      to == IF site.flag = "proxy" THEN "away" ELSE Holds(site.given).of
  IN  CASE site.recv = "Request" /\ site.flag # "sent" -> {"nowhere"}
        [] site.under.op \in {"socket", "refused"} -> {"nowhere"}
        [] obj.op = "client" /\ site.under.op = "transport" /\ site.under.of = obj.of -> {"nowhere"}
        [] obj.op = "client" -> {to}
        [] obj.op = "opaque" -> {to, "nowhere"}
        [] obj.op = "dict" /\ tampered -> {to}
        [] OTHER -> {"nowhere"}

CanRun(s) == s.kind \in {"star", "reflect"} \/ Holds(s.value) # Unbound
SiteOf(s) == [recv |-> s.name, given |-> s.value, flag |-> s.flag, under |-> s.under]
Sitting(s, branch) == [kind |-> s.kind, name |-> s.name, value |-> s.value, branch |-> branch, flag |-> "none", under |-> Unbound]

Write(s, branch, taken) ==
  /\ Len(text) < MaxLines
  /\ text' = Append(text, Sitting(s, branch))
  /\ IF ~taken THEN branch /\ UNCHANGED <<env, tampered>>
     ELSE /\ CanRun(s)
          /\ tampered' = (tampered \/ s.kind = "reflect")
          /\ CASE s.kind = "star" -> \E n \in Names \ {"queue"}, v \in {Is("url", "away"), Is("client", "requests")} : env' = [env EXCEPT ![n] = v]
               [] s.kind = "reflect" -> env' = env
               [] OTHER -> env' = [env EXCEPT ![s.name] = Holds(s.value)]
  /\ UNCHANGED went

Call(site) ==
  /\ went = "not made" /\ Len(text) < MaxLines
  /\ site.recv \in Names => env[site.recv] # Unbound
  /\ Holds(site.given).op = "url"
  /\ text' = Append(text, [kind |-> "call", name |-> site.recv, value |-> site.given, branch |-> FALSE, flag |-> site.flag, under |-> site.under])
  /\ went' \in Sends(site)
  /\ UNCHANGED <<env, tampered>>

Init == text = <<>> /\ env = [n \in Names |-> Unbound] /\ tampered = FALSE /\ went = "not made"

Next == \/ \E s \in Statements, branch, taken \in BOOLEAN : Write(s, branch, taken)
        \/ \E site \in Sites : Call(site)

Spec == Init /\ [][Next]_vars

-----------------------------------------------------------------------------
(* Where the reader takes more for granted than the file shows: a name an
   `import *` may have set where its one binding is skipped or comes after the
   call, or set again after a Mock or a cache was bound; the name of a cache or
   a test double that is bound in another way too; a client of two packages, or of
   one and something not shown, as a container whose methods were replaced;
   and reply keywords, which stand for a test double on anything that is not
   known to be a client. *)
CallAt == CHOOSE i \in DOMAIN text : text[i].kind = "call"
TheCall == SiteOf(text[CallAt])
Settled(n) ==
  LET held == {text[i].value.op : i \in Evidence(n)}
  IN  /\ RebindsAll # {} => held \cap {"mock", "double", "cache"} = {} /\ \A i \in Evidence(n) : i < CallAt /\ ~text[i].branch
      /\ "cache" \in held => ~BoundOtherwise(n)
      /\ "double" \in held => Lines(LAMBDA s : s.kind \in {"for", "parameter"} /\ s.name = n) = {}
      /\ Cardinality(Roots(n, 3) \cup (held \cap (IF tampered THEN {"opaque", "dict", "queue"} ELSE {"opaque"}))) <= 1
Granted(site) ==
  /\ \A n \in {site.recv, site.given.of} \cap Names : Settled(n)
  /\ site.flag = "reply" => OnClient(site)

(* A call that is said to stay on this machine, or to reach nobody, does
   (_check_python_source, loopback-call and network-target). *)
SaidToStayStays ==
  (went = "away" /\ Granted(TheCall)) => Verdict(TheCall) \notin {"loopback", "target"}

(* An address written in a call that leaves this machine is never passed over
   in silence. *)
SentIsTold ==
  (went = "away" /\ Granted(TheCall) /\ TheCall.given.op = "url") => Verdict(TheCall) # "silent"

(* A call is reported to reach the network only where the file shows a client. *)
NetworkIsShown ==
  (went # "not made" /\ Verdict(TheCall) = "network") =>
    TheCall.recv \in Fetchers \cup {"Request"} \/ \E i \in DOMAIN text : text[i].value.op = "client"
=============================================================================
