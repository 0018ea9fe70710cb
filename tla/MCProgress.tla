------------------------------ MODULE MCProgress ------------------------------
(***************************************************************************)
(* What must come to an end, for TLC; a behaviour is one bench's.          *)
(* "signer": two threads of two processes at one key file, every failure.  *)
(* "audit": one audit of one file of twelve kinds that is being rewritten. *)
(***************************************************************************)
EXTENDS SignerState

CONSTANTS f1, Unreadable, NoBytes, Idle

VARIABLES bench, disk, depth, stopped, seen, floor, last, toWalk, onDisk, given,
          name, phase, cur, todo, links, tree, scanned, unscanned, findings, mtree, judged

Audit == INSTANCE AuditRun WITH
  Files <- {f1}, Contents <- {"link", "text", "elf", "large"},
  SizeOf <- [link |-> 1, text |-> 2, elf |-> 2, large |-> 3], LinkTextMax <- 1, HoldLimit <- 2,
  Names <- {"python", "setup", "bare", "pth", "artifact", "js", "shell", "versioned", "included",
            "notebook", "manifest", "other"},
  Python <- {"large"}, Shell <- {"text"}, Compiled <- {"elf"}, Binary <- {"elf"}, Flagged <- {"large"}

readVars == <<disk, depth, stopped, seen, floor, last, toWalk, onDisk, given>>
runVars == <<name, phase, cur, todo, links, tree, scanned, unscanned, findings, mtree, judged>>

NoAudit == /\ disk = Idle /\ depth = Idle /\ stopped = Idle /\ seen = Idle /\ floor = Idle /\ last = Idle
           /\ toWalk = Idle /\ onDisk = Idle /\ given = Idle
           /\ name = Idle /\ phase = Idle /\ cur = Idle /\ todo = Idle /\ links = Idle /\ tree = Idle
           /\ scanned = Idle /\ unscanned = Idle /\ findings = Idle /\ mtree = Idle /\ judged = Idle

benchVars == <<bench, vars, readVars, runVars>>

BenchInit == /\ Init
             /\ \/ bench = "signer" /\ NoAudit
                \/ bench = "audit" /\ Audit!AuditInit

AtSigner(A) == bench = "signer" /\ A /\ UNCHANGED <<bench, readVars, runVars>>
AtAudit(A) == bench = "audit" /\ A /\ UNCHANGED <<bench, vars>>

BenchNext == AtSigner(Next) \/ AtAudit(Audit!AuditNext)

(***************************************************************************)
(* A thread that holds what it needs is scheduled, and so is the audit;    *)
(* nothing is asked of a lock's hand-over, of crashes or of whoever writes.*)
(***************************************************************************)
FairBench == /\ BenchInit /\ [][BenchNext]_benchVars
             /\ \A t \in Threads : WF_benchVars(AtSigner(Runs(t)))
             /\ WF_benchVars(AtAudit(Audit!RunStep))

-----------------------------------------------------------------------------
\* An audit ends, whoever writes to the tree meanwhile.
RunEnds == bench = "audit" /\ phase = "walk" ~> phase \in {"reported", "aborted"}
=============================================================================
