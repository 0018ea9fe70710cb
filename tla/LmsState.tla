------------------------------- MODULE LmsState -------------------------------
(***************************************************************************)
(* entrovouch/lms.py: LmsKey, the RFC 8554 key on a state file of its own. *)
(* It shares MerkleSigner's protocol, with two differences: the signature  *)
(* is computed after both locks are given back, and advance goes by        *)
(* whatever key the file holds.                                            *)
(***************************************************************************)
EXTENDS SignerState, TLC

-----------------------------------------------------------------------------
\* advance loads the file without comparing its key with this object's.
LoadsAnyKey(h) == InMemory(h) \/ (file # NoFile /\ ~linked)

LmsSpendLeaves(t) ==
  LET from == AdvanceFrom(job[t].h) IN
  /\ pc[t] = "check" /\ job[t].op = "advance"
  /\ LoadsAnyKey(job[t].h)
  /\ from + job[t].arg <= LeafCount
  /\ Claim(t, from + job[t].arg, from, 0)

\* KeyExhausted: next_q keeps the larger of the two indices.
LmsRefuseAdvance(t) ==
  LET from == AdvanceFrom(job[t].h) IN
  /\ pc[t] = "check" /\ job[t].op = "advance"
  /\ LoadsAnyKey(job[t].h)
  /\ from + job[t].arg > LeafCount
  /\ handle' = [handle EXCEPT ![job[t].h].next = from]
  /\ Goto(t, "raise")
  /\ UNCHANGED <<ioVars, tlock, job, linked, born, reserved, uses>>

LmsRefuseState(t) ==
  /\ pc[t] = "check"
  /\ \/ job[t].op = "sign" /\ ~SignReads(job[t].h)
     \/ job[t].op = "advance" /\ ~LoadsAnyKey(job[t].h)
     \/ job[t].op = "create" /\ (file # NoFile \/ NoSeedLeft)
  /\ Goto(t, "raise")
  /\ UNCHANGED <<ioVars, handle, tlock, job, linked, born, reserved, uses>>

\* sign leaves both `with` blocks with its leaf reserved ...
LeaveLocks(t) ==
  /\ pc[t] = "reveal"
  /\ ReleaseLock(t)
  /\ tlock' = FreedThreadLock(t)
  /\ Goto(t, "compute")
  /\ UNCHANGED <<file, durable, temps, handle, job, linked, born, reserved, uses>>

\* ... and only then computes the signature of that leaf.
SignAt(t) ==
  /\ pc[t] = "compute"
  /\ uses' = [uses EXCEPT ![job[t].id][job[t].leaf] = @ + 1]
  /\ Goto(t, "done")
  /\ UNCHANGED <<ioVars, handle, tlock, job, linked, born, reserved>>

\* A randomizer of the wrong length, or an interrupt: the leaf is burnt.
SignAtFails(t) ==
  /\ pc[t] = "compute"
  /\ Goto(t, "raise")
  /\ UNCHANGED <<ioVars, handle, tlock, job, linked, born, reserved, uses>>

LmsRuns(t) ==
  \/ ReserveLeaf(t) \/ RefuseLeaf(t)
  \/ LmsSpendLeaves(t) \/ LmsRefuseAdvance(t)
  \/ LmsRefuseState(t) \/ NewIdentity(t)
  \/ SaveTemp(t) \/ SaveReplace(t) \/ SaveSync(t)
  \/ SaveFails(t) \/ Interrupted(t)
  \/ LeaveLocks(t) \/ SignAt(t) \/ SignAtFails(t) \/ Return(t)

LmsNext ==
  \/ \E t \in Threads : \/ \E h \in Handles : Calls(t, h)
                        \/ Waits(t)
                        \/ LmsRuns(t)
  \/ Environment

LmsSpec == Init /\ [][LmsNext]_vars

-----------------------------------------------------------------------------
(***************************************************************************)
(* A leaf reserved by one call and not yet signed with is spent in the     *)
(* file every other call goes by: nobody else can be given it while the    *)
(* signature is computed outside the locks.                                *)
(***************************************************************************)
Computing(t) == pc[t] = "compute"

ReservedLeafKept ==
  \A t \in Threads : Computing(t) =>
    /\ uses[job[t].id][job[t].leaf] = 0
    /\ file # NoFile /\ file.id = job[t].id => job[t].leaf < file.next
    /\ \A s \in Threads \ {t} :
         Computing(s) /\ job[s].id = job[t].id => job[s].leaf # job[t].leaf

-----------------------------------------------------------------------------
\* For TLC, of SignerState and LmsState: threads, objects and identities are interchangeable.
Symmetry == Permutations(Threads) \cup Permutations(Handles) \cup Permutations(Ids)
=============================================================================
