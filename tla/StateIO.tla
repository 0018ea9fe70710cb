------------------------------- MODULE StateIO -------------------------------
(***************************************************************************)
(* entrovouch/_state_io.py: how a state file (a signing key, a checkpoint) *)
(* is locked, written and left behind by a writer that dies.               *)
(*                                                                         *)
(* A file has two values: what an open() sees now, and what the disk holds *)
(* after a power loss.  os.replace changes the first; the fsync of the     *)
(* directory makes the second equal to it.  A temporary copy is named by   *)
(* the thread that owns it, or by Nobody once that thread is dead.         *)
(***************************************************************************)
EXTENDS Naturals

CONSTANTS Threads,      \* the calls that can be in progress at one time
          Nobody,       \* holder of a free lock, owner of a dead writer's temporary file
          NoFile,       \* the content of a path that does not exist
          UnlinkFails   \* may removing a stale temporary copy fail (its OSError is swallowed)?

ASSUME NobodyAssumption == Nobody \notin Threads
ASSUME UnlinkAssumption == UnlinkFails \in BOOLEAN

VARIABLES file,      \* what the path holds now
          durable,   \* what it holds if the power goes now
          temps,     \* owners of the temporary copies beside it
          lock       \* holder of the flock on <path>.lock

ioVars == <<file, durable, temps, lock>>

(***************************************************************************)
(* Faults, each put in the place of the definition named: the lock does    *)
(* not exclude (TakeLock), the copies of dead writers are not looked for   *)
(* (WriteTemp), the directory is not synced (SyncDirectory), the lock      *)
(* outlives its holder (KillIO).                                           *)
(***************************************************************************)
TakeLockShared(t) == lock' = t

WriteTempBesideOthers(t) == temps' = temps \cup {t}

SyncNothing == durable' = durable

KillButKeepLock(dead) ==
  /\ temps' = temps \ dead
  /\ UNCHANGED <<file, durable, lock>>

(***************************************************************************)
(* state_lock: the lock file is permanent, so the lock excludes every      *)
(* holder there is; the kernel gives it back when its holder dies.         *)
(***************************************************************************)
TakeLock(t) == lock = Nobody /\ lock' = t

ReleaseLock(t) == lock' = IF lock = t THEN Nobody ELSE lock

(***************************************************************************)
(* remove_stale_temps followed by the first half of atomic_write: mkstemp, *)
(* write, fsync of the file.                                               *)
(***************************************************************************)
StaleLeft == IF UnlinkFails THEN SUBSET temps ELSE {{}}

WriteTemp(t) == \E left \in StaleLeft : temps' = left \cup {t}

(***************************************************************************)
(* os.replace(name, path): fails when the temporary file is gone.          *)
(***************************************************************************)
Replace(t, data) ==
  /\ t \in temps
  /\ file' = data
  /\ temps' = temps \ {t}

(***************************************************************************)
(* fsync of the directory (the POSIX branch of atomic_write).              *)
(***************************************************************************)
SyncDirectory == durable' = file

(***************************************************************************)
(* The `finally` of atomic_write on its way out with an exception.         *)
(***************************************************************************)
DropTemp(t) == temps' = temps \ {t}

(***************************************************************************)
(* The process of the threads in `dead` is killed: its locks are released  *)
(* by the kernel and its temporary files stay.                             *)
(***************************************************************************)
Orphaned(dead) ==
  (temps \ dead) \cup (IF temps \cap dead = {} THEN {} ELSE {Nobody})

KillIO(dead) ==
  /\ lock' = IF lock \in dead THEN Nobody ELSE lock
  /\ temps' = Orphaned(dead)
  /\ UNCHANGED <<file, durable>>

(***************************************************************************)
(* The machine loses power: a rename not yet synced is kept or undone, and *)
(* so is the creation of a temporary file.                                 *)
(***************************************************************************)
PowerLossIO ==
  /\ file' \in {file, durable}
  /\ durable' = file'
  /\ temps' \in {{}, Orphaned(Threads)}
  /\ lock' = Nobody
=============================================================================
