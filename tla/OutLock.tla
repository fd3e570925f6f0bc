------------------------------ MODULE OutLock ------------------------------
(***************************************************************************)
(* The cross-daemon workspace writer lock of razel-daemon/src/outlock.rs:  *)
(* a file created with create_new, whose text names the holder's pid.      *)
(* Contenders are whole OS processes (razeld, a scope grazeld, a local     *)
(* `razel` build), so every file-system call is a step of its own and a    *)
(* process can be killed between any two of them.                          *)
(*                                                                         *)
(* The file is modelled by its directory entry: NoFile, or the process     *)
(* that created the inode now linked there together with the text a reader *)
(* sees.  A process whose inode has been unlinked writes into a file that  *)
(* no one can open any more.  Pids are not reused.                         *)
(***************************************************************************)
EXTENDS Integers, FiniteSets

CONSTANTS
  Procs,            \* processes that may want the workspace; each its own pid
  MaxContenders,    \* how many of them may be inside acquire at once
  NoFile,           \* the lock path does not exist
  NoText            \* created, its line not yet written

ASSUME ContendersAssumption == MaxContenders \in Nat \ {0}
ASSUME ProcsAssumption ==
  /\ IsFiniteSet(Procs)
  /\ NoText \notin Procs
  /\ NoFile \notin [by : Procs, text : Procs \cup {NoText}]

VARIABLES
  lockfile,   \* NoFile or [by |-> creator of the inode, text |-> its content]
  at,         \* where each process is in acquire / drop / do_shutdown
  attempt     \* the loop counter of acquire

lockVars == <<lockfile, at, attempt>>

PCs == {"idle", "open", "write", "read", "reap", "held",
        "drop_read", "drop_unlink", "exit_read", "exit_unlink", "exit", "dead"}

LockFile == [by : Procs, text : Procs \cup {NoText}]

LockTypeOK ==
  /\ lockfile \in LockFile \cup {NoFile}
  /\ at \in [Procs -> PCs]
  /\ attempt \in [Procs -> 0..1]

LockInit ==
  /\ lockfile = NoFile
  /\ at = [p \in Procs |-> "idle"]
  /\ attempt = [p \in Procs |-> 0]

pid_alive(p) == at[p] # "dead"

Acquiring == {p \in Procs : at[p] \in {"open", "write", "read", "reap"}}

Move(p, label) == at' = [at EXCEPT ![p] = label]

-----------------------------------------------------------------------------
(* acquire: `for attempt in 0..2 { create_new ... }` *)

BeginAcquire(p) ==
  /\ at[p] = "idle"
  /\ Cardinality(Acquiring) < MaxContenders
  /\ attempt' = [attempt EXCEPT ![p] = 0]
  /\ Move(p, "open")
  /\ UNCHANGED lockfile

(* create_new(true).open(&path): atomic, and leaves the file EMPTY. *)
CreateNew(p) ==
  /\ at[p] = "open"
  /\ IF lockfile = NoFile
     THEN /\ lockfile' = [by |-> p, text |-> NoText]
          /\ Move(p, "write")
     ELSE /\ Move(p, "read")
          /\ UNCHANGED lockfile
  /\ UNCHANGED attempt

(* f.write_all(line): lands in p's own inode, linked or not. *)
WritePid(p) ==
  /\ at[p] = "write"
  /\ lockfile' = IF lockfile # NoFile /\ lockfile.by = p
                 THEN [lockfile EXCEPT !.text = p]
                 ELSE lockfile
  /\ Move(p, "held")
  /\ UNCHANGED attempt

(* The pid a reader of the path gets, if there is one and it is alive. *)
holder_pid ==
  IF lockfile # NoFile /\ lockfile.text # NoText /\ pid_alive(lockfile.text)
  THEN {lockfile.text}
  ELSE {}

(* Plausible bug: any readable lock is taken for stale, no liveness probe. *)
ReadHolderNoProbe(p) ==
  /\ at[p] = "read"
  /\ Move(p, IF attempt[p] = 1 THEN "idle" ELSE "reap")
  /\ UNCHANGED <<lockfile, attempt>>

(* Read, parse and probe the holder: fail loud when it lives, else reap on *)
(* the first attempt and give up on the second.                            *)
ReadHolder(p) ==
  /\ at[p] = "read"
  /\ Move(p, IF holder_pid # {} \/ attempt[p] = 1 THEN "idle" ELSE "reap")
  /\ UNCHANGED <<lockfile, attempt>>

(* Plausible bugs: the reap forgets the removal; the loop counter overruns. *)
ReapKeepsFile(p) ==
  /\ at[p] = "reap"
  /\ lockfile' = lockfile
  /\ attempt' = [attempt EXCEPT ![p] = 1]
  /\ Move(p, "open")

(* remove_file(&path); continue -- whatever file is there by now. *)
Reap(p) ==
  /\ at[p] = "reap"
  /\ lockfile' = NoFile
  /\ attempt' = [attempt EXCEPT ![p] = 1]
  /\ Move(p, "open")

-----------------------------------------------------------------------------
(* Release: Drop for OutLock, and do_shutdown's release_if_ours + exit(0). *)

BeginDrop(p) ==
  /\ at[p] = "held"
  /\ Move(p, "drop_read")
  /\ UNCHANGED <<lockfile, attempt>>

BeginShutdown(p) ==
  /\ at[p] = "held"
  /\ Move(p, "exit_read")
  /\ UNCHANGED <<lockfile, attempt>>

Ours(p) == lockfile # NoFile /\ lockfile.text = p

CheckOurs(p) ==
  /\ \/ /\ at[p] = "drop_read"
        /\ Move(p, IF Ours(p) THEN "drop_unlink" ELSE "idle")
     \/ /\ at[p] = "exit_read"
        /\ Move(p, IF Ours(p) THEN "exit_unlink" ELSE "exit")
  /\ UNCHANGED <<lockfile, attempt>>

Unlink(p) ==
  /\ \/ at[p] = "drop_unlink" /\ Move(p, "idle")
     \/ at[p] = "exit_unlink" /\ Move(p, "exit")
  /\ lockfile' = NoFile
  /\ UNCHANGED attempt

Exit(p) ==
  /\ at[p] = "exit"
  /\ Move(p, "dead")
  /\ UNCHANGED <<lockfile, attempt>>

(* A process dies anywhere; its lock file stays behind. *)
Crash(p) ==
  /\ at[p] # "dead"
  /\ Move(p, "dead")
  /\ UNCHANGED <<lockfile, attempt>>

(* cmd_shutdown's kill_holder: holder_pid, then SIGTERM/SIGKILL to it. *)
terminate ==
  /\ \E p \in holder_pid : Move(p, "dead")
  /\ UNCHANGED <<lockfile, attempt>>

-----------------------------------------------------------------------------
Step(p) ==
  \/ CreateNew(p) \/ WritePid(p) \/ ReadHolder(p) \/ Reap(p)
  \/ CheckOurs(p) \/ Unlink(p) \/ Exit(p)

LockNext ==
  \/ terminate
  \/ \E p \in Procs :
       \/ BeginAcquire(p) \/ Step(p)
       \/ BeginDrop(p) \/ BeginShutdown(p) \/ Crash(p)

LockSpec == LockInit /\ [][LockNext]_lockVars /\ \A p \in Procs : WF_lockVars(Step(p))

-----------------------------------------------------------------------------
(* What keeps the lock exclusive while acquirers come one at a time.       *)
(* Processes that have written their pid and not yet given the lock up:    *)
Owners == {p \in Procs :
  at[p] \in {"held", "drop_read", "drop_unlink", "exit_read", "exit_unlink"}}

OneAcquirer == \A p, q \in Acquiring : p = q
OwnersOwnTheFile == \A p \in Owners : lockfile = [by |-> p, text |-> p]
WriterCreatedIt ==
  \A p \in Procs : at[p] = "write" => lockfile = [by |-> p, text |-> NoText]
ReapOnlyStale == \A p \in Procs : at[p] = "reap" => Owners = {}

(* The inductive invariant behind MutualExclusion. *)
LockInv == OneAcquirer /\ OwnersOwnTheFile /\ WriterCreatedIt /\ ReapOnlyStale

(* Processes whose OutLock guard is live: what the rest of the system      *)
(* takes as leave to write the workspace.                                  *)
Holders == {p \in Procs : at[p] \in {"held", "drop_read", "drop_unlink"}}

(* At most one process holds the writer lock (outlock.rs:6, "One writer    *)
(* per workspace across ALL daemons").                                     *)
MutualExclusion == \A p, q \in Holders : p = q

(* A live holder's file is removed or replaced only by its own release     *)
(* ("pid-checked release: only remove OUR lock file", outlock.rs:82) or    *)
(* after its death: no reap and no other process's release takes it.       *)
LiveLockKept ==
  [][\A p \in Procs : at[p] = "held" /\ at'[p] = "held" /\ Ours(p) => Ours(p)']_lockVars

(* A lock left by a dead process is reaped and retaken by the next process *)
(* that asks ("holder dead -> reap and retake", outlock.rs:14).            *)
DeadLockRetaken ==
  \A p \in Procs :
    (at[p] = "open" /\ attempt[p] = 0
       /\ \A q \in Procs \ {p} : at[q] \in {"idle", "dead"})
      ~> at[p] \in {"held", "dead"}

(* The lock outlives what it should and nothing else: a live holder's is   *)
(* kept, a dead one's is retaken.                                          *)
LockSurvives == LiveLockKept /\ DeadLockRetaken
=============================================================================
