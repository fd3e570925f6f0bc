------------------------------- MODULE Client -------------------------------
(***************************************************************************)
(* razel's commands against one workspace: the warm per-workspace daemon   *)
(* (probe, restart of another build, spawn, streamed build), the in-process *)
(* fallback under the writer lock, shutdown and clean (razel-cli), and the *)
(* daemon's life from cmd_daemon to its exit (razel-daemon/src/rpc.rs).    *)
(*                                                                         *)
(* The lock is taken and given up in one step each (OutLock models the     *)
(* file-system calls); a build is its beginning and its end (Actor and the *)
(* engine modules model the inside).                                       *)
(***************************************************************************)
EXTENDS Integers, Sequences, FiniteSets

CONSTANTS Clients,       \* razel processes, each running one command
          Daemons,       \* daemon processes that can be spawned
          NoOne,
          BuildOf,       \* client -> the razel build it runs
          Commands,      \* the commands a client may be given
          Sockets,       \* rendezvous paths: the default one and a --socket
          OldDaemon,     \* the daemon running at the start, or NoOne
          OldBuilds,     \* builds it may be of; "ancient" knows neither hello nor shutdown
          MaxFaults      \* kills and actor deaths in one behaviour

ASSUME ClientAssumption ==
  /\ Clients \cap Daemons = {} /\ NoOne \notin Clients \cup Daemons
  /\ OldDaemon \in Daemons \cup {NoOne} /\ MaxFaults \in Nat
  /\ Commands \subseteq [verb : {"build", "many", "test", "shutdown", "clean"},
                         mode : {"default", "daemon", "batch"}, sock : Sockets,
                         expunge : BOOLEAN]

VARIABLES cl,      \* client -> [pc, cmd, d, out]
          dm,      \* daemon -> [st, sock, build, actor, queue, job]
          lock,    \* the pid in workspace.lock
          sock,    \* rendezvous path -> the daemon whose socket is there
          faults
vars == <<cl, dm, lock, sock, faults>>

DefaultSocket == "default"
NoCommand == [verb |-> "none", mode |-> "none", sock |-> DefaultSocket, expunge |-> FALSE]

Init ==
  /\ cl = [c \in Clients |-> [pc |-> "idle", cmd |-> NoCommand, d |-> NoOne, out |-> {}]]
  /\ \E b \in OldBuilds :
       dm = [d \in Daemons |->
               [st |-> IF d = OldDaemon THEN "serving" ELSE "none", sock |-> DefaultSocket,
                build |-> b, actor |-> "ok", queue |-> <<>>, job |-> NoOne]]
  /\ lock = OldDaemon
  /\ sock = [s \in Sockets |-> IF s = DefaultSocket THEN OldDaemon ELSE NoOne]
  /\ faults = 0

Live(p) == IF p \in Daemons THEN dm[p].st \in {"spawned", "locked", "serving", "exiting"}
           ELSE IF p \in Clients THEN cl[p].pc \notin {"idle", "done", "dead"}
           ELSE FALSE
CanAcquire == ~Live(lock)

To(c, pc) == cl' = [cl EXCEPT ![c].pc = pc]
\* A daemon answers a call on a path while it serves there.
Answers(s) == sock[s] # NoOne /\ dm[sock[s]].st = "serving"
Ancient(d) == dm[d].build = "ancient"

-----------------------------------------------------------------------------
(***************************************************************************)
(* The daemon.                                                             *)
(***************************************************************************)
\* serve: a live holder of the writer lock makes the new daemon give up.
DaemonLock(d) ==
  /\ dm[d].st = "spawned"
  /\ IF CanAcquire THEN lock' = d /\ dm' = [dm EXCEPT ![d].st = "locked"]
     ELSE dm' = [dm EXCEPT ![d].st = "dead"] /\ UNCHANGED lock
  /\ UNCHANGED <<cl, sock, faults>>

\* bind removes whatever is at the path.
DaemonBind(d) ==
  /\ dm[d].st = "locked"
  /\ sock' = [sock EXCEPT ![dm[d].sock] = d]
  /\ dm' = [dm EXCEPT ![d].st = "serving"]
  /\ UNCHANGED <<cl, lock, faults>>

\* The actor takes one build request at a time.
ActorTakes(d) ==
  /\ dm[d].st = "serving" /\ dm[d].actor = "ok" /\ dm[d].job = NoOne /\ dm[d].queue # <<>>
  /\ dm' = [dm EXCEPT ![d].job = Head(dm[d].queue), ![d].queue = Tail(@)]
  /\ UNCHANGED <<cl, lock, sock, faults>>

\* The end of a build: the terminal frame; the build of a client that is gone
\* is cancelled at the next frame.
ActorReplies(d) ==
  /\ dm[d].st = "serving" /\ dm[d].actor = "ok" /\ dm[d].job # NoOne
  /\ dm' = [dm EXCEPT ![d].job = NoOne]
  /\ LET c == dm[d].job
     IN IF cl[c].pc = "streaming" /\ cl[c].d = d
        THEN \E r \in {"ok", "failed"} : cl' = [cl EXCEPT ![c].pc = "done", ![c].out = {r}]
        ELSE UNCHANGED cl
  /\ UNCHANGED <<lock, sock, faults>>

\* do_shutdown: the reply, the lock, then the exit of the process.
DaemonExit(d) ==
  /\ dm[d].st = "exiting"
  /\ dm' = [dm EXCEPT ![d].st = "dead"]
  /\ UNCHANGED <<cl, lock, sock, faults>>

\* A panic on the actor thread: its connections close without a result, the
\* process goes on serving.
ActorDies(d) ==
  /\ faults < MaxFaults /\ faults' = faults + 1
  /\ dm[d].st = "serving" /\ dm[d].job # NoOne
  /\ dm' = [dm EXCEPT ![d].actor = "dead", ![d].job = NoOne]
  /\ UNCHANGED <<cl, lock, sock>>

Kill(p) ==
  /\ faults < MaxFaults /\ faults' = faults + 1
  /\ Live(p)
  /\ IF p \in Daemons THEN dm' = [dm EXCEPT ![p].st = "dead"] /\ UNCHANGED cl
     ELSE cl' = [cl EXCEPT ![p].pc = "dead"] /\ UNCHANGED dm
  /\ UNCHANGED <<lock, sock>>

-----------------------------------------------------------------------------
(***************************************************************************)
(* A client.                                                               *)
(***************************************************************************)
\* cmd_build goes to the daemon unless --batch; several targets, test and run
\* build in-process.
Begin(c, cmd) ==
  /\ cl[c].pc = "idle"
  /\ cl' = [cl EXCEPT ![c].cmd = cmd,
                      ![c].pc = IF cmd.verb \in {"shutdown"} THEN "stop"
                                ELSE IF cmd.verb = "clean" THEN "clean"
                                ELSE IF cmd.verb # "build" \/ cmd.mode = "batch" THEN "local"
                                ELSE "probe"]
  /\ UNCHANGED <<dm, lock, sock, faults>>

Required(c) == cl[c].cmd.mode = "daemon"
\* No daemon can be had: a failure under --daemon, an in-process build otherwise.
Fallback(c) == IF Required(c) THEN [cl EXCEPT ![c].pc = "done", ![c].out = {"unreachable"}]
               ELSE [cl EXCEPT ![c].pc = "local"]

ProbeAnyBuild(c) ==
  LET s == cl[c].cmd.sock
  IN /\ cl[c].pc = "probe"
     /\ cl' = IF ~Answers(s) THEN [cl EXCEPT ![c].pc = "spawn"] ELSE [cl EXCEPT ![c].pc = "connect"]
     /\ UNCHANGED <<dm, lock, sock, faults>>

\* ensure_daemon: what hello says about the daemon on the socket.
Probe(c) ==
  LET s == cl[c].cmd.sock
      d == sock[s]
  IN /\ cl[c].pc = "probe"
     /\ cl' = IF ~Answers(s) THEN [cl EXCEPT ![c].pc = "spawn"]                      \* Down
              ELSE IF Ancient(d) THEN IF s # DefaultSocket THEN Fallback(c)          \* Foreign
                                      ELSE [cl EXCEPT ![c].pc = "stop"]
              ELSE IF dm[d].build = BuildOf[c] THEN [cl EXCEPT ![c].pc = "connect"]  \* Mine
              ELSE [cl EXCEPT ![c].pc = "stop"]                                      \* Skew
     /\ UNCHANGED <<dm, lock, sock, faults>>

\* stop_daemon. A daemon that does not answer is not running; one that knows
\* `shutdown` acknowledges it and gives up the lock.
AfterStop(c, how) ==
  IF cl[c].cmd.verb = "shutdown" THEN [cl EXCEPT ![c].pc = "done", ![c].out = {how}]
  ELSE IF how = "stop failed" THEN Fallback(c) ELSE [cl EXCEPT ![c].pc = "spawn"]

SendShutdown(c) ==
  LET s == cl[c].cmd.sock
      d == sock[s]
  IN /\ cl[c].pc = "stop"
     /\ IF ~Answers(s) THEN cl' = AfterStop(c, "not running") /\ UNCHANGED <<dm, lock>>
        ELSE /\ To(c, "wait_down")
             /\ IF Ancient(d) THEN UNCHANGED <<dm, lock>>
                ELSE /\ dm' = [dm EXCEPT ![d].st = "exiting"]
                     /\ lock' = IF lock = d THEN NoOne ELSE lock
     /\ UNCHANGED <<sock, faults>>

\* Down; then the leftover socket file is removed, whosever it is by now.
WaitDown(c) ==
  /\ cl[c].pc \in {"wait_down", "wait_killed"} /\ ~Answers(cl[c].cmd.sock)
  /\ To(c, "unlink")
  /\ UNCHANGED <<dm, lock, sock, faults>>
RemoveSocket(c) ==
  /\ cl[c].pc = "unlink"
  /\ sock' = [sock EXCEPT ![cl[c].cmd.sock] = NoOne]
  /\ cl' = AfterStop(c, "stopped")
  /\ UNCHANGED <<dm, lock, faults>>

\* Still answering when patience runs out: the process named by the lock is
\* killed, and after a second wait the stop has failed.
KillHolder(c) ==
  /\ cl[c].pc = "wait_down" /\ Answers(cl[c].cmd.sock)
  /\ dm' = IF lock \in Daemons THEN [dm EXCEPT ![lock].st = "dead"] ELSE dm
  /\ cl' = [p \in Clients |-> IF p = c THEN [cl[p] EXCEPT !.pc = "wait_killed"]
                              ELSE IF p = lock /\ Live(p) THEN [cl[p] EXCEPT !.pc = "dead"] ELSE cl[p]]
  /\ UNCHANGED <<lock, sock, faults>>
StopFails(c) ==
  /\ cl[c].pc = "wait_killed" /\ Answers(cl[c].cmd.sock)
  /\ cl' = AfterStop(c, "stop failed")
  /\ UNCHANGED <<dm, lock, sock, faults>>

SpawnDaemon(c) ==
  /\ cl[c].pc = "spawn"
  /\ \/ \E d \in Daemons :
          /\ dm[d].st = "none"
          /\ dm' = [dm EXCEPT ![d].st = "spawned", ![d].sock = cl[c].cmd.sock, ![d].build = BuildOf[c]]
          /\ To(c, "poll")
     \/ cl' = Fallback(c) /\ UNCHANGED dm            \* the spawn fails
  /\ UNCHANGED <<lock, sock, faults>>

Mine(c) == Answers(cl[c].cmd.sock) /\ ~Ancient(sock[cl[c].cmd.sock])
           /\ dm[sock[cl[c].cmd.sock]].build = BuildOf[c]
Poll(c) ==
  /\ cl[c].pc = "poll"
  /\ \/ Mine(c) /\ To(c, "connect")
     \/ ~Mine(c) /\ cl' = Fallback(c)                \* 200 polls went by
  /\ UNCHANGED <<dm, lock, sock, faults>>

\* daemon_build_streamed: connect again and send the request.
Connect(c) ==
  LET s == cl[c].cmd.sock
  IN /\ cl[c].pc = "connect"
     /\ IF Answers(s)
        THEN /\ cl' = [cl EXCEPT ![c].pc = "streaming", ![c].d = sock[s]]
             /\ dm' = [dm EXCEPT ![sock[s]].queue = Append(@, c)]
        ELSE cl' = Fallback(c) /\ UNCHANGED dm
     /\ UNCHANGED <<lock, sock, faults>>

StreamLostByExit(c) ==
  /\ cl[c].pc = "streaming"
  /\ dm[cl[c].d].st # "serving" \/ dm[cl[c].d].actor = "dead"
  /\ cl' = IF dm[cl[c].d].st = "serving" THEN cl ELSE Fallback(c)
  /\ UNCHANGED <<dm, lock, sock, faults>>

\* The stream closed without a terminal frame: the daemon or its actor is gone.
StreamLost(c) ==
  /\ cl[c].pc = "streaming"
  /\ dm[cl[c].d].st # "serving" \/ dm[cl[c].d].actor = "dead"
  /\ cl' = Fallback(c)
  /\ UNCHANGED <<dm, lock, sock, faults>>

LocalLockAnyway(c) ==
  /\ cl[c].pc = "local"
  /\ lock' = c /\ To(c, "building")
  /\ UNCHANGED <<dm, sock, faults>>

\* local_build, cmd_build_many, cmd_test and cmd_run are workspace writers: the
\* lock, then each target, then the lock's Drop.
LocalLock(c) ==
  /\ cl[c].pc = "local"
  /\ IF CanAcquire THEN lock' = c /\ To(c, "building")
     ELSE cl' = [cl EXCEPT ![c].pc = "done", ![c].out = {"locked out"}] /\ UNCHANGED lock
  /\ UNCHANGED <<dm, sock, faults>>
Outcomes(c) == IF cl[c].cmd.verb = "test" THEN {"ok", "failed", "test failed"} ELSE {"ok", "failed"}
LocalTarget(c) ==
  /\ cl[c].pc = "building" /\ cl[c].cmd.verb \in {"many", "test"}
  /\ \E r \in Outcomes(c) : cl' = [cl EXCEPT ![c].out = @ \cup {r}]
  /\ UNCHANGED <<dm, lock, sock, faults>>
LocalEnd(c) ==
  /\ cl[c].pc = "building"
  /\ \E r \in Outcomes(c) : cl' = [cl EXCEPT ![c].pc = "done", ![c].out = @ \cup {r}]
  /\ lock' = IF lock = c THEN NoOne ELSE lock
  /\ UNCHANGED <<dm, sock, faults>>

\* cmd_clean tells the daemon and removes the output trees; --expunge also
\* removes .razel-cache, and workspace.lock in it.
Clean(c) ==
  /\ cl[c].pc = "clean"
  /\ lock' = IF cl[c].cmd.expunge THEN NoOne ELSE lock
  /\ cl' = [cl EXCEPT ![c].pc = "done", ![c].out = {"ok"}]
  /\ UNCHANGED <<dm, sock, faults>>

-----------------------------------------------------------------------------
ClientStep(c) == Probe(c) \/ SendShutdown(c) \/ WaitDown(c) \/ RemoveSocket(c) \/ KillHolder(c) \/ StopFails(c)
                 \/ SpawnDaemon(c) \/ Poll(c) \/ Connect(c) \/ StreamLost(c)
                 \/ LocalLock(c) \/ LocalEnd(c) \/ Clean(c)
DaemonStep(d) == DaemonLock(d) \/ DaemonBind(d) \/ ActorTakes(d) \/ ActorReplies(d) \/ DaemonExit(d)

Next ==
  \/ \E c \in Clients : ClientStep(c) \/ LocalTarget(c) \/ \E cmd \in Commands : Begin(c, cmd)
  \/ \E d \in Daemons : DaemonStep(d) \/ ActorDies(d)
  \/ \E p \in Clients \cup Daemons : Kill(p)
  \/ /\ \A c \in Clients : cl[c].pc \in {"done", "dead"}      \* every command is over
     /\ UNCHANGED vars

\* A process that runs takes its next step; it need not be given a command, and
\* faults need not happen.
Spec == Init /\ [][Next]_vars
        /\ \A c \in Clients : WF_vars(ClientStep(c))
        /\ \A d \in Daemons : WF_vars(DaemonStep(d))

-----------------------------------------------------------------------------
\* Processes that write the workspace's outputs.
Building == {c \in Clients : cl[c].pc = "building"} \cup {d \in Daemons : dm[d].st = "serving" /\ dm[d].job # NoOne}

(***************************************************************************)
(* "One writer per workspace across ALL daemons" (outlock.rs), local builds *)
(* included: restarts, spawns that lose the race, fallbacks and kills never *)
(* leave two processes building at once. (A daemon past do_shutdown's      *)
(* release is no longer counted: rpc.rs gives up the lock just before it   *)
(* exits.)                                                                 *)
(***************************************************************************)
OneWriter == Cardinality(Building) <= 1

(***************************************************************************)
(* "the warm server can never serve results from code the CLI no longer    *)
(* runs" (ensure_daemon): while all clients run one build, the daemon a    *)
(* client streams from is of that build, whatever was running before.      *)
(***************************************************************************)
SameBuild == \A c \in Clients : cl[c].pc = "streaming" => dm[cl[c].d].build = BuildOf[c]

(***************************************************************************)
(* A command ends: no wait on a daemon that is dead, ancient, wedged or    *)
(* restarted by somebody else is for ever.                                 *)
(***************************************************************************)
CommandEnds == \A c \in Clients : cl[c].pc = "probe" ~> cl[c].pc \in {"done", "dead"}
=============================================================================
