---------------------------- MODULE ClientProofs ----------------------------
(***************************************************************************)
(* razel's commands against one workspace, for any number of clients,      *)
(* daemons, sockets and faults: at most one process builds at a time, and  *)
(* a client is answered by its own build.                                  *)
(*                                                                         *)
(* OneWriter says nothing of the lock; what is inductive is that whoever   *)
(* may build is the process the lock names.  It needs that no command      *)
(* removes the lock file of a live holder: `clean --expunge` does, and the *)
(* run client_expunge shows what follows.                                  *)
(***************************************************************************)
EXTENDS Client, SequenceTheorems, FiniteSetTheorems, TLAPS

-----------------------------------------------------------------------------
ClientPCs == {"idle", "probe", "spawn", "poll", "connect", "streaming", "stop", "wait_down",
              "wait_killed", "unlink", "local", "building", "clean", "done", "dead"}
Outs == {"ok", "failed", "test failed", "locked out", "unreachable",
         "not running", "stopped", "stop failed"}
ClientState == [pc : ClientPCs, cmd : Commands \cup {NoCommand},
                d : Daemons \cup {NoOne}, out : SUBSET Outs]
DaemonState == [st : {"none", "spawned", "locked", "serving", "exiting", "dead"},
                sock : Sockets \cup {DefaultSocket},
                build : OldBuilds \cup {BuildOf[c] : c \in Clients},
                actor : {"ok", "dead"}, queue : Seq(Clients), job : Clients \cup {NoOne}]

TypeOK ==
  /\ cl \in [Clients -> ClientState]
  /\ \A c \in Clients : cl[c].pc # "idle" => cl[c].cmd \in Commands
  /\ \A c \in Clients : cl[c].pc = "streaming" => cl[c].d \in Daemons
  /\ dm \in [Daemons -> DaemonState]
  /\ lock \in Clients \cup Daemons \cup {NoOne}
  /\ sock \in [Sockets -> Daemons \cup {NoOne}]

(* Who may build is the process that workspace.lock names. *)
LockNamesWriter ==
  /\ \A d \in Daemons : dm[d].st \in {"locked", "serving"} => lock = d
  /\ \A c \in Clients : cl[c].pc = "building" => lock = c

WriterInv == TypeOK /\ LockNamesWriter

NoExpunge == \A cmd \in Commands : ~cmd.expunge

(* Once a client has settled on a socket, whatever answers there is of its *)
(* build: the daemon that was there before does not come back.             *)
OneBuild == \A b, c \in Clients : BuildOf[b] = BuildOf[c]
SettledBuild ==
  /\ \A d \in Daemons : dm[d].st \in {"spawned", "locked"} =>
       \A c \in Clients : dm[d].build = BuildOf[c]
  /\ \A s \in Sockets : sock[s] # NoOne => dm[sock[s]].st # "none"
  /\ \A c \in Clients : cl[c].pc = "streaming" => dm[cl[c].d].st # "none"
  /\ \A c \in Clients : cl[c].pc = "connect" /\ sock[cl[c].cmd.sock] # NoOne =>
       dm[sock[cl[c].cmd.sock]].build = BuildOf[c]
  /\ SameBuild

-----------------------------------------------------------------------------
LEMMA InitWriter == Init => WriterInv
<1> SUFFICES ASSUME Init PROVE WriterInv
  OBVIOUS
<1> USE ClientAssumption DEF Init
<1>1. cl \in [Clients -> ClientState] /\ \A c \in Clients : cl[c].pc = "idle"
  BY DEF ClientState, ClientPCs
<1>2. PICK b \in OldBuilds :
        dm = [d \in Daemons |->
               [st |-> IF d = OldDaemon THEN "serving" ELSE "none", sock |-> DefaultSocket,
                build |-> b, actor |-> "ok", queue |-> <<>>, job |-> NoOne]]
  OBVIOUS
<1>3. dm \in [Daemons -> DaemonState]
  BY <1>2, EmptySeq DEF DaemonState
<1>4. \A d \in Daemons : dm[d].st \in {"locked", "serving"} => d = OldDaemon
  BY <1>2
<1>5. TypeOK
  <2>1. lock \in Clients \cup Daemons \cup {NoOne} /\ sock \in [Sockets -> Daemons \cup {NoOne}]
    OBVIOUS
  <2>2. \A c \in Clients : cl[c].pc # "idle" => cl[c].cmd \in Commands
    BY <1>1
  <2>3. \A c \in Clients : cl[c].pc = "streaming" => cl[c].d \in Daemons
    BY <1>1
  <2> QED BY <1>1, <1>3, <2>1, <2>2, <2>3 DEF TypeOK
<1>6. LockNamesWriter
  BY <1>1, <1>4 DEF LockNamesWriter
<1> QED BY <1>5, <1>6 DEF WriterInv

(* What becomes of the daemons when one of them changes its stage. *)
LEMMA DaemonStages ==
  ASSUME TypeOK, NEW d \in Daemons,
         NEW st \in {"none", "spawned", "locked", "serving", "exiting", "dead"},
         dm' = [dm EXCEPT ![d].st = st]
  PROVE  /\ dm' \in [Daemons -> DaemonState]
         /\ \A e \in Daemons : dm'[e].st = IF e = d THEN st ELSE dm[e].st
BY DEF TypeOK, DaemonState

(* What a step keeps: the types, and who may build. *)
Kept == TypeOK' /\ (NoExpunge /\ LockNamesWriter => LockNamesWriter')

(* A step in which nobody comes nearer to building. *)
Quiet ==
  /\ cl' \in [Clients -> ClientState]
  /\ \A c \in Clients : /\ cl'[c].pc # "idle" => cl'[c].cmd \in Commands
                        /\ cl'[c].pc = "streaming" => cl'[c].d \in Daemons
                        /\ cl'[c].pc = "building" => cl[c].pc = "building"
  /\ dm' \in [Daemons -> DaemonState]
  /\ \A d \in Daemons : dm'[d].st \in {"locked", "serving"} => dm[d].st \in {"locked", "serving"}
  /\ sock' \in [Sockets -> Daemons \cup {NoOne}]
  /\ lock' = lock

LEMMA QuietKeeps == TypeOK /\ Quiet => Kept
BY DEF TypeOK, LockNamesWriter, Quiet, Kept

(* A socket has nobody's daemon or a daemon's. *)
LEMMA SocketKnown ==
  ASSUME TypeOK, NEW c \in Clients, cl[c].pc # "idle"
  PROVE  cl[c].cmd.sock \in Sockets /\ sock[cl[c].cmd.sock] \in Daemons \cup {NoOne}
BY ClientAssumption DEF TypeOK

(* A client that changes its own state and neither streams nor builds      *)
(* after it.                                                               *)
Moved(new, c) ==
  /\ new \in [Clients -> ClientState]
  /\ \A b \in Clients \ {c} : new[b] = cl[b]
  /\ new[c].cmd = cl[c].cmd
  /\ new[c].pc \notin {"idle", "streaming", "building"}

LEMMA PcMoves ==
  ASSUME TypeOK, NEW c \in Clients,
         NEW pc \in ClientPCs \ {"idle", "streaming", "building"}
  PROVE  /\ Moved([cl EXCEPT ![c].pc = pc], c)
         /\ \A out \in SUBSET Outs : Moved([cl EXCEPT ![c].pc = pc, ![c].out = out], c)
BY DEF TypeOK, Moved, ClientState

LEMMA MovedIsQuiet ==
  ASSUME TypeOK, NEW c \in Clients, Moved(cl', c), cl[c].pc # "idle",
         UNCHANGED <<dm, lock, sock>>
  PROVE  Kept
BY QuietKeeps DEF TypeOK, Moved, Quiet

(* A lock that can be taken is nobody's who builds. *)
LEMMA NobodyWrites ==
  ASSUME LockNamesWriter, CanAcquire
  PROVE  /\ \A d \in Daemons : dm[d].st \notin {"locked", "serving"}
         /\ \A c \in Clients : cl[c].pc # "building"
BY ClientAssumption DEF CanAcquire, Live, LockNamesWriter

(* The steps of a daemon. *)
LEMMA DaemonKeeps ==
  ASSUME TypeOK, NEW d \in Daemons, DaemonStep(d) \/ ActorDies(d)
  PROVE  Kept
<1> USE DEF TypeOK
<1>1. ASSUME DaemonLock(d) PROVE Kept
  <2>1. CASE CanAcquire
    <3>1. lock' = d /\ dm' = [dm EXCEPT ![d].st = "locked"] /\ UNCHANGED <<cl, sock, faults>>
      BY <1>1, <2>1 DEF DaemonLock
    <3>2. /\ dm' \in [Daemons -> DaemonState]
          /\ \A e \in Daemons : dm'[e].st = IF e = d THEN "locked" ELSE dm[e].st
      BY <3>1, DaemonStages
    <3>3. TypeOK'
      BY <3>1, <3>2
    <3>4. ASSUME LockNamesWriter PROVE LockNamesWriter'
      BY <2>1, <3>1, <3>2, <3>4, NobodyWrites DEF LockNamesWriter
    <3> QED BY <3>3, <3>4 DEF Kept
  <2>2. CASE ~CanAcquire
    <3>1. dm' = [dm EXCEPT ![d].st = "dead"] /\ UNCHANGED <<cl, lock, sock, faults>>
      BY <1>1, <2>2 DEF DaemonLock
    <3>2. /\ dm' \in [Daemons -> DaemonState]
          /\ \A e \in Daemons : dm'[e].st = IF e = d THEN "dead" ELSE dm[e].st
      BY <3>1, DaemonStages
    <3> QED BY <3>1, <3>2, QuietKeeps DEF Quiet
  <2> QED BY <2>1, <2>2
<1>2. ASSUME DaemonBind(d) PROVE Kept
  <2>1. dm[d].st = "locked" /\ dm' = [dm EXCEPT ![d].st = "serving"] /\ UNCHANGED <<cl, lock, faults>>
        /\ sock' \in [Sockets -> Daemons \cup {NoOne}]
    BY <1>2 DEF DaemonBind
  <2> QED BY <2>1, DaemonStages, QuietKeeps DEF Quiet
<1>3. ASSUME ActorTakes(d) PROVE Kept
  <2>1. Head(dm[d].queue) \in Clients /\ Tail(dm[d].queue) \in Seq(Clients)
    BY <1>3, HeadTailProperties DEF ActorTakes, DaemonState
  <2>2. dm' \in [Daemons -> DaemonState] /\ \A e \in Daemons : dm'[e].st = dm[e].st
    BY <1>3, <2>1 DEF ActorTakes, DaemonState
  <2> QED BY <1>3, <2>2, QuietKeeps DEF ActorTakes, Quiet
<1>4. ASSUME ActorReplies(d) PROVE Kept
  <2>1. dm' = [dm EXCEPT ![d].job = NoOne] /\ lock' = lock /\ sock' = sock
    BY <1>4 DEF ActorReplies
  <2>2. dm' \in [Daemons -> DaemonState] /\ \A e \in Daemons : dm'[e].st = dm[e].st
    BY <2>1 DEF DaemonState
  <2>3. PICK c \in Clients : c = dm[d].job
    BY <1>4 DEF ActorReplies, DaemonState
  <2>4. CASE cl' = cl
    BY <2>1, <2>2, <2>4, QuietKeeps DEF Quiet
  <2>5. CASE cl' # cl
    <3>1. cl[c].pc = "streaming"
          /\ \E r \in {"ok", "failed"} : cl' = [cl EXCEPT ![c].pc = "done", ![c].out = {r}]
      BY <1>4, <2>3, <2>5 DEF ActorReplies
    <3>2. PICK r \in {"ok", "failed"} : cl' = [cl EXCEPT ![c].pc = "done", ![c].out = {r}]
      BY <3>1
    <3>3. {r} \in SUBSET Outs /\ "done" \in ClientPCs \ {"idle", "streaming", "building"}
      BY DEF Outs, ClientPCs
    <3>4. Moved(cl', c)
      BY <3>2, <3>3, PcMoves
    <3> QED BY <2>1, <2>2, <3>1, <3>4, QuietKeeps DEF Quiet, Moved
  <2> QED BY <2>4, <2>5
<1>5. ASSUME DaemonExit(d) PROVE Kept
  <2>1. dm' = [dm EXCEPT ![d].st = "dead"] /\ UNCHANGED <<cl, lock, sock>>
    BY <1>5 DEF DaemonExit
  <2>2. /\ dm' \in [Daemons -> DaemonState]
        /\ \A e \in Daemons : dm'[e].st = IF e = d THEN "dead" ELSE dm[e].st
    BY <2>1, DaemonStages
  <2> QED BY <2>1, <2>2, QuietKeeps DEF Quiet
<1>6. ASSUME ActorDies(d) PROVE Kept
  <2>1. dm' \in [Daemons -> DaemonState] /\ \A e \in Daemons : dm'[e].st = dm[e].st
    BY <1>6 DEF ActorDies, DaemonState
  <2> QED BY <1>6, <2>1, QuietKeeps DEF ActorDies, Quiet
<1> QED BY <1>1, <1>2, <1>3, <1>4, <1>5, <1>6 DEF DaemonStep

(* A process is killed where it stands: what it held stays named in the    *)
(* lock file, but nobody builds under it.                                  *)
LEMMA KillKeeps ==
  ASSUME TypeOK, NEW p \in Clients \cup Daemons, Kill(p)
  PROVE  Kept
<1> USE DEF TypeOK
<1>1. CASE p \in Daemons
  <2>1. dm' = [dm EXCEPT ![p].st = "dead"] /\ UNCHANGED <<cl, lock, sock>>
    BY <1>1 DEF Kill
  <2>2. /\ dm' \in [Daemons -> DaemonState]
        /\ \A e \in Daemons : dm'[e].st = IF e = p THEN "dead" ELSE dm[e].st
    BY <1>1, <2>1, DaemonStages
  <2> QED BY <2>1, <2>2, QuietKeeps DEF Quiet
<1>2. CASE p \in Clients
  <2>1. cl' = [cl EXCEPT ![p].pc = "dead"] /\ UNCHANGED <<dm, lock, sock>> /\ cl[p].pc # "idle"
    BY <1>2, ClientAssumption DEF Kill, Live
  <2>2. "dead" \in ClientPCs \ {"idle", "streaming", "building"}
    BY DEF ClientPCs
  <2> QED BY <1>2, <2>1, <2>2, PcMoves, MovedIsQuiet
<1> QED BY <1>1, <1>2

-----------------------------------------------------------------------------
(* No daemon can be had, and a stop has come to its end. *)
LEMMA FallbackMoves ==
  ASSUME TypeOK, NEW c \in Clients
  PROVE  Moved(Fallback(c), c) /\ \A how \in Outs : Moved(AfterStop(c, how), c)
<1>1. /\ "done" \in ClientPCs \ {"idle", "streaming", "building"}
      /\ "local" \in ClientPCs \ {"idle", "streaming", "building"}
      /\ "spawn" \in ClientPCs \ {"idle", "streaming", "building"}
  BY DEF ClientPCs
<1>2. Moved(Fallback(c), c)
  <2>1. {"unreachable"} \in SUBSET Outs
    BY DEF Outs
  <2> QED BY <1>1, <2>1, PcMoves DEF Fallback
<1>3. ASSUME NEW how \in Outs PROVE Moved(AfterStop(c, how), c)
  <2>1. {how} \in SUBSET Outs
    OBVIOUS
  <2> QED BY <1>1, <1>2, <2>1, PcMoves DEF AfterStop
<1> QED BY <1>2, <1>3

(* Each step of a client. *)
LEMMA ClientKeeps ==
  ASSUME TypeOK, NEW c \in Clients,
         ClientStep(c) \/ LocalTarget(c) \/ \E cmd \in Commands : Begin(c, cmd)
  PROVE  Kept
<1> USE DEF TypeOK
<1>p. \A pc \in {"spawn", "connect", "stop", "wait_down", "wait_killed", "unlink", "poll", "done", "dead"} :
        pc \in ClientPCs \ {"idle", "streaming", "building"}
  BY DEF ClientPCs
<1>o. \A how \in {"not running", "stopped", "stop failed"} : how \in Outs
  BY DEF Outs
<1>1. ASSUME Probe(c) PROVE Kept
  <2>1. Moved(cl', c)
    BY <1>1, <1>p, PcMoves, FallbackMoves DEF Probe
  <2> QED BY <1>1, <2>1, MovedIsQuiet DEF Probe
<1>2. ASSUME SendShutdown(c) PROVE Kept
  <2> DEFINE d == sock[cl[c].cmd.sock]
  <2>0. /\ cl' = AfterStop(c, "not running") \/ cl' = [cl EXCEPT ![c].pc = "wait_down"]
        /\ cl[c].pc = "stop" /\ sock' = sock
    BY <1>2 DEF SendShutdown, To
  <2>1. Moved(cl', c) /\ cl[c].pc = "stop" /\ sock' = sock
    <3>1. Moved(AfterStop(c, "not running"), c)
      BY <1>o, FallbackMoves
    <3>2. Moved([cl EXCEPT ![c].pc = "wait_down"], c)
      BY <1>p, PcMoves
    <3> QED BY <2>0, <3>1, <3>2
  <2>2. CASE UNCHANGED <<dm, lock>>
    BY <2>1, <2>2, MovedIsQuiet
  <2>3. CASE ~UNCHANGED <<dm, lock>>
    <3>1. /\ dm' = [dm EXCEPT ![d].st = "exiting"]
          /\ lock' = IF lock = d THEN NoOne ELSE lock
          /\ d # NoOne /\ dm[d].st = "serving"
      BY <1>2, <2>3 DEF SendShutdown, Answers
    <3>2. PICK e \in Daemons : e = d
      BY <2>1, <3>1, SocketKnown
    <3>3. /\ dm' \in [Daemons -> DaemonState]
          /\ \A f \in Daemons : dm'[f].st = IF f = e THEN "exiting" ELSE dm[f].st
      BY <3>1, <3>2, DaemonStages
    <3>4. TypeOK'
      BY <2>1, <3>1, <3>3 DEF Moved
    <3>5. ASSUME LockNamesWriter PROVE LockNamesWriter'
      <4>1. lock = e
        BY <3>1, <3>2, <3>5 DEF LockNamesWriter
      <4>2. \A b \in Clients : cl'[b].pc # "building"
        BY <2>1, <3>2, <3>5, <4>1, ClientAssumption DEF LockNamesWriter, Moved
      <4>3. \A f \in Daemons : dm'[f].st \notin {"locked", "serving"}
        BY <3>2, <3>3, <3>5, <4>1 DEF LockNamesWriter
      <4> QED BY <4>2, <4>3 DEF LockNamesWriter
    <3> QED BY <3>4, <3>5 DEF Kept
  <2> QED BY <2>2, <2>3
<1>3. ASSUME WaitDown(c) PROVE Kept
  BY <1>3, <1>p, PcMoves, MovedIsQuiet DEF WaitDown, To
<1>4. ASSUME RemoveSocket(c) PROVE Kept
  <2>1. Moved(cl', c) /\ cl[c].pc = "unlink" /\ UNCHANGED <<dm, lock>>
    BY <1>4, <1>o, FallbackMoves DEF RemoveSocket
  <2>2. sock' \in [Sockets -> Daemons \cup {NoOne}]
    BY <1>4 DEF RemoveSocket
  <2> QED BY <2>1, <2>2, QuietKeeps DEF Moved, Quiet
<1>5. ASSUME KillHolder(c) PROVE Kept
  <2>1. /\ dm' \in [Daemons -> DaemonState]
        /\ \A d \in Daemons : dm'[d].st \in {"locked", "serving"} => dm[d].st \in {"locked", "serving"}
    <3>1. CASE lock \in Daemons
      <4>1. dm' = [dm EXCEPT ![lock].st = "dead"]
        BY <1>5, <3>1 DEF KillHolder
      <4>2. /\ dm' \in [Daemons -> DaemonState]
            /\ \A d \in Daemons : dm'[d].st = IF d = lock THEN "dead" ELSE dm[d].st
        BY <3>1, <4>1, DaemonStages
      <4> QED BY <4>2
    <3>2. CASE lock \notin Daemons
      BY <1>5, <3>2 DEF KillHolder
    <3> QED BY <3>1, <3>2
  <2>2. /\ cl' \in [Clients -> ClientState]
        /\ \A b \in Clients : /\ cl'[b].cmd = cl[b].cmd /\ cl'[b].d = cl[b].d
                              /\ cl'[b].pc \in {cl[b].pc, "wait_killed", "dead"}
                              /\ cl[b].pc = "idle" => cl'[b].pc = "idle"
    BY <1>5, ClientAssumption DEF KillHolder, ClientState, ClientPCs, Live
  <2> QED BY <1>5, <2>1, <2>2, QuietKeeps DEF KillHolder, Quiet
<1>6. ASSUME StopFails(c) PROVE Kept
  BY <1>6, <1>o, FallbackMoves, MovedIsQuiet DEF StopFails
<1>7. ASSUME SpawnDaemon(c) PROVE Kept
  <2>0. /\ cl' = [cl EXCEPT ![c].pc = "poll"] \/ cl' = Fallback(c)
        /\ cl[c].pc = "spawn" /\ UNCHANGED <<lock, sock>>
    BY <1>7 DEF SpawnDaemon, To
  <2>1. Moved(cl', c) /\ cl[c].pc = "spawn" /\ UNCHANGED <<lock, sock>>
    <3>1. Moved(Fallback(c), c)
      BY FallbackMoves
    <3>2. Moved([cl EXCEPT ![c].pc = "poll"], c)
      BY <1>p, PcMoves
    <3> QED BY <2>0, <3>1, <3>2
  <2>2. CASE dm' = dm
    BY <2>1, <2>2, MovedIsQuiet
  <2>3. ASSUME NEW d \in Daemons, dm[d].st = "none",
               dm' = [dm EXCEPT ![d].st = "spawned", ![d].sock = cl[c].cmd.sock, ![d].build = BuildOf[c]]
        PROVE  Kept
    <3>1. cl[c].cmd.sock \in Sockets
      BY <2>1, SocketKnown
    <3>2. /\ dm' \in [Daemons -> DaemonState]
          /\ \A e \in Daemons : dm'[e].st = IF e = d THEN "spawned" ELSE dm[e].st
      <4>1. cl[c].cmd.sock \in Sockets \cup {DefaultSocket} /\ BuildOf[c] \in OldBuilds \cup {BuildOf[b] : b \in Clients}
        BY <3>1
      <4> DEFINE new == [dm[d] EXCEPT !.st = "spawned", !.sock = cl[c].cmd.sock, !.build = BuildOf[c]]
      <4>2. new \in DaemonState /\ new.st = "spawned"
        BY <4>1 DEF DaemonState
      <4>3. dm' = [dm EXCEPT ![d] = new]
        BY <2>3
      <4> HIDE DEF new
      <4> QED BY <4>2, <4>3
    <3> QED BY <2>1, <3>2, QuietKeeps DEF Moved, Quiet
  <2> QED BY <1>7, <2>2, <2>3 DEF SpawnDaemon
<1>8. ASSUME Poll(c) PROVE Kept
  <2>0. cl' = [cl EXCEPT ![c].pc = "connect"] \/ cl' = Fallback(c)
    BY <1>8 DEF Poll, To
  <2>1. Moved(cl', c)
    <3>1. Moved(Fallback(c), c)
      BY FallbackMoves
    <3>2. Moved([cl EXCEPT ![c].pc = "connect"], c)
      BY <1>p, PcMoves
    <3> QED BY <2>0, <3>1, <3>2
  <2> QED BY <1>8, <2>1, MovedIsQuiet DEF Poll
<1>9. ASSUME Connect(c) PROVE Kept
  <2>1. CASE Answers(cl[c].cmd.sock)
    <3>1. PICK d \in Daemons : d = sock[cl[c].cmd.sock]
      BY <1>9, <2>1, SocketKnown DEF Connect, Answers
    <3>2. /\ cl' = [cl EXCEPT ![c].pc = "streaming", ![c].d = d]
          /\ dm' = [dm EXCEPT ![d].queue = Append(@, c)]
          /\ cl[c].pc = "connect" /\ UNCHANGED <<lock, sock>>
      BY <1>9, <2>1, <3>1 DEF Connect
    <3>3. Append(dm[d].queue, c) \in Seq(Clients)
      BY AppendProperties DEF DaemonState
    <3>4. dm' \in [Daemons -> DaemonState] /\ \A e \in Daemons : dm'[e].st = dm[e].st
      <4> DEFINE new == [dm[d] EXCEPT !.queue = Append(dm[d].queue, c)]
      <4>1. new \in DaemonState /\ new.st = dm[d].st
        BY <3>3 DEF DaemonState
      <4>2. dm' = [dm EXCEPT ![d] = new]
        BY <3>2
      <4> HIDE DEF new
      <4> QED BY <4>1, <4>2
    <3> DEFINE rec == [cl[c] EXCEPT !.pc = "streaming", !.d = d]
    <3>a. cl' = [cl EXCEPT ![c] = rec]
      BY <3>2 DEF ClientState
    <3>b. rec \in ClientState /\ rec.cmd = cl[c].cmd /\ rec.pc = "streaming" /\ rec.d = d
      <4>1. cl[c] \in ClientState
        OBVIOUS
      <4> QED BY <4>1 DEF ClientState, ClientPCs
    <3> HIDE DEF rec
    <3>5. cl' \in [Clients -> ClientState]
      BY <3>a, <3>b
    <3>6. /\ \A b \in Clients \ {c} : cl'[b] = cl[b]
          /\ cl'[c].cmd = cl[c].cmd /\ cl'[c].pc = "streaming" /\ cl'[c].d = d
      BY <3>a, <3>b
    <3> QED BY <3>2, <3>4, <3>5, <3>6, QuietKeeps DEF Quiet
  <2>2. CASE ~Answers(cl[c].cmd.sock)
    BY <1>9, <2>2, FallbackMoves, MovedIsQuiet DEF Connect
  <2> QED BY <2>1, <2>2
<1>10. ASSUME StreamLost(c) PROVE Kept
  BY <1>10, FallbackMoves, MovedIsQuiet DEF StreamLost
<1>11. ASSUME LocalLock(c) PROVE Kept
  <2>1. CASE CanAcquire
    <3>1. /\ cl' = [cl EXCEPT ![c].pc = "building"] /\ lock' = c
          /\ cl[c].pc = "local" /\ UNCHANGED <<dm, sock>>
      BY <1>11, <2>1 DEF LocalLock, To
    <3>4. cl' \in [Clients -> ClientState]
      BY <3>1 DEF ClientState, ClientPCs
    <3>5. /\ \A b \in Clients \ {c} : cl'[b] = cl[b]
          /\ cl'[c].cmd = cl[c].cmd /\ cl'[c].pc = "building"
      BY <3>1 DEF ClientState
    <3>6. TypeOK'
      BY <3>1, <3>4, <3>5
    <3>7. ASSUME LockNamesWriter PROVE LockNamesWriter'
      BY <2>1, <3>1, <3>5, <3>7, NobodyWrites DEF LockNamesWriter
    <3> QED BY <3>6, <3>7 DEF Kept
  <2>2. CASE ~CanAcquire
    <3>1. {"locked out"} \in SUBSET Outs
      BY DEF Outs
    <3>2. /\ cl' = [cl EXCEPT ![c].pc = "done", ![c].out = {"locked out"}]
          /\ cl[c].pc = "local" /\ UNCHANGED <<dm, lock, sock>>
      BY <1>11, <2>2 DEF LocalLock
    <3>3. Moved(cl', c)
      BY <1>p, <3>1, <3>2, PcMoves
    <3> QED BY <3>2, <3>3, MovedIsQuiet
  <2> QED BY <2>1, <2>2
<1>12. ASSUME LocalTarget(c) PROVE Kept
  <2>1. PICK r \in Outcomes(c) : cl' = [cl EXCEPT ![c].out = @ \cup {r}]
    BY <1>12 DEF LocalTarget
  <2>2. cl[c].out \cup {r} \in SUBSET Outs
    BY DEF ClientState, Outcomes, Outs
  <2>3. /\ cl' \in [Clients -> ClientState]
        /\ \A b \in Clients : cl'[b].pc = cl[b].pc /\ cl'[b].cmd = cl[b].cmd /\ cl'[b].d = cl[b].d
    BY <2>1, <2>2 DEF ClientState
  <2> QED BY <1>12, <2>3, QuietKeeps DEF LocalTarget, Quiet
<1>13. ASSUME LocalEnd(c) PROVE Kept
  <2>1. PICK r \in Outcomes(c) : cl' = [cl EXCEPT ![c].pc = "done", ![c].out = @ \cup {r}]
    BY <1>13 DEF LocalEnd
  <2>2. cl[c].out \cup {r} \in SUBSET Outs
    BY DEF ClientState, Outcomes, Outs
  <2>3. /\ cl' \in [Clients -> ClientState]
        /\ \A b \in Clients \ {c} : cl'[b] = cl[b]
        /\ cl'[c].cmd = cl[c].cmd /\ cl'[c].pc = "done"
    BY <2>1, <2>2 DEF ClientState, ClientPCs
  <2>4. cl[c].pc = "building" /\ lock' = (IF lock = c THEN NoOne ELSE lock) /\ UNCHANGED <<dm, sock>>
    BY <1>13 DEF LocalEnd
  <2>5. TypeOK'
    BY <2>3, <2>4
  <2>6. ASSUME LockNamesWriter PROVE LockNamesWriter'
    BY <2>3, <2>4, <2>6, ClientAssumption DEF LockNamesWriter
  <2> QED BY <2>5, <2>6 DEF Kept
<1>14. ASSUME Clean(c) PROVE Kept
  <2>1. /\ cl[c].pc = "clean" /\ UNCHANGED <<dm, sock>>
        /\ lock' = IF cl[c].cmd.expunge THEN NoOne ELSE lock
        /\ cl' = [cl EXCEPT ![c].pc = "done", ![c].out = {"ok"}]
    BY <1>14 DEF Clean
  <2>2. {"ok"} \in SUBSET Outs
    BY DEF Outs
  <2>3. Moved(cl', c)
    BY <1>p, <2>1, <2>2, PcMoves
  <2>4. CASE ~cl[c].cmd.expunge
    BY <2>1, <2>3, <2>4, MovedIsQuiet
  <2>5. CASE cl[c].cmd.expunge
    <3>1. ~NoExpunge
      BY <2>1, <2>5 DEF NoExpunge
    <3>2. TypeOK'
      BY <2>1, <2>3 DEF Moved
    <3> QED BY <3>1, <3>2 DEF Kept
  <2> QED BY <2>4, <2>5
<1>15. ASSUME NEW cmd \in Commands, Begin(c, cmd) PROVE Kept
  <2>1. /\ cl' \in [Clients -> ClientState]
        /\ \A b \in Clients \ {c} : cl'[b] = cl[b]
        /\ cl'[c].cmd = cmd /\ cl'[c].pc \in {"stop", "clean", "local", "probe"}
    <3>1. PICK pc \in {"stop", "clean", "local", "probe"} :
            cl' = [cl EXCEPT ![c].cmd = cmd, ![c].pc = pc]
      BY <1>15 DEF Begin
    <3>2. pc \in ClientPCs
      BY DEF ClientPCs
    <3> QED BY <1>15, <3>1, <3>2 DEF ClientState
  <2> QED BY <1>15, <2>1, QuietKeeps DEF Begin, Quiet
<1> QED BY <1>1, <1>2, <1>3, <1>4, <1>5, <1>6, <1>7, <1>8, <1>9, <1>10, <1>11, <1>12, <1>13,
           <1>14, <1>15 DEF ClientStep

-----------------------------------------------------------------------------
LEMMA StepKeeps == TypeOK /\ [Next]_vars => Kept
<1> SUFFICES ASSUME TypeOK, [Next]_vars PROVE Kept
  OBVIOUS
<1>1. CASE UNCHANGED vars
  BY <1>1, QuietKeeps DEF vars, TypeOK, Quiet
<1>2. ASSUME NEW c \in Clients,
             ClientStep(c) \/ LocalTarget(c) \/ \E cmd \in Commands : Begin(c, cmd)
      PROVE  Kept
  BY <1>2, ClientKeeps
<1>3. ASSUME NEW d \in Daemons, DaemonStep(d) \/ ActorDies(d) PROVE Kept
  BY <1>3, DaemonKeeps
<1>4. ASSUME NEW p \in Clients \cup Daemons, Kill(p) PROVE Kept
  BY <1>4, KillKeeps
<1> QED BY <1>1, <1>2, <1>3, <1>4 DEF Next

LEMMA WriterIsOne == WriterInv => OneWriter
<1> SUFFICES ASSUME WriterInv PROVE OneWriter
  OBVIOUS
<1>1. Building \subseteq {lock}
  BY DEF WriterInv, LockNamesWriter, Building
<1>2. IsFiniteSet({lock}) /\ Cardinality({lock}) = 1
  BY FS_Singleton
<1>3. Cardinality(Building) <= Cardinality({lock})
  BY <1>1, <1>2, FS_Subset
<1> QED BY <1>2, <1>3 DEF OneWriter

(***************************************************************************)
(* At most one process builds in a workspace, whatever races between       *)
(* daemons that start, commands that fall back to building in-process,     *)
(* restarts of another build's daemon and kills: "One writer per workspace *)
(* across ALL daemons" (outlock.rs).                                       *)
(***************************************************************************)
THEOREM OneWriterAlways == NoExpunge /\ Spec => []OneWriter
<1> SUFFICES ASSUME NoExpunge PROVE Spec => []OneWriter
  OBVIOUS
<1>1. WriterInv /\ [Next]_vars => WriterInv'
  BY StepKeeps DEF WriterInv, Kept
<1> QED BY <1>1, InitWriter, WriterIsOne, PTL DEF Spec

-----------------------------------------------------------------------------
LEMMA InitSettled == Init => SettledBuild
<1> SUFFICES ASSUME Init PROVE SettledBuild
  OBVIOUS
<1>1. \A c \in Clients : cl[c].pc = "idle"
  BY DEF Init
<1>2. /\ \A d \in Daemons : dm[d].st = IF d = OldDaemon THEN "serving" ELSE "none"
      /\ \A s \in Sockets : sock[s] # NoOne => sock[s] = OldDaemon
  BY DEF Init
<1> QED BY <1>1, <1>2, ClientAssumption DEF SettledBuild, SameBuild

(* A step after which no client is nearer to a daemon's answer, no daemon  *)
(* has been started and none has come to a socket.                         *)
StreamsAsBefore(new) ==
  \A b \in Clients : /\ new[b].pc = "connect" => cl[b].pc = "connect" /\ new[b].cmd = cl[b].cmd
                     /\ new[b].pc = "streaming" => cl[b].pc = "streaming" /\ new[b].d = cl[b].d
DaemonsAsBefore ==
  \A d \in Daemons : /\ dm'[d].build = dm[d].build
                     /\ dm'[d].st \in {"spawned", "locked"} => dm[d].st \in {"spawned", "locked"}
                     /\ dm[d].st # "none" => dm'[d].st # "none"
SocketsAsBefore == \A s \in Sockets : sock'[s] \in {sock[s], NoOne}

LEMMA SettledStays ==
  ASSUME TypeOK, SettledBuild, StreamsAsBefore(cl'), DaemonsAsBefore, SocketsAsBefore
  PROVE  SettledBuild'
<1> USE DEF TypeOK
<1>1. \A d \in Daemons : dm'[d].st \in {"spawned", "locked"} =>
        \A c \in Clients : dm'[d].build = BuildOf[c]
  BY DEF SettledBuild, DaemonsAsBefore
<1>2. \A s \in Sockets : sock'[s] # NoOne => sock'[s] \in Daemons /\ dm'[sock'[s]].st # "none"
  BY DEF SettledBuild, DaemonsAsBefore, SocketsAsBefore
<1>3. ASSUME NEW c \in Clients, cl'[c].pc = "streaming"
      PROVE  dm'[cl'[c].d].st # "none" /\ dm'[cl'[c].d].build = BuildOf[c]
  <2>1. PICK d \in Daemons : d = cl[c].d /\ d = cl'[c].d /\ cl[c].pc = "streaming"
    BY <1>3 DEF StreamsAsBefore
  <2>2. dm[d].st # "none" /\ dm[d].build = BuildOf[c]
    BY <2>1 DEF SettledBuild, SameBuild
  <2>3. dm'[d].st # "none" /\ dm'[d].build = BuildOf[c]
    BY <2>2 DEF DaemonsAsBefore
  <2> QED BY <2>1, <2>3
<1>4. ASSUME NEW c \in Clients, cl'[c].pc = "connect", sock'[cl'[c].cmd.sock] # NoOne
      PROVE  dm'[sock'[cl'[c].cmd.sock]].build = BuildOf[c]
  <2>1. cl[c].pc = "connect" /\ cl'[c].cmd = cl[c].cmd
    BY <1>4 DEF StreamsAsBefore
  <2>2. PICK s \in Sockets : s = cl[c].cmd.sock
    BY <2>1, SocketKnown
  <2>3. sock'[s] = sock[s] /\ sock[s] # NoOne
    BY <1>4, <2>1, <2>2 DEF SocketsAsBefore
  <2>4. PICK d \in Daemons : d = sock[s]
    BY <2>3
  <2>5. dm[d].build = BuildOf[c]
    BY <2>1, <2>2, <2>3, <2>4 DEF SettledBuild
  <2>6. dm'[d].build = dm[d].build
    BY DEF DaemonsAsBefore
  <2> QED BY <2>1, <2>2, <2>3, <2>4, <2>5, <2>6
<1> QED BY <1>1, <1>2, <1>3, <1>4 DEF SettledBuild, SameBuild

LEMMA PcStreams ==
  ASSUME TypeOK, NEW c \in Clients, NEW pc, pc \notin {"connect", "streaming"}
  PROVE  /\ StreamsAsBefore([cl EXCEPT ![c].pc = pc])
         /\ \A out : StreamsAsBefore([cl EXCEPT ![c].pc = pc, ![c].out = out])
BY DEF TypeOK, StreamsAsBefore, ClientState

LEMMA FallbackStreams ==
  ASSUME TypeOK, NEW c \in Clients
  PROVE  /\ StreamsAsBefore(Fallback(c))
         /\ \A how : StreamsAsBefore(AfterStop(c, how))
BY PcStreams DEF Fallback, AfterStop

LEMMA StageSettled ==
  ASSUME TypeOK, NEW d \in Daemons, NEW st \in {"locked", "serving", "exiting", "dead"},
         st = "locked" => dm[d].st = "spawned", dm' = [dm EXCEPT ![d].st = st]
  PROVE  DaemonsAsBefore
BY DEF TypeOK, DaemonState, DaemonsAsBefore

(* Each step, with what it changes of the daemons, the sockets and the     *)
(* streams.                                                                *)
LEMMA DaemonSettled ==
  ASSUME TypeOK, SettledBuild, NEW d \in Daemons, DaemonStep(d) \/ ActorDies(d)
  PROVE  SettledBuild'
<1> USE DEF TypeOK
<1>c. StreamsAsBefore(cl)
  BY DEF StreamsAsBefore
<1>s. ASSUME UNCHANGED sock PROVE SocketsAsBefore
  BY <1>s DEF SocketsAsBefore
<1>1. ASSUME DaemonLock(d) PROVE SettledBuild'
  <2>1. /\ dm' = [dm EXCEPT ![d].st = "locked"] \/ dm' = [dm EXCEPT ![d].st = "dead"]
        /\ dm[d].st = "spawned" /\ UNCHANGED <<cl, sock>>
    BY <1>1 DEF DaemonLock
  <2>2. DaemonsAsBefore
    <3>1. CASE dm' = [dm EXCEPT ![d].st = "locked"]
      BY <2>1, <3>1, StageSettled
    <3>2. CASE dm' = [dm EXCEPT ![d].st = "dead"]
      BY <2>1, <3>2, StageSettled
    <3> QED BY <2>1, <3>1, <3>2
  <2> QED BY <1>c, <1>s, <2>1, <2>2, SettledStays
<1>2. ASSUME DaemonBind(d) PROVE SettledBuild'
  <2>1. /\ dm[d].st = "locked" /\ dm' = [dm EXCEPT ![d].st = "serving"] /\ UNCHANGED cl
        /\ sock' = [sock EXCEPT ![dm[d].sock] = d]
    BY <1>2 DEF DaemonBind
  <2>2. DaemonsAsBefore
    BY <2>1, StageSettled
  <2>3. \A c \in Clients : dm'[d].build = BuildOf[c]
    BY <2>1, <2>2 DEF SettledBuild, DaemonsAsBefore
  <2>4. \A s \in Sockets : sock'[s] \in {sock[s], d}
    BY <2>1
  <2>5. \A s \in Sockets : sock'[s] # NoOne => sock'[s] \in Daemons /\ dm'[sock'[s]].st # "none"
    BY <2>1, <2>2, <2>4 DEF SettledBuild, DaemonsAsBefore
  <2>6. ASSUME NEW c \in Clients, cl[c].pc = "connect", sock'[cl[c].cmd.sock] # NoOne
        PROVE  dm'[sock'[cl[c].cmd.sock]].build = BuildOf[c]
    <3>1. PICK s \in Sockets : s = cl[c].cmd.sock
      BY <2>6, SocketKnown
    <3>2. CASE sock'[s] = d
      BY <2>3, <3>1, <3>2
    <3>3. CASE sock'[s] = sock[s]
      <4>1. PICK e \in Daemons : e = sock[s]
        BY <2>6, <3>1, <3>3
      <4>2. dm'[e].build = dm[e].build /\ dm[e].build = BuildOf[c]
        BY <2>2, <2>6, <3>1, <3>3, <4>1 DEF SettledBuild, DaemonsAsBefore
      <4> QED BY <3>1, <3>3, <4>1, <4>2
    <3> QED BY <2>4, <3>2, <3>3
  <2>7. \A c \in Clients : cl[c].pc = "streaming" =>
          dm'[cl[c].d].st # "none" /\ dm'[cl[c].d].build = BuildOf[c]
    BY <2>2 DEF SettledBuild, SameBuild, DaemonsAsBefore
  <2> QED BY <2>1, <2>2, <2>5, <2>6, <2>7 DEF SettledBuild, SameBuild, DaemonsAsBefore
<1>3. ASSUME ActorTakes(d) PROVE SettledBuild'
  <2>1. DaemonsAsBefore
    BY <1>3 DEF ActorTakes, DaemonsAsBefore, DaemonState
  <2> QED BY <1>3, <1>c, <1>s, <2>1, SettledStays DEF ActorTakes
<1>4. ASSUME ActorReplies(d) PROVE SettledBuild'
  <2>1. DaemonsAsBefore /\ UNCHANGED sock
    BY <1>4 DEF ActorReplies, DaemonsAsBefore, DaemonState
  <2>2. PICK c \in Clients : c = dm[d].job
    BY <1>4 DEF ActorReplies, DaemonState
  <2>3. StreamsAsBefore(cl')
    <3>1. \/ cl' = cl
          \/ \E r \in {"ok", "failed"} : cl' = [cl EXCEPT ![c].pc = "done", ![c].out = {r}]
      BY <1>4, <2>2 DEF ActorReplies
    <3>2. ASSUME NEW r \in {"ok", "failed"}, cl' = [cl EXCEPT ![c].pc = "done", ![c].out = {r}]
          PROVE  StreamsAsBefore(cl')
      BY <3>2, PcStreams
    <3> QED BY <1>c, <3>1, <3>2
  <2> QED BY <1>s, <2>1, <2>3, SettledStays
<1>5. ASSUME DaemonExit(d) PROVE SettledBuild'
  <2>1. DaemonsAsBefore
    BY <1>5, StageSettled DEF DaemonExit
  <2> QED BY <1>5, <1>c, <1>s, <2>1, SettledStays DEF DaemonExit
<1>6. ASSUME ActorDies(d) PROVE SettledBuild'
  <2>1. DaemonsAsBefore
    BY <1>6 DEF ActorDies, DaemonsAsBefore, DaemonState
  <2> QED BY <1>6, <1>c, <1>s, <2>1, SettledStays DEF ActorDies
<1> QED BY <1>1, <1>2, <1>3, <1>4, <1>5, <1>6 DEF DaemonStep

LEMMA KillSettled ==
  ASSUME TypeOK, SettledBuild, NEW p \in Clients \cup Daemons, Kill(p)
  PROVE  SettledBuild'
<1>s. SocketsAsBefore
  BY DEF Kill, SocketsAsBefore
<1>1. CASE p \in Daemons
  <2>1. DaemonsAsBefore /\ cl' = cl
    BY <1>1, StageSettled DEF Kill
  <2>2. StreamsAsBefore(cl')
    BY <2>1 DEF StreamsAsBefore
  <2> QED BY <1>s, <2>1, <2>2, SettledStays
<1>2. CASE p \in Clients
  <2>1. cl' = [cl EXCEPT ![p].pc = "dead"] /\ UNCHANGED dm
    BY <1>2, ClientAssumption DEF Kill
  <2>2. StreamsAsBefore(cl')
    BY <1>2, <2>1, PcStreams
  <2>3. DaemonsAsBefore
    BY <2>1 DEF DaemonsAsBefore
  <2> QED BY <1>s, <2>2, <2>3, SettledStays
<1> QED BY <1>1, <1>2

(* A client has found a daemon of its build on its socket. *)
LEMMA ComesToConnect ==
  ASSUME TypeOK, SettledBuild, NEW c \in Clients, cl[c].pc # "idle",
         cl' = [cl EXCEPT ![c].pc = "connect"], UNCHANGED <<dm, sock>>,
         dm[sock[cl[c].cmd.sock]].build = BuildOf[c]
  PROVE  SettledBuild'
<1>1. /\ \A b \in Clients \ {c} : cl'[b] = cl[b]
      /\ cl'[c].pc = "connect" /\ cl'[c].cmd = cl[c].cmd
  BY DEF TypeOK, ClientState
<1> QED BY <1>1 DEF SettledBuild, SameBuild

(* A daemon is started: of the client's build, and so of everybody's. *)
LEMMA Spawned ==
  ASSUME TypeOK, SettledBuild, OneBuild, NEW c \in Clients, SpawnDaemon(c)
  PROVE  SettledBuild'
<1> USE DEF TypeOK
<1>1. CASE dm' = dm
  <2>1. \/ cl' = [cl EXCEPT ![c].pc = "poll"] \/ cl' = Fallback(c)
    BY DEF SpawnDaemon, To
  <2>2. StreamsAsBefore([cl EXCEPT ![c].pc = "poll"]) /\ StreamsAsBefore(Fallback(c))
    BY PcStreams, FallbackStreams
  <2>3. DaemonsAsBefore /\ SocketsAsBefore
    BY <1>1 DEF SpawnDaemon, DaemonsAsBefore, SocketsAsBefore
  <2> QED BY <2>1, <2>2, <2>3, SettledStays
<1>2. CASE dm' # dm
  <2>1. PICK d \in Daemons :
          /\ dm[d].st = "none"
          /\ dm' = [dm EXCEPT ![d].st = "spawned", ![d].sock = cl[c].cmd.sock, ![d].build = BuildOf[c]]
          /\ cl' = [cl EXCEPT ![c].pc = "poll"]
    BY <1>2 DEF SpawnDaemon, To
  <2>2. /\ \A e \in Daemons \ {d} : dm'[e] = dm[e]
        /\ dm'[d].st = "spawned" /\ dm'[d].build = BuildOf[c] /\ sock' = sock
    BY <2>1 DEF DaemonState, SpawnDaemon
  <2>3. StreamsAsBefore(cl')
    BY <2>1, PcStreams
  <2>4. \A e \in Daemons : dm'[e].st \in {"spawned", "locked"} =>
          \A b \in Clients : dm'[e].build = BuildOf[b]
    BY <2>2 DEF SettledBuild, OneBuild
  <2>5. \A s \in Sockets : sock[s] # NoOne => sock[s] # d
    BY <2>1 DEF SettledBuild
  <2>6. \A b \in Clients : cl'[b].pc = "streaming" =>
          cl[b].pc = "streaming" /\ cl'[b].d = cl[b].d /\ cl[b].d # d
    BY <2>1, <2>3 DEF SettledBuild, StreamsAsBefore
  <2>7. ASSUME NEW b \in Clients, cl'[b].pc = "connect", sock'[cl'[b].cmd.sock] # NoOne
        PROVE  dm'[sock'[cl'[b].cmd.sock]].build = BuildOf[b]
    <3>1. cl[b].pc = "connect" /\ cl'[b].cmd = cl[b].cmd
      BY <2>3, <2>7 DEF StreamsAsBefore
    <3>2. PICK s \in Sockets : s = cl[b].cmd.sock
      BY <3>1, SocketKnown
    <3>3. PICK e \in Daemons : e = sock[s] /\ e # d
      BY <2>2, <2>5, <2>7, <3>1, <3>2
    <3>4. dm[e].build = BuildOf[b]
      BY <2>2, <2>7, <3>1, <3>2, <3>3 DEF SettledBuild
    <3> QED BY <2>2, <3>1, <3>2, <3>3, <3>4
  <2>8. \A s \in Sockets : sock'[s] # NoOne => dm'[sock'[s]].st # "none"
    BY <2>2, <2>5 DEF SettledBuild
  <2>9. \A b \in Clients : cl'[b].pc = "streaming" =>
          dm'[cl'[b].d].st # "none" /\ dm'[cl'[b].d].build = BuildOf[b]
    BY <2>2, <2>6 DEF SettledBuild, SameBuild
  <2> QED BY <2>4, <2>7, <2>8, <2>9 DEF SettledBuild, SameBuild
<1> QED BY <1>1, <1>2

(* The stream is opened to whatever answers by now. *)
LEMMA Connected ==
  ASSUME TypeOK, SettledBuild, NEW c \in Clients, Connect(c)
  PROVE  SettledBuild'
<1> USE DEF TypeOK
<1>1. cl[c].pc = "connect" /\ UNCHANGED sock
  BY DEF Connect
<1>2. CASE ~Answers(cl[c].cmd.sock)
  <2>1. StreamsAsBefore(cl') /\ DaemonsAsBefore /\ SocketsAsBefore
    BY <1>2, FallbackStreams DEF Connect, DaemonsAsBefore, SocketsAsBefore
  <2> QED BY <2>1, SettledStays
<1>3. CASE Answers(cl[c].cmd.sock)
  <2>1. PICK s \in Sockets : s = cl[c].cmd.sock
    BY <1>1, SocketKnown
  <2>2. PICK d \in Daemons : d = sock[s]
    BY <1>3, <2>1 DEF Answers
  <2>3. /\ cl' = [cl EXCEPT ![c].pc = "streaming", ![c].d = d]
        /\ dm' = [dm EXCEPT ![d].queue = Append(@, c)]
    BY <1>3, <2>1, <2>2 DEF Connect
  <2>4. /\ \A b \in Clients \ {c} : cl'[b] = cl[b]
        /\ cl'[c].pc = "streaming" /\ cl'[c].d = d
    BY <2>3 DEF ClientState
  <2>5. \A e \in Daemons : dm'[e].st = dm[e].st /\ dm'[e].build = dm[e].build
    BY <2>3 DEF DaemonState
  <2>6. dm[d].st # "none" /\ dm[d].build = BuildOf[c] /\ d # NoOne
    BY <1>1, <1>3, <2>1, <2>2 DEF SettledBuild, Answers
  <2>7. \A b \in Clients : cl'[b].pc = "streaming" =>
          dm'[cl'[b].d].st # "none" /\ dm'[cl'[b].d].build = BuildOf[b]
    BY <2>4, <2>5, <2>6 DEF SettledBuild, SameBuild
  <2>8. \A b \in Clients : cl'[b].pc = "connect" /\ sock[cl'[b].cmd.sock] # NoOne =>
          dm'[sock[cl'[b].cmd.sock]].build = BuildOf[b]
    <3> SUFFICES ASSUME NEW b \in Clients, cl'[b].pc = "connect", sock[cl'[b].cmd.sock] # NoOne
                 PROVE  dm'[sock[cl'[b].cmd.sock]].build = BuildOf[b]
      OBVIOUS
    <3>1. b # c /\ cl'[b] = cl[b]
      BY <2>4
    <3>2. sock[cl[b].cmd.sock] \in Daemons
      BY <3>1, SocketKnown
    <3> QED BY <2>5, <3>1, <3>2 DEF SettledBuild
  <2>9. \A t \in Sockets : sock[t] # NoOne => dm'[sock[t]].st # "none"
    BY <2>5 DEF SettledBuild
  <2>10. \A e \in Daemons : dm'[e].st \in {"spawned", "locked"} =>
           \A b \in Clients : dm'[e].build = BuildOf[b]
    BY <2>5 DEF SettledBuild
  <2> QED BY <1>1, <2>7, <2>8, <2>9, <2>10 DEF SettledBuild, SameBuild
<1> QED BY <1>2, <1>3

LEMMA ClientSettled ==
  ASSUME TypeOK, SettledBuild, OneBuild, NEW c \in Clients,
         ClientStep(c) \/ LocalTarget(c) \/ \E cmd \in Commands : Begin(c, cmd)
  PROVE  SettledBuild'
<1> USE DEF TypeOK
<1>t. cl[c] \in ClientState
  OBVIOUS
<1>d. ASSUME UNCHANGED dm PROVE DaemonsAsBefore
  BY <1>d DEF DaemonsAsBefore
<1>s. ASSUME UNCHANGED sock PROVE SocketsAsBefore
  BY <1>s DEF SocketsAsBefore
<1>1. ASSUME Probe(c) PROVE SettledBuild'
  <2>1. UNCHANGED <<dm, sock>> /\ cl[c].pc = "probe"
    BY <1>1 DEF Probe
  <2>2. CASE Mine(c)
    <3>1. /\ cl' = [cl EXCEPT ![c].pc = "connect"]
          /\ dm[sock[cl[c].cmd.sock]].build = BuildOf[c]
      BY <1>1, <2>2 DEF Probe, Mine
    <3> QED BY <2>1, <3>1, ComesToConnect
  <2>3. CASE ~Mine(c)
    <3>1. \/ cl' = [cl EXCEPT ![c].pc = "spawn"] \/ cl' = [cl EXCEPT ![c].pc = "stop"]
          \/ cl' = Fallback(c)
      BY <1>1, <2>3 DEF Probe, Mine
    <3>2. /\ StreamsAsBefore([cl EXCEPT ![c].pc = "spawn"])
          /\ StreamsAsBefore([cl EXCEPT ![c].pc = "stop"])
      BY PcStreams
    <3>3. StreamsAsBefore(Fallback(c))
      BY FallbackStreams
    <3>4. StreamsAsBefore(cl')
      BY <3>1, <3>2, <3>3
    <3> QED BY <1>d, <1>s, <2>1, <3>4, SettledStays
  <2> QED BY <2>2, <2>3
<1>2. ASSUME SendShutdown(c) PROVE SettledBuild'
  <2>1. cl[c].pc = "stop" /\ UNCHANGED sock
    BY <1>2 DEF SendShutdown
  <2>2. StreamsAsBefore(cl')
    <3>1. cl' = AfterStop(c, "not running") \/ cl' = [cl EXCEPT ![c].pc = "wait_down"]
      BY <1>2 DEF SendShutdown, To
    <3>2. StreamsAsBefore([cl EXCEPT ![c].pc = "wait_down"])
      BY PcStreams
    <3>3. StreamsAsBefore(AfterStop(c, "not running"))
      BY FallbackStreams
    <3> QED BY <3>1, <3>2, <3>3
  <2>3. DaemonsAsBefore
    <3>1. CASE dm' = dm BY <1>d, <3>1
    <3>2. CASE dm' # dm
      <4>1. PICK d \in Daemons : d = sock[cl[c].cmd.sock]
        BY <1>2, <2>1, <3>2, SocketKnown DEF SendShutdown, Answers
      <4>2. dm' = [dm EXCEPT ![d].st = "exiting"]
        BY <1>2, <3>2, <4>1 DEF SendShutdown
      <4> QED BY <4>2, StageSettled
    <3> QED BY <3>1, <3>2
  <2> QED BY <1>s, <2>1, <2>2, <2>3, SettledStays
<1>3. ASSUME WaitDown(c) PROVE SettledBuild'
  <2>1. cl' = [cl EXCEPT ![c].pc = "unlink"] /\ UNCHANGED <<dm, sock>>
    BY <1>3 DEF WaitDown, To
  <2>2. StreamsAsBefore(cl')
    BY <2>1, PcStreams
  <2> QED BY <1>d, <1>s, <2>1, <2>2, SettledStays
<1>4. ASSUME RemoveSocket(c) PROVE SettledBuild'
  <2>1. /\ cl' = AfterStop(c, "stopped") /\ UNCHANGED dm
        /\ sock' = [sock EXCEPT ![cl[c].cmd.sock] = NoOne]
    BY <1>4 DEF RemoveSocket
  <2>2. SocketsAsBefore
    BY <2>1 DEF SocketsAsBefore
  <2> QED BY <1>d, <2>1, <2>2, FallbackStreams, SettledStays
<1>5. ASSUME KillHolder(c) PROVE SettledBuild'
  <2>1. DaemonsAsBefore
    <3>1. CASE lock \in Daemons
      <4>1. dm' = [dm EXCEPT ![lock].st = "dead"]
        BY <1>5, <3>1 DEF KillHolder
      <4> QED BY <3>1, <4>1, StageSettled
    <3>2. CASE lock \notin Daemons
      BY <1>5, <1>d, <3>2 DEF KillHolder
    <3> QED BY <3>1, <3>2
  <2>2. StreamsAsBefore(cl')
    <3>1. \A b \in Clients : cl'[b] = cl[b] \/ cl'[b].pc \in {"wait_killed", "dead"}
      BY <1>5 DEF KillHolder, ClientState
    <3> QED BY <3>1 DEF StreamsAsBefore
  <2> QED BY <1>5, <1>s, <2>1, <2>2, SettledStays DEF KillHolder
<1>6. ASSUME StopFails(c) PROVE SettledBuild'
  <2>1. cl' = AfterStop(c, "stop failed") /\ UNCHANGED <<dm, sock>>
    BY <1>6 DEF StopFails
  <2> QED BY <1>d, <1>s, <2>1, FallbackStreams, SettledStays
<1>7. ASSUME SpawnDaemon(c) PROVE SettledBuild'
  BY <1>7, Spawned
<1>8. ASSUME Poll(c) PROVE SettledBuild'
  <2>1. CASE Mine(c) /\ cl' = [cl EXCEPT ![c].pc = "connect"]
    BY <1>8, <2>1, ComesToConnect DEF Poll, Mine
  <2>2. CASE cl' = Fallback(c)
    BY <1>8, <1>d, <1>s, <2>2, FallbackStreams, SettledStays DEF Poll
  <2> QED BY <1>8, <2>1, <2>2 DEF Poll, To
<1>9. ASSUME Connect(c) PROVE SettledBuild'
  BY <1>9, Connected
<1>10. ASSUME StreamLost(c) PROVE SettledBuild'
  <2>1. cl' = Fallback(c) /\ UNCHANGED <<dm, sock>>
    BY <1>10 DEF StreamLost
  <2> QED BY <1>d, <1>s, <2>1, FallbackStreams, SettledStays
<1>11. ASSUME LocalLock(c) \/ LocalTarget(c) \/ LocalEnd(c) \/ Clean(c) \/ \E cmd \in Commands : Begin(c, cmd)
       PROVE  SettledBuild'
  <2>1. UNCHANGED <<dm, sock>>
    BY <1>11 DEF LocalLock, LocalTarget, LocalEnd, Clean, Begin
  <2>2. /\ \A b \in Clients \ {c} : cl'[b] = cl[b]
        /\ cl'[c].pc \notin {"connect", "streaming"}
    <3>1. CASE LocalLock(c)
      BY <3>1 DEF LocalLock, To, ClientState
    <3>2. CASE LocalTarget(c)
      BY <3>2 DEF LocalTarget, ClientState
    <3>3. CASE LocalEnd(c)
      BY <3>3 DEF LocalEnd, ClientState
    <3>4. CASE Clean(c)
      BY <3>4 DEF Clean, ClientState
    <3>5. CASE \E cmd \in Commands : Begin(c, cmd)
      <4>1. PICK cmd \in Commands, pc \in {"stop", "clean", "local", "probe"} :
              cl' = [cl EXCEPT ![c].cmd = cmd, ![c].pc = pc]
        BY <3>5 DEF Begin
      <4> QED BY <4>1 DEF ClientState
    <3> QED BY <1>11, <3>1, <3>2, <3>3, <3>4, <3>5
  <2>3. StreamsAsBefore(cl')
    BY <2>2 DEF StreamsAsBefore
  <2> QED BY <1>d, <1>s, <2>1, <2>3, SettledStays
<1> QED BY <1>1, <1>2, <1>3, <1>4, <1>5, <1>6, <1>7, <1>8, <1>9, <1>10, <1>11 DEF ClientStep

LEMMA SettledStep == OneBuild /\ TypeOK /\ SettledBuild /\ [Next]_vars => SettledBuild'
<1> SUFFICES ASSUME OneBuild, TypeOK, SettledBuild, [Next]_vars PROVE SettledBuild'
  OBVIOUS
<1>1. CASE UNCHANGED vars
  BY <1>1 DEF vars, SettledBuild, SameBuild
<1>2. ASSUME NEW c \in Clients,
             ClientStep(c) \/ LocalTarget(c) \/ \E cmd \in Commands : Begin(c, cmd)
      PROVE  SettledBuild'
  BY <1>2, ClientSettled
<1>3. ASSUME NEW d \in Daemons, DaemonStep(d) \/ ActorDies(d) PROVE SettledBuild'
  BY <1>3, DaemonSettled
<1>4. ASSUME NEW p \in Clients \cup Daemons, Kill(p) PROVE SettledBuild'
  BY <1>4, KillSettled
<1> QED BY <1>1, <1>2, <1>3, <1>4 DEF Next

(***************************************************************************)
(* A client that streams a build streams it from a daemon of its own       *)
(* build, while all clients run one: "the warm server can never serve      *)
(* results from code the CLI no longer runs" (ensure_daemon), whichever    *)
(* daemons raced it to the socket and whatever was there before.           *)
(***************************************************************************)
THEOREM SameBuildAlways == OneBuild /\ Spec => []SameBuild
<1> SUFFICES ASSUME OneBuild PROVE Spec => []SameBuild
  OBVIOUS
<1>1. Init => TypeOK /\ SettledBuild
  BY InitWriter, InitSettled DEF WriterInv
<1>2. TypeOK /\ [Next]_vars => TypeOK'
  BY StepKeeps DEF Kept
<1>3. TypeOK /\ SettledBuild /\ [Next]_vars => SettledBuild'
  BY SettledStep
<1>4. SettledBuild => SameBuild
  BY DEF SettledBuild
<1> QED BY <1>1, <1>2, <1>3, <1>4, PTL DEF Spec

=============================================================================
