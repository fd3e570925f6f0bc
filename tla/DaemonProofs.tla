---------------------------- MODULE DaemonProofs ----------------------------
(***************************************************************************)
(* The two parts of razel-daemon that decide what a client may believe.    *)
(*                                                                         *)
(* The workspace lock (OutLock), for every finite set of processes: as     *)
(* long as processes enter acquire one at a time, the lock is exclusive.   *)
(* The two-contender run shows that the hypothesis cannot be dropped.      *)
(*                                                                         *)
(* The build actor (Actor), for every set of sources, actions, targets and *)
(* clients and any number of edits and builds: what it commits is current, *)
(* and is what a build from scratch would give.                            *)
(***************************************************************************)
EXTENDS OutLock, Actor, FiniteSetTheorems, SequenceTheorems, TLAPS

-----------------------------------------------------------------------------
(* The workspace lock.                                                     *)

(* Every variable keeps its type, whatever MaxContenders is. *)
THEOREM LockTypeCorrect == LockSpec => []LockTypeOK
<1>1. LockInit => LockTypeOK
  BY DEF LockInit, LockTypeOK, PCs
<1>2. LockTypeOK /\ [LockNext]_lockVars => LockTypeOK'
  BY ProcsAssumption, SMTT(30)
     DEF LockTypeOK, PCs, LockFile, LockNext, Step, lockVars, Move, BeginAcquire, CreateNew,
         WritePid, ReadHolder, Reap, BeginDrop, BeginShutdown, CheckOurs, Unlink,
         Exit, Crash, terminate, holder_pid, Ours, pid_alive
<1> QED BY <1>1, <1>2, PTL DEF LockSpec

(* The guard of BeginAcquire, read as a set: with one contender allowed,   *)
(* nobody else is inside acquire.                                          *)
LEMMA NobodyAcquiring ==
  ASSUME MaxContenders = 1, Cardinality(Acquiring) < MaxContenders
  PROVE  Acquiring = {}
<1>1. IsFiniteSet(Acquiring)
  BY ProcsAssumption, FS_Subset DEF Acquiring
<1>2. Cardinality(Acquiring) \in Nat
  BY <1>1, FS_CardinalityType
<1>3. Cardinality(Acquiring) = 0
  BY <1>2
<1> QED BY <1>1, <1>3, FS_EmptySet

(* The inductive step, one case per action of acquire and release. *)
LEMMA LockInvStep ==
  ASSUME MaxContenders = 1, LockTypeOK, LockInv, [LockNext]_lockVars
  PROVE  LockInv'
<1> USE ProcsAssumption DEF LockTypeOK, LockInv, Move, PCs, LockFile,
      OneAcquirer, OwnersOwnTheFile, WriterCreatedIt, ReapOnlyStale, Owners
<1>1. ASSUME NEW p \in Procs, BeginAcquire(p) PROVE LockInv'
  <2>1. Acquiring = {}
    BY <1>1, NobodyAcquiring DEF BeginAcquire
  <2> QED BY <1>1, <2>1 DEF BeginAcquire, Acquiring
<1>2. ASSUME NEW p \in Procs, CreateNew(p) PROVE LockInv'
  BY <1>2 DEF CreateNew, Acquiring
<1>3. ASSUME NEW p \in Procs, WritePid(p) PROVE LockInv'
  BY <1>3 DEF WritePid, Acquiring
<1>4. ASSUME NEW p \in Procs, ReadHolder(p) PROVE LockInv'
  BY <1>4 DEF ReadHolder, Acquiring, holder_pid, pid_alive
<1>5. ASSUME NEW p \in Procs, Reap(p) PROVE LockInv'
  BY <1>5 DEF Reap, Acquiring
<1>6. ASSUME NEW p \in Procs, BeginDrop(p) \/ BeginShutdown(p) PROVE LockInv'
  BY <1>6 DEF BeginDrop, BeginShutdown, Acquiring
<1>7. ASSUME NEW p \in Procs, CheckOurs(p) PROVE LockInv'
  BY <1>7 DEF CheckOurs, Ours, Acquiring
<1>8. ASSUME NEW p \in Procs, Unlink(p) PROVE LockInv'
  BY <1>8 DEF Unlink, Acquiring
<1>9. ASSUME NEW p \in Procs, Exit(p) \/ Crash(p) PROVE LockInv'
  BY <1>9 DEF Exit, Crash, Acquiring
<1>10. CASE terminate
  BY <1>10 DEF terminate, holder_pid, pid_alive, Acquiring
<1>11. CASE UNCHANGED lockVars
  BY <1>11 DEF lockVars, Acquiring
<1> QED BY <1>1, <1>2, <1>3, <1>4, <1>5, <1>6, <1>7, <1>8, <1>9, <1>10, <1>11
        DEF LockNext, Step

(* One writer per workspace across all daemons, for any number of them, as *)
(* long as they enter acquire one at a time.                               *)
THEOREM LockIsExclusive == MaxContenders = 1 /\ LockSpec => []MutualExclusion
<1> SUFFICES ASSUME MaxContenders = 1 PROVE LockSpec => []MutualExclusion
  OBVIOUS
<1>1. LockInit => LockInv
  BY DEF LockInit, LockInv, OneAcquirer, OwnersOwnTheFile, WriterCreatedIt,
         ReapOnlyStale, Owners, Acquiring
<1>2. LockTypeOK /\ LockInv /\ [LockNext]_lockVars => LockInv'
  BY LockInvStep
<1>3. LockInv => MutualExclusion
  BY DEF LockInv, OwnersOwnTheFile, Owners, MutualExclusion, Holders
<1> QED BY <1>1, <1>2, <1>3, LockTypeCorrect, PTL DEF LockSpec

(* The steps that unlink or replace the file are taken by its own holder,  *)
(* or when nobody holds it.                                                *)
LEMMA HeldFileKept ==
  ASSUME LockTypeOK, LockInv, [LockNext]_lockVars, NEW p \in Procs, at[p] = "held", at'[p] = "held"
  PROVE  lockfile' = lockfile
<1> USE ProcsAssumption DEF LockTypeOK, LockInv, Move, PCs, LockFile,
      OwnersOwnTheFile, WriterCreatedIt, ReapOnlyStale, Owners
<1>1. lockfile = [by |-> p, text |-> p] /\ lockfile # NoFile
  OBVIOUS
<1>2. ASSUME NEW q \in Procs, CreateNew(q) PROVE lockfile' = lockfile
  BY <1>1, <1>2 DEF CreateNew
<1>3. ASSUME NEW q \in Procs, WritePid(q) PROVE lockfile' = lockfile
  BY <1>1, <1>3 DEF WritePid
<1>4. ASSUME NEW q \in Procs, Reap(q) PROVE FALSE
  BY <1>4 DEF Reap
<1>5. ASSUME NEW q \in Procs, Unlink(q) PROVE FALSE
  <2>1. lockfile = [by |-> q, text |-> q] BY <1>5 DEF Unlink
  <2>2. q = p BY <1>1, <2>1
  <2> QED BY <1>5, <2>2 DEF Unlink
<1> QED BY <1>2, <1>3, <1>4, <1>5
        DEF LockNext, Step, lockVars, BeginAcquire, ReadHolder, BeginDrop, BeginShutdown, CheckOurs,
            Exit, Crash, terminate

(* While acquirers come one at a time, a live holder's lock file is never  *)
(* reaped, replaced or released by another process (outlock.rs:14 and 82), *)
(* for any number of processes, deaths and takeovers.                      *)
THEOREM LiveLockSurvives == MaxContenders = 1 /\ LockSpec => LiveLockKept
<1> SUFFICES ASSUME MaxContenders = 1 PROVE LockSpec => LiveLockKept
  OBVIOUS
<1>1. LockInit => LockInv
  BY DEF LockInit, LockInv, OneAcquirer, OwnersOwnTheFile, WriterCreatedIt,
         ReapOnlyStale, Owners, Acquiring
<1>2. LockTypeOK /\ LockInv /\ [LockNext]_lockVars => LockInv'
  BY LockInvStep
<1>3. LockTypeOK /\ LockInv /\ [LockNext]_lockVars =>
        [\A p \in Procs : at[p] = "held" /\ at'[p] = "held" /\ Ours(p) => Ours(p)']_lockVars
  BY HeldFileKept DEF Ours
<1> QED BY <1>1, <1>2, <1>3, LockTypeCorrect, PTL DEF LockSpec, LiveLockKept

-----------------------------------------------------------------------------
(* The build actor: what holds at every step of an attempt.                *)

Jobs == [client : Clients, token : Tokens]
Messages ==
  [kind : {"build"}, client : Clients, token : Tokens]
  \cup [kind : {"invalidate", "invalidate_execution"}, client : {None}, token : {None}]

Before == {"recv", "reset", "reset2", "drain"}
Looking == {"digest", "analyze"}
Building == {"engine", "loop", "wait", "join", "produced"}
Gate == {"abortcheck", "cancelcheck", "pendingcheck", "commit"}

(* An action's node that the evaluator would answer without running.       *)
Fresh(a) == memo[a] # None /\ a \notin stale

(* Files, outputs and what is kept about them hold contents. *)
StoreTypes ==
  /\ disk \in [Files -> Contents] /\ known \in [Files -> Contents]
  /\ outfile \in [Acts -> Manifests \cup {None}]
  /\ memo \in [Acts -> Manifests \cup {None}]
  /\ \A a \in Acts, s, c \in Contents :
       <<a, s, c>> \in DOMAIN cache => cache[<<a, s, c>>] \in Manifests

(* What the threads share. *)
SharedTypes ==
  /\ events \cup pending \subseteq Files \cup Acts /\ outputs \subseteq Acts
  /\ cancel \in BOOLEAN /\ aborted \in BOOLEAN
  /\ conn \in [Clients -> {"open", "cancelling", "closed"}]
  /\ reply = [c \in Clients |-> reply[c]] /\ \A c \in Clients : IsResult(reply[c])
  /\ inbox \in Seq(Messages)

(* The actor's own variables. *)
LocalTypes ==
  /\ pc \in Before \cup Looking \cup Building \cup Gate
  /\ pc = "recv" => job = Nobody
  /\ pc # "recv" => job \in Jobs
  /\ todo \subseteq Acts /\ flight \subseteq Acts
  /\ ran \in BOOLEAN /\ remat \in BOOLEAN
  /\ IsResult(result)

(* The warm state: builder and analysis come from the same analysis, and a *)
(* build runs on a builder of its own target.                              *)
WarmTypes ==
  /\ builder # None => /\ builder \in Builders
                       /\ DOMAIN builder.leaf = {LeafOf[a] : a \in ActsOf[builder.token]}
  /\ analysis # None => analysis \in Analyses
  /\ builder # None /\ analysis # None =>
       builder.token = analysis.token /\ builder.shape = analysis.shape
  /\ pc = "analyze" => digest \in Contents
  /\ pc \in Building => builder # None /\ builder.token = Token

(* Every action of the target is fresh, waiting or running. *)
WorkSplit ==
  /\ pc \in {"loop", "wait", "join"} =>
       todo \cup flight \subseteq {a \in ActsOf[Token] : ~Fresh(a)}
  /\ flight # {} => pc \in {"loop", "wait", "join"}
  /\ pc \in {"wait", "join"} => todo = {}
  /\ pc \in {"loop", "wait"} => \A a \in ActsOf[Token] : a \in todo \cup flight \/ Fresh(a)
  /\ pc = "produced" => \A a \in ActsOf[Token] : Fresh(a)

(* What an attempt can end with, and what passes the restart gate. *)
Outcomes ==
  /\ pc = "join" => result \in {Err("failed"), Err("cancelled")}
  /\ pc \in Gate => \/ result \in {Err("failed"), Err("cancelled")}
                    \/ /\ result = Ok(result.out)
                       /\ result.out \in [ActsOf[Token] -> Manifests]
  /\ pc \in {"pendingcheck", "commit"} /\ ~aborted => result.st # "cancelled"

ActorInv == StoreTypes /\ SharedTypes /\ LocalTypes /\ WarmTypes /\ WorkSplit /\ Outcomes

(* A fresh node's output is in the exec root or was removed; an up-to-date *)
(* answer that has passed the verification is there.                       *)
Present ==
  /\ \A a \in Acts : Fresh(a) => outfile[a] \in {None, memo[a]}
  /\ pc \in Looking /\ remat => builder = None
  /\ pc \in Building /\ remat /\ "output" \notin meddled =>
       \A a \in ActsOf[Token] : Fresh(a) => outfile[a] = memo[a]
  /\ pc \in Gate /\ result.st = "ok" /\ ~ran /\ "output" \notin meddled =>
       \A a \in ActsOf[Token] : outfile[a] = result.out[a]

(* v is no older than what the watcher has pushed of f and the actor has   *)
(* drained.                                                                *)
Seen(f, v) == known[f] <= v \/ f \in pending

(* Contents that only grow: what is kept lies between what was digested    *)
(* and what is on the disk.                                                *)
Watched == \A f \in Files : known[f] <= disk[f]
CacheCurrent ==
  \A a \in Acts, s, c \in Contents : <<a, s, c>> \in DOMAIN cache =>
    /\ cache[<<a, s, c>>].shape = s
    /\ c <= cache[<<a, s, c>>].src /\ cache[<<a, s, c>>].src <= disk[LeafOf[a]]
    /\ cache[<<a, s, c>>].src \notin Bad
BuilderCurrent ==
  builder # None =>
    /\ builder.shape \notin Bad /\ builder.shape <= disk[Shape]
    /\ \A f \in DOMAIN builder.leaf : builder.leaf[f] <= disk[f] /\ Seen(f, builder.leaf[f])
MemoCurrent ==
  builder # None => \A a \in ActsOf[builder.token] : Fresh(a) =>
    /\ memo[a].shape = builder.shape /\ memo[a].src \notin Bad
    /\ builder.leaf[LeafOf[a]] <= memo[a].src /\ memo[a].src <= disk[LeafOf[a]]
AnalysisCurrent ==
  /\ analysis # None => /\ analysis.digest <= analysis.shape
                        /\ analysis.shape <= disk[Shape] /\ analysis.shape \notin Bad
  /\ pc = "analyze" => digest <= disk[Shape] /\ Seen(Shape, digest)
  /\ pc \in Building => Seen(Shape, builder.shape)
  /\ pc \in Gate /\ result.st = "ok" => builder # None /\ Seen(Shape, builder.shape)
ResultCurrent ==
  /\ pc \in Gate /\ result.st = "ok" => \A a \in ActsOf[Token] :
       /\ Seen(Shape, result.out[a].shape) /\ result.out[a].shape <= disk[Shape]
       /\ result.out[a].shape \notin Bad
       /\ Seen(LeafOf[a], result.out[a].src) /\ result.out[a].src <= disk[LeafOf[a]]
       /\ result.out[a].src \notin Bad
  /\ pc \in {"join"} \cup Gate /\ result.st = "failed" /\ "source" \notin meddled =>
       Cold(Token) = Err("failed")

Current == Watched /\ CacheCurrent /\ BuilderCurrent /\ MemoCurrent /\ AnalysisCurrent
           /\ ResultCurrent

-----------------------------------------------------------------------------
(* Facts about the operators of the actor.                                 *)

LEMMA SentinelFacts ==
  /\ None \notin Clients /\ None \notin Tokens /\ None \notin Manifests
  /\ None \notin Analyses /\ None \notin Builders /\ Nobody \notin Jobs
  BY SentinelAssumption DEF Nobody, Jobs

LEMMA ActsFacts ==
  ASSUME NEW t \in Tokens, NEW a \in ActsOf[t]
  PROVE  a \in Acts /\ LeafOf[a] \in Sources /\ LeafOf[a] \in Files
  BY ActorAssumption DEF Files

(* A builder holds a digest of each of its leaves. *)
LEMMA BuilderFacts ==
  ASSUME WarmTypes, builder # None
  PROVE  /\ builder.token \in Tokens /\ builder.shape \in Contents
         /\ builder = [token |-> builder.token, shape |-> builder.shape, leaf |-> builder.leaf]
         /\ DOMAIN builder.leaf = {LeafOf[a] : a \in ActsOf[builder.token]}
         /\ DOMAIN builder.leaf \subseteq Sources
         /\ builder.leaf \in [DOMAIN builder.leaf -> Contents]
<1>1. builder \in Builders
  BY DEF WarmTypes
<1>2. PICK F \in SUBSET Sources : builder.leaf \in [F -> Contents]
  BY <1>1 DEF Builders
<1> QED BY <1>1, <1>2 DEF Builders, WarmTypes

(* While it builds, the actor's key of an action is one the cache is typed on. *)
LEMMA KeyFacts ==
  ASSUME ActorInv, pc \in Building, NEW a \in ActsOf[Token]
  PROVE  /\ a \in Acts /\ LeafOf[a] \in Files /\ Token \in Tokens
         /\ builder.shape \in Contents /\ builder.leaf[LeafOf[a]] \in Contents
         /\ LeafOf[a] \in DOMAIN builder.leaf
         /\ content_key(a) = <<a, builder.shape, builder.leaf[LeafOf[a]]>>
<1>1. builder # None /\ builder.token = Token /\ WarmTypes
  BY DEF ActorInv, WarmTypes
<1>2. Token \in Tokens /\ a \in Acts /\ LeafOf[a] \in Files
  BY <1>1, BuilderFacts, ActsFacts
<1> QED BY <1>1, <1>2, BuilderFacts DEF content_key

LEMMA RunOutputType ==
  ASSUME ActorInv, pc \in Building, NEW a \in ActsOf[Token]
  PROVE  RunOutput(a) \in Manifests
<1>1. CASE Cached(a)
  BY <1>1, KeyFacts DEF Cached, RunOutput, ActorInv, StoreTypes
<1>2. CASE ~Cached(a)
  BY <1>2, KeyFacts DEF RunOutput, Output, Manifests, ActorInv, StoreTypes
<1> QED BY <1>1, <1>2

(* What restore_or_run leaves in the cache: the key it ran under, beside   *)
(* what was there.                                                         *)
LEMMA CacheAfter ==
  ASSUME NEW a, restore_or_run(a)
  PROVE  /\ DOMAIN cache' = DOMAIN cache \cup {content_key(a)}
         /\ cache'[content_key(a)] = RunOutput(a)
         /\ \A k \in DOMAIN cache : k # content_key(a) => cache'[k] = cache[k]
  BY DEF restore_or_run

(* The actions that run, and the evaluator that runs them. *)
LEMMA FlightFacts ==
  ASSUME ActorInv, NEW a \in flight
  PROVE  /\ pc \in {"loop", "wait", "join"} /\ pc \in Building
         /\ a \in ActsOf[Token] /\ a \in Acts /\ ~Fresh(a)
<1>1. pc \in {"loop", "wait", "join"} /\ pc \in Building
  BY DEF ActorInv, WorkSplit, Building
<1> QED BY <1>1 DEF ActorInv, WorkSplit, LocalTypes

(* Who writes what: a step that is none of the actions listed leaves the   *)
(* variables alone.                                                        *)
Edits == \E f \in Files, v \in Contents : Edit(f, v)
Pushes == \E p \in Files \cup Acts : NotifyPush(p)
Done == \E a \in Acts : ActionDone(a)
Fails == \E a \in Acts : ActionFailed(a)
Conns == \E c \in Clients :
  Forward(c) \/ CancelBuild(c) \/ Answer(c) \/ Leave(c) \/ \E t \in Tokens : Request(c, t)
Cleans == \E k \in {"invalidate", "invalidate_execution"} : CleanSend(k)

LEMMA Writers ==
  ASSUME [Next]_vars
  PROVE  /\ UNCHANGED disk \/ Edits
         /\ UNCHANGED known \/ Pushes
         /\ UNCHANGED <<outfile, cache>> \/ CleanRemove \/ Join \/ Done
         /\ UNCHANGED memo \/ ensure_analysis \/ Done
         /\ UNCHANGED stale \/ apply_pending_changes \/ ensure_analysis \/ Done
         /\ UNCHANGED events \/ Edits \/ Pushes \/ Join \/ Done
         /\ UNCHANGED pending \/ Pushes \/ apply_pending_changes
         /\ UNCHANGED outputs \/ ensure_analysis
         /\ UNCHANGED cancel \/ ResetCancel \/ NotifyCancel \/ Conns
         /\ UNCHANGED aborted \/ ResetAborted \/ Conns
         /\ UNCHANGED conn \/ Conns
         /\ UNCHANGED reply \/ Conns \/ commit_snapshot
         /\ UNCHANGED inbox \/ Conns \/ Cleans \/ Recv
         /\ UNCHANGED <<pc, job>> \/ ActorStep
         /\ UNCHANGED <<todo, flight>> \/ BuildStart \/ LoopTop \/ Done \/ Fails \/ Join
         /\ UNCHANGED ran \/ BuildStart \/ Done \/ commit_snapshot
         /\ UNCHANGED remat \/ apply_pending_changes \/ VerifyOutputs \/ commit_snapshot
         /\ UNCHANGED result \/ ensure_analysis \/ LoopTop \/ Fails \/ VerifyOutputs
              \/ commit_snapshot
         /\ UNCHANGED builder \/ Recv \/ apply_pending_changes \/ ensure_analysis \/ VerifyOutputs
         /\ UNCHANGED analysis \/ Recv \/ apply_pending_changes \/ ensure_analysis \/ VerifyOutputs
         /\ UNCHANGED digest \/ compute_analysis_digest \/ ensure_analysis
         /\ UNCHANGED meddled \/ Edits \/ CleanRemove \/ ResetCancel \/ commit_snapshot
<1> USE DEF files, watch, flags, graph, local, clients, hist
<1>1. CASE Edits
  BY <1>1 DEF Edits, Edit
<1>2. CASE Pushes
  BY <1>2 DEF Pushes, NotifyPush
<1>3. CASE Done
  BY <1>3 DEF Done, ActionDone, restore_or_run, ActorStep
<1>4. CASE Fails
  BY <1>4 DEF Fails, ActionFailed, ActorStep
<1>5. CASE Conns
  BY <1>5 DEF Conns, Forward, CancelBuild, Answer, Leave, Request
<1>6. CASE Cleans
  BY <1>6 DEF Cleans, CleanSend
<1>7. CASE CleanRemove
  BY <1>7 DEF CleanRemove
<1>8. CASE NotifyCancel
  BY <1>8 DEF NotifyCancel
<1>9. CASE Recv
  BY <1>9 DEF Recv, ActorStep
<1>10. CASE ResetCancel \/ ResetAborted
  BY <1>10 DEF ResetCancel, ResetAborted, ActorStep
<1>11. CASE apply_pending_changes
  BY <1>11 DEF apply_pending_changes, ActorStep
<1>12. CASE compute_analysis_digest
  BY <1>12 DEF compute_analysis_digest, ActorStep
<1>13. CASE ensure_analysis
  BY <1>13 DEF ensure_analysis, ActorStep
<1>14. CASE BuildStart
  BY <1>14 DEF BuildStart, ActorStep
<1>15. CASE LoopTop
  BY <1>15 DEF LoopTop, ActorStep
<1>16. CASE Join
  BY <1>16 DEF Join, restore_or_run, ActorStep
<1>17. CASE VerifyOutputs
  BY <1>17 DEF VerifyOutputs, ActorStep
<1>18. CASE AbortCheck \/ CancelCheck \/ PendingCheck
  BY <1>18 DEF AbortCheck, CancelCheck, PendingCheck, ActorStep
<1>19. CASE commit_snapshot
  BY <1>19 DEF commit_snapshot, ActorStep
<1>20. CASE UNCHANGED vars
  BY <1>20 DEF vars
<1> QED
  BY <1>1, <1>2, <1>3, <1>4, <1>5, <1>6, <1>7, <1>8, <1>9, <1>10, <1>11, <1>12, <1>13, <1>14,
     <1>15, <1>16, <1>17, <1>18, <1>19, <1>20
     DEF Next, ActorStep, WatcherStep, ConnStep, Edits, Pushes, Done, Fails, Conns, Cleans

-----------------------------------------------------------------------------
(* Types and the phases of an attempt are preserved.                       *)

(* What one run of an action leaves in the stores. *)
LEMMA RestoreTypes ==
  ASSUME ActorInv, pc \in Building, NEW a \in ActsOf[Token], restore_or_run(a)
  PROVE  /\ outfile' \in [Acts -> Manifests \cup {None}]
         /\ outfile'[a] = RunOutput(a)
         /\ \A b \in Acts : b # a => outfile'[b] = outfile[b]
         /\ \A b \in Acts, s, c \in Contents :
              <<b, s, c>> \in DOMAIN cache' => cache'[<<b, s, c>>] \in Manifests
<1>1. RunOutput(a) \in Manifests
  BY RunOutputType
<1>2. a \in Acts
  BY KeyFacts
<1>3. outfile \in [Acts -> Manifests \cup {None}]
  BY DEF ActorInv, StoreTypes
<1>4. outfile' = [outfile EXCEPT ![a] = RunOutput(a)]
  BY DEF restore_or_run
<1>5. ASSUME NEW b \in Acts, NEW s \in Contents, NEW c \in Contents, <<b, s, c>> \in DOMAIN cache'
      PROVE  cache'[<<b, s, c>>] \in Manifests
  BY <1>1, <1>5, CacheAfter DEF ActorInv, StoreTypes
<1> QED BY <1>1, <1>2, <1>3, <1>4, <1>5

LEMMA StoreTypesStep ==
  ASSUME ActorInv, [Next]_vars
  PROVE  StoreTypes'
<1> USE DEF StoreTypes
<1>0. StoreTypes
  BY DEF ActorInv
<1>1. disk' \in [Files -> Contents]
  BY <1>0, Writers DEF Edits, Edit
<1>2. known' \in [Files -> Contents]
  BY <1>0, Writers DEF Pushes, NotifyPush
<1>3. memo' \in [Acts -> Manifests \cup {None}]
  <2>1. CASE ensure_analysis
    BY <1>0, <2>1 DEF ensure_analysis, configure_targets, graph
  <2>2. ASSUME NEW a \in Acts, ActionDone(a) PROVE memo' \in [Acts -> Manifests \cup {None}]
    <3>1. RunOutput(a) \in Manifests
      BY <2>2, FlightFacts, RunOutputType DEF ActionDone
    <3> QED BY <1>0, <2>2, <3>1 DEF ActionDone
  <2> QED BY <1>0, <2>1, <2>2, Writers DEF Done
<1>4. /\ outfile' \in [Acts -> Manifests \cup {None}]
      /\ \A a \in Acts, s, c \in Contents :
           <<a, s, c>> \in DOMAIN cache' => cache'[<<a, s, c>>] \in Manifests
  <2>1. CASE CleanRemove
    <3>1. outfile' = [a \in Acts |-> IF a \in InTree THEN outfile[a] ELSE None]
      BY <2>1 DEF CleanRemove
    <3>2. cache' = << >> \/ cache' = cache
      BY <2>1 DEF CleanRemove
    <3>3. \A k : k \notin DOMAIN << >>
      OBVIOUS
    <3> QED BY <1>0, <3>1, <3>2, <3>3
  <2>2. CASE \E a \in flight : restore_or_run(a)
    BY <2>2, FlightFacts, RestoreTypes
  <2>3. CASE Join
    BY <1>0, <2>2, <2>3 DEF Join, files
  <2>4. CASE Done
    BY <2>2, <2>4 DEF Done, ActionDone
  <2> QED BY <1>0, <2>1, <2>3, <2>4, Writers
<1> QED BY <1>1, <1>2, <1>3, <1>4

LEMMA SharedTypesStep ==
  ASSUME ActorInv, [Next]_vars
  PROVE  SharedTypes'
<1> USE DEF SharedTypes
<1>0. SharedTypes
  BY DEF ActorInv
<1>1. events' \subseteq Files \cup Acts
  <2>1. ASSUME NEW a \in flight, restore_or_run(a) PROVE events' \subseteq Files \cup Acts
    BY <1>0, <2>1, FlightFacts DEF restore_or_run
  <2>2. CASE Join
    BY <1>0, <2>1, <2>2 DEF Join
  <2>3. CASE Done
    BY <2>1, <2>3 DEF Done, ActionDone
  <2> QED BY <1>0, <2>2, <2>3, Writers DEF Edits, Edit, Pushes, NotifyPush
<1>2. pending' \subseteq Files \cup Acts
  BY <1>0, Writers DEF Pushes, NotifyPush, apply_pending_changes
<1>3. outputs' \subseteq Acts
  <2>1. CASE ensure_analysis
    <3>1. Token \in Tokens
      BY <2>1 DEF ActorInv, LocalTypes, ensure_analysis, Jobs, Token
    <3> QED BY <1>0, <2>1, <3>1, ActorAssumption DEF ensure_analysis, configure_targets, graph
  <2> QED BY <1>0, <2>1, Writers
<1>4. cancel' \in BOOLEAN /\ aborted' \in BOOLEAN
  BY <1>0, Writers
     DEF ResetCancel, ResetAborted, NotifyCancel, Conns, Forward, CancelBuild, Answer, Leave,
         Request, flags, clients
<1>5. conn' \in [Clients -> {"open", "cancelling", "closed"}]
  BY <1>0, Writers DEF Conns, Forward, CancelBuild, Answer, Leave, Request
<1>6. reply' = [c \in Clients |-> reply'[c]] /\ \A c \in Clients : IsResult(reply'[c])
  <2>1. CASE commit_snapshot
    <3>1. IsResult(result)
      BY DEF ActorInv, LocalTypes
    <3>2. PICK r : reply' = [reply EXCEPT ![job.client] = r]
                   /\ (IsResult(r) \/ r = reply[job.client])
      BY <2>1, <3>1 DEF commit_snapshot
    <3>3. job.client \in Clients
      BY <2>1 DEF commit_snapshot, ActorInv, LocalTypes, Jobs
    <3> QED BY <1>0, <3>2, <3>3
  <2>2. ASSUME NEW c \in Clients, Answer(c)
        PROVE  reply' = [d \in Clients |-> reply'[d]] /\ \A d \in Clients : IsResult(reply'[d])
    <3>1. IsResult(Err("none"))
      BY DEF IsResult, Err
    <3>2. reply' = [reply EXCEPT ![c] = Err("none")]
      BY <2>2 DEF Answer
    <3> QED BY <1>0, <3>1, <3>2
  <2> QED BY <1>0, <2>1, <2>2, Writers DEF Conns, Forward, CancelBuild, Leave, Request
<1>7. inbox' \in Seq(Messages)
  <2>1. ASSUME NEW c \in Clients, NEW t \in Tokens, Request(c, t) PROVE inbox' \in Seq(Messages)
    <3>1. [kind |-> "build", client |-> c, token |-> t] \in Messages
      BY DEF Messages
    <3> QED BY <1>0, <2>1, <3>1 DEF Request
  <2>2. CASE Cleans
    <3>1. \A k \in {"invalidate", "invalidate_execution"} :
            [kind |-> k, client |-> None, token |-> None] \in Messages
      BY DEF Messages
    <3> QED BY <1>0, <2>2, <3>1 DEF Cleans, CleanSend
  <2>3. CASE Recv
    BY <1>0, <2>3 DEF Recv
  <2> QED BY <1>0, <2>1, <2>2, <2>3, Writers DEF Conns, Forward, CancelBuild, Answer, Leave
<1> QED BY <1>1, <1>2, <1>3, <1>4, <1>5, <1>6, <1>7

LEMMA FreshTyped ==
  ASSUME ActorInv, pc = "produced", NEW a \in ActsOf[Token]
  PROVE  Fresh(a) /\ a \in Acts /\ memo[a] \in Manifests
<1>1. Fresh(a) /\ pc \in Building
  BY DEF ActorInv, WorkSplit, Building
<1>2. a \in Acts
  BY <1>1, KeyFacts
<1> QED BY <1>1, <1>2 DEF ActorInv, StoreTypes, Fresh

(* The lines of the actor's program: what a step of another thread leaves. *)
LEMMA LocalTypesStep ==
  ASSUME ActorInv, [Next]_vars
  PROVE  LocalTypes'
<1> USE DEF LocalTypes
<1>0. LocalTypes
  BY DEF ActorInv
<1>1. /\ pc' \in Before \cup Looking \cup Building \cup Gate
      /\ pc' = "recv" => job' = Nobody
      /\ pc' # "recv" => job' \in Jobs
  <2> USE DEF Goto, Before, Looking, Building, Gate
  <2>1. CASE Recv
    <3>1. CASE Head(inbox).kind = "build" /\ job' = [client |-> Head(inbox).client, token |-> Head(inbox).token]
               /\ pc' = "reset"
      <4>1. Head(inbox) \in Messages
        BY <2>1 DEF Recv, ActorInv, SharedTypes
      <4>2. job' \in Jobs
        BY <3>1, <4>1 DEF Messages, Jobs
      <4> QED BY <3>1, <4>2
    <3>2. CASE UNCHANGED <<pc, job>>
      BY <1>0, <3>2
    <3> QED BY <2>1, <3>1, <3>2 DEF Recv
  <2>2. CASE commit_snapshot
    BY <2>2 DEF commit_snapshot
  <2>3. CASE ensure_analysis
    BY <1>0, <2>3 DEF ensure_analysis, configure_targets
  <2>4. CASE ActorStep /\ ~Recv /\ ~commit_snapshot /\ ~ensure_analysis
    BY <1>0, <2>4
       DEF ActorStep, ResetCancel, ResetAborted, apply_pending_changes, compute_analysis_digest,
           BuildStart, LoopTop, Join, VerifyOutputs, AbortCheck, CancelCheck, PendingCheck,
           ActionDone, ActionFailed
  <2> QED BY <1>0, <2>1, <2>2, <2>3, <2>4, Writers
<1>2. todo' \subseteq Acts /\ flight' \subseteq Acts
  <2>1. CASE BuildStart
    <3>1. Token \in Tokens
      BY <1>0, <2>1 DEF BuildStart, Jobs, Token
    <3> QED BY <1>0, <2>1, <3>1, ActorAssumption DEF BuildStart
  <2> QED BY <1>0, <2>1, Writers DEF LoopTop, Done, Fails, ActionDone, ActionFailed, Join
<1>3. ran' \in BOOLEAN
  BY <1>0, Writers DEF BuildStart, Done, ActionDone, commit_snapshot
<1>4. remat' \in BOOLEAN
  BY <1>0, Writers DEF apply_pending_changes, VerifyOutputs, commit_snapshot
<1>5. IsResult(result')
  <2>1. IsResult(Err("none")) /\ IsResult(Err("failed")) /\ IsResult(Err("cancelled"))
    BY DEF IsResult, Err
  <2>2. CASE VerifyOutputs /\ result' = Ok([a \in ActsOf[Token] |-> memo[a]])
    <3>1. \A a \in ActsOf[Token] : memo[a] \in Manifests
      BY <2>2, FreshTyped DEF VerifyOutputs
    <3> QED BY <2>2, <3>1 DEF IsResult, Ok, Manifests
  <2> QED BY <1>0, <2>1, <2>2, Writers
          DEF ensure_analysis, configure_targets, LoopTop, Fails, ActionFailed, VerifyOutputs,
              commit_snapshot
<1> QED BY <1>1, <1>2, <1>3, <1>4, <1>5

(* sync_file re-digests the pushed leaves and marks what reads a changed one. *)
LEMMA SyncFacts ==
  ASSUME ActorInv, apply_pending_changes, builder # None
  PROVE  /\ builder' \in Builders
         /\ builder'.token = builder.token /\ builder'.shape = builder.shape
         /\ DOMAIN builder'.leaf = DOMAIN builder.leaf
         /\ \A f \in DOMAIN builder.leaf :
              builder'.leaf[f] = IF f \in pending THEN disk[f] ELSE builder.leaf[f]
         /\ stale' = stale \cup {a \in Acts : /\ LeafOf[a] \in pending \cap DOMAIN builder.leaf
                                             /\ disk[LeafOf[a]] # builder.leaf[LeafOf[a]]}
<1> DEFINE D == DOMAIN builder.leaf
           L == [f \in D |-> IF f \in pending \cap D THEN disk[f] ELSE builder.leaf[f]]
<1>1. /\ builder.token \in Tokens /\ builder.shape \in Contents
      /\ builder = [token |-> builder.token, shape |-> builder.shape, leaf |-> builder.leaf]
      /\ D \subseteq Sources /\ builder.leaf \in [D -> Contents]
  BY BuilderFacts DEF ActorInv
<1>2. disk \in [Files -> Contents] /\ D \subseteq Files
  BY <1>1 DEF ActorInv, StoreTypes, Files
<1>3. L \in [D -> Contents]
  BY <1>1, <1>2
<1>4. /\ builder' = [builder EXCEPT !.leaf = L]
      /\ stale' = stale \cup {a \in Acts : /\ LeafOf[a] \in pending \cap D
                                          /\ disk[LeafOf[a]] # builder.leaf[LeafOf[a]]}
  BY DEF apply_pending_changes, sync_file, Leaves
<1>5. builder' = [token |-> builder.token, shape |-> builder.shape, leaf |-> L]
  <2> HIDE DEF L, D
  <2> QED BY <1>1, <1>4
<1>6. builder' \in Builders
  <2> HIDE DEF L
  <2> QED BY <1>1, <1>3, <1>5 DEF Builders
<1> QED BY <1>3, <1>4, <1>5, <1>6

(* configure_targets digests every leaf and forgets what was built. *)
LEMMA ConfigureFacts ==
  ASSUME ActorInv, Token \in Tokens, NEW s \in Contents, configure_targets(s)
  PROVE  /\ builder' \in Builders /\ builder' # None
         /\ builder'.token = Token /\ builder'.shape = s
         /\ DOMAIN builder'.leaf = {LeafOf[a] : a \in ActsOf[Token]}
         /\ \A f \in DOMAIN builder'.leaf : builder'.leaf[f] = disk[f] /\ f \in Files
         /\ memo' = [a \in Acts |-> None] /\ stale' = {}
<1> DEFINE D == {LeafOf[a] : a \in ActsOf[Token]}
           L == [f \in D |-> disk[f]]
<1>1. D \in SUBSET Sources
  BY ActsFacts
<1>2. L \in [D -> Contents] /\ \A f \in D : f \in Files
  BY <1>1 DEF ActorInv, StoreTypes, Files
<1>3. builder' = [token |-> Token, shape |-> s, leaf |-> L]
  BY DEF configure_targets
<1>4. builder' \in Builders
  <2> HIDE DEF L, D
  <2> QED BY <1>1, <1>2, <1>3 DEF Builders
<1>5. builder' # None
  BY <1>4, SentinelFacts
<1> QED BY <1>2, <1>3, <1>4, <1>5 DEF configure_targets

(* ensure_analysis ends in an error, or in a builder and an analysis that  *)
(* agree.                                                                  *)
LEMMA AnalysisCases ==
  ASSUME ActorInv, ensure_analysis
  PROVE  \/ /\ disk[Shape] \in Bad /\ result' = Err("failed") /\ pc' = "abortcheck"
            /\ UNCHANGED <<analysis, builder, memo, stale, outputs>>
         \/ \E s \in Contents :
              /\ configure_targets(s) /\ pc' = "engine" /\ result' = result
              /\ analysis' \in Analyses /\ analysis'.token = Token /\ analysis'.shape = s
              /\ analysis'.digest = digest
              /\ \/ analysis # None /\ s = analysis.shape /\ analysis.digest = digest
                 \/ s = disk[Shape] /\ s \notin Bad
<1>1. /\ disk[Shape] \in Contents /\ digest \in Contents /\ Token \in Tokens
      /\ analysis # None => analysis \in Analyses
  BY DEF ensure_analysis, ActorInv, StoreTypes, WarmTypes, LocalTypes, Jobs, Token, Files
<1>2. CASE Hit(digest) /\ configure_targets(analysis.shape) /\ UNCHANGED <<analysis, result>>
  <2>1. /\ analysis # None /\ analysis \in Analyses /\ analysis.shape \in Contents
        /\ analysis.digest = digest /\ analysis.token = Token
    BY <1>1, <1>2 DEF Hit, Analyses
  <2>2. pc' = "engine"
    BY <1>2 DEF configure_targets, Goto
  <2> QED BY <1>2, <2>1, <2>2
<1>3. CASE /\ disk[Shape] \notin Bad /\ configure_targets(disk[Shape]) /\ UNCHANGED result
           /\ analysis' = [digest |-> digest, token |-> Token, shape |-> disk[Shape]]
  <2>1. analysis' \in Analyses
    BY <1>1, <1>3 DEF Analyses
  <2>2. pc' = "engine"
    BY <1>3 DEF configure_targets, Goto
  <2> QED BY <1>1, <1>3, <2>1, <2>2
<1>4. CASE disk[Shape] \in Bad /\ result' = Err("failed") /\ Goto("abortcheck") /\ UNCHANGED graph
  BY <1>4 DEF Goto, graph
<1> QED BY <1>2, <1>3, <1>4 DEF ensure_analysis

LEMMA WarmTypesStep ==
  ASSUME ActorInv, [Next]_vars
  PROVE  WarmTypes'
<1>0. WarmTypes
  BY DEF ActorInv
<1>1. CASE apply_pending_changes
  <2>1. /\ pc' = "digest" /\ job' = job /\ (analysis' = analysis \/ analysis' = None)
        /\ builder = None => builder' = None
    BY <1>1 DEF apply_pending_changes, sync_file, Goto
  <2> QED BY <1>0, <1>1, <2>1, SyncFacts DEF WarmTypes, Building
<1>2. CASE ensure_analysis
  <2>1. Token \in Tokens /\ job' = job
    BY <1>2 DEF ActorInv, LocalTypes, ensure_analysis, Jobs, Token
  <2>2. ASSUME NEW s \in Contents, configure_targets(s), pc' = "engine",
               analysis' \in Analyses, analysis'.token = Token, analysis'.shape = s
        PROVE  WarmTypes'
    BY <2>1, <2>2, ConfigureFacts DEF WarmTypes, Token
  <2>3. CASE pc' = "abortcheck" /\ UNCHANGED <<analysis, builder>>
    BY <1>0, <2>3 DEF WarmTypes, Building
  <2> QED BY <1>2, <2>2, <2>3, AnalysisCases
<1>3. CASE Recv
  <2>1. pc' \in {"recv", "reset"}
    BY <1>3 DEF Recv, Goto
  <2> QED BY <1>0, <1>3, <2>1 DEF WarmTypes, Building, Recv
<1>4. CASE VerifyOutputs
  <2>1. pc' \in {"abortcheck", "digest"} /\ builder' \in {None, builder} /\ analysis' \in {None, analysis}
    BY <1>4 DEF VerifyOutputs, Goto
  <2> QED BY <1>0, <2>1 DEF WarmTypes, Building
<1>5. CASE compute_analysis_digest
  <2>1. /\ UNCHANGED <<builder, analysis, job>> /\ digest' = disk[Shape]
        /\ pc' \in {"engine", "analyze"}
        /\ pc' = "engine" => analysis # None /\ analysis.token = Token /\ builder # None
    BY <1>5 DEF compute_analysis_digest, graph, Goto, Hit
  <2>2. digest' \in Contents
    BY <2>1 DEF ActorInv, StoreTypes, Files
  <2> QED BY <1>0, <2>1, <2>2 DEF WarmTypes, Building, Token
<1>6. CASE UNCHANGED <<builder, analysis, digest>> /\ pc' # "analyze"
           /\ (pc' \in Building => pc \in Building /\ job' = job)
  BY <1>0, <1>6 DEF WarmTypes, Token
<1>7. CASE UNCHANGED <<builder, analysis, digest, pc, job>>
  BY <1>0, <1>7 DEF WarmTypes, Token
<1>8. CASE ActorStep /\ UNCHANGED <<builder, analysis, digest>>
  BY <1>3, <1>4, <1>5, <1>6, <1>8, <1>1, <1>2
     DEF ActorStep, ResetCancel, ResetAborted, BuildStart, LoopTop, Join, AbortCheck, CancelCheck,
         PendingCheck, commit_snapshot, ActionDone, ActionFailed, Goto, Building
<1> QED BY <1>1, <1>2, <1>3, <1>4, <1>5, <1>7, <1>8, Writers

LEMMA WorkSplitStep ==
  ASSUME ActorInv, [Next]_vars
  PROVE  WorkSplit'
<1>0. WorkSplit
  BY DEF ActorInv
<1>1. CASE BuildStart
  <2>1. /\ UNCHANGED <<memo, stale, job, flight>> /\ pc = "engine" /\ pc' = "loop"
        /\ todo' = {a \in ActsOf[Token] : ~Fresh(a)}
    BY <1>1 DEF BuildStart, Goto, graph, Fresh
  <2>2. flight' = {}
    BY <1>0, <2>1 DEF WorkSplit
  <2> QED BY <2>1, <2>2 DEF WorkSplit, Fresh, Token
<1>2. CASE LoopTop
  <2>1. /\ UNCHANGED <<memo, stale, job>> /\ pc = "loop"
        /\ \/ pc' = "join" /\ flight' \subseteq flight /\ todo' = {}
           \/ pc' = "wait" /\ flight' = flight \cup todo /\ todo' = {}
           \/ pc' = "produced" /\ todo = {} /\ flight = {} /\ todo' = {} /\ flight' = {}
    BY <1>2 DEF LoopTop, Goto, graph
  <2> QED BY <1>0, <2>1 DEF WorkSplit, Fresh, Token
<1>3. ASSUME NEW a \in Acts, ActionDone(a) PROVE WorkSplit'
  <2>1. /\ job' = job /\ todo' = todo /\ pc = "wait" /\ pc' = "loop" /\ a \in flight
        /\ flight' = flight \ {a} /\ stale' = stale \ {a}
        /\ memo' = [memo EXCEPT ![a] = RunOutput(a)]
    BY <1>3 DEF ActionDone, Goto
  <2>2. RunOutput(a) # None
    BY <2>1, FlightFacts, RunOutputType, SentinelFacts
  <2>3. memo'[a] # None /\ \A b \in Acts : b # a => memo'[b] = memo[b]
    BY <2>1, <2>2 DEF ActorInv, StoreTypes
  <2>4. Token' = Token /\ \A b \in ActsOf[Token] : b \in Acts
    BY <2>1, KeyFacts DEF Token, Building
  <2>5. todo = {} /\ todo' = {}
    BY <1>0, <2>1 DEF WorkSplit
  <2> QED BY <1>0, <2>1, <2>3, <2>4, <2>5 DEF WorkSplit, Fresh
<1>4. ASSUME NEW a \in Acts, ActionFailed(a) PROVE WorkSplit'
  <2>1. /\ UNCHANGED <<memo, stale, job, todo>> /\ pc = "wait" /\ pc' = "join"
        /\ flight' \subseteq flight
    BY <1>4 DEF ActionFailed, Goto, graph
  <2> QED BY <1>0, <2>1 DEF WorkSplit, Fresh, Token
<1>5. CASE Join
  <2>1. /\ UNCHANGED <<memo, stale, job, todo>> /\ pc = "join" /\ flight' \subseteq flight
        /\ pc' = "join" \/ (pc' = "abortcheck" /\ flight' = {})
    BY <1>5 DEF Join, Goto, graph
  <2> QED BY <1>0, <2>1 DEF WorkSplit, Fresh, Token
<1>6. CASE /\ UNCHANGED <<todo, flight>> /\ pc \notin {"loop", "wait", "join"}
           /\ pc' \notin {"loop", "wait", "join", "produced"}
  BY <1>0, <1>6 DEF WorkSplit
<1>7. CASE UNCHANGED <<memo, stale, job, todo, flight, pc>>
  BY <1>0, <1>7 DEF WorkSplit, Fresh, Token
<1>8. CASE ensure_analysis
  <2>1. pc' \in {"engine", "abortcheck"} /\ pc = "analyze" /\ UNCHANGED <<todo, flight>>
    BY <1>8 DEF ensure_analysis, configure_targets, Goto
  <2> QED BY <1>6, <2>1
<1>9. CASE ActorStep
  BY <1>1, <1>2, <1>3, <1>4, <1>5, <1>6, <1>8, <1>9
     DEF ActorStep, Recv, ResetCancel, ResetAborted, apply_pending_changes,
         compute_analysis_digest, VerifyOutputs, AbortCheck, CancelCheck, PendingCheck,
         commit_snapshot, Goto, local
<1>10. Done \/ Fails => ActorStep
  BY DEF Done, Fails, ActorStep
<1> QED BY <1>7, <1>9, <1>10, Writers DEF ActorStep

LEMMA OutcomesStep ==
  ASSUME ActorInv, [Next]_vars
  PROVE  Outcomes'
<1>0. Outcomes
  BY DEF ActorInv
<1> USE DEF Gate
<1>1. CASE pc' \notin {"join"} \cup Gate
  BY <1>1 DEF Outcomes
<1>2. CASE UNCHANGED <<pc, job, result>> /\ (aborted' = aborted \/ aborted' = TRUE)
  BY <1>0, <1>2 DEF Outcomes, Token, SharedTypes, ActorInv
<1>3. CASE pc' \in {"join", "abortcheck"} /\ job' = job /\ result' \in {Err("failed"), Err("cancelled")}
  BY <1>3 DEF Outcomes
<1>4. CASE VerifyOutputs
  <2>1. CASE pc' = "abortcheck" /\ result' = Ok([a \in ActsOf[Token] |-> memo[a]])
    <3>1. [a \in ActsOf[Token] |-> memo[a]] \in [ActsOf[Token] -> Manifests]
      BY <1>4, FreshTyped DEF VerifyOutputs
    <3>2. result'.out = [a \in ActsOf[Token] |-> memo[a]] /\ result' = Ok(result'.out)
      BY <2>1 DEF Ok
    <3>3. Token' = Token
      BY <1>4 DEF VerifyOutputs, Token
    <3> QED BY <2>1, <3>1, <3>2, <3>3 DEF Outcomes
  <2> QED BY <1>1, <1>3, <1>4, <2>1 DEF VerifyOutputs, Goto
<1>5. CASE AbortCheck \/ CancelCheck \/ PendingCheck
  <2>1. /\ UNCHANGED <<job, result, aborted>> /\ pc \in Gate
        /\ \/ pc = "abortcheck" /\ (pc' = "cancelcheck" \/ (pc' = "commit" /\ aborted))
           \/ pc = "cancelcheck" /\ (pc' = "reset" \/ (pc' = "pendingcheck" /\ result.st # "cancelled"))
           \/ pc = "pendingcheck" /\ pc' \in {"reset", "commit"}
    BY <1>5 DEF AbortCheck, CancelCheck, PendingCheck, Goto, local, flags
  <2> QED BY <1>0, <2>1 DEF Outcomes, Token
<1>6. CASE Join
  <2>1. UNCHANGED <<job, result, aborted>> /\ pc = "join" /\ pc' \in {"join", "abortcheck"}
    BY <1>6 DEF Join, Goto, flags
  <2> QED BY <1>0, <2>1 DEF Outcomes
<1>7. CASE ensure_analysis
  <2>1. job' = job /\ pc' \in {"engine", "abortcheck"}
        /\ (pc' = "abortcheck" => result' = Err("failed"))
    BY <1>7 DEF ensure_analysis, configure_targets, Goto
  <2> QED BY <1>1, <1>3, <2>1
<1>8. CASE ActorStep
  BY <1>1, <1>2, <1>3, <1>4, <1>5, <1>6, <1>7, <1>8
     DEF ActorStep, Recv, ResetCancel, ResetAborted, apply_pending_changes,
         compute_analysis_digest, BuildStart, LoopTop, ActionDone, ActionFailed,
         commit_snapshot, Goto, local, flags
<1>9. Done \/ Fails => ActorStep
  BY DEF Done, Fails, ActorStep
<1>10. CASE Conns /\ UNCHANGED <<pc, job, result>>
  <2>1. aborted' = aborted \/ aborted' = TRUE
    BY <1>10 DEF Conns, Forward, CancelBuild, Answer, Leave, Request, flags
  <2> QED BY <1>2, <1>10, <2>1
<1> QED BY <1>2, <1>8, <1>9, <1>10, Writers DEF ActorStep

LEMMA ActorInvStep ==
  ASSUME ActorInv, [Next]_vars
  PROVE  ActorInv'
  BY StoreTypesStep, SharedTypesStep, LocalTypesStep, WarmTypesStep, WorkSplitStep, OutcomesStep
     DEF ActorInv

LEMMA ActorInvInit ==
  ASSUME Init
  PROVE  ActorInv
<1>1. StoreTypes
  <2>1. \A k : k \notin DOMAIN << >>
    OBVIOUS
  <2> QED BY <2>1, ActorAssumption DEF Init, StoreTypes, Files
<1>2. SharedTypes
  <2>1. reply = [c \in Clients |-> Err("none")] /\ IsResult(Err("none"))
    BY DEF Init, IsResult, Err
  <2>2. reply = [c \in Clients |-> reply[c]] /\ \A c \in Clients : IsResult(reply[c])
    BY <2>1
  <2>3. inbox \in Seq(Messages)
    BY DEF Init
  <2> QED BY <2>2, <2>3 DEF Init, SharedTypes
<1>3. LocalTypes
  BY DEF Init, LocalTypes, IsResult, Err, Before
<1>4. WarmTypes /\ WorkSplit /\ Outcomes
  BY DEF Init, WarmTypes, WorkSplit, Outcomes, Building, Gate
<1> QED BY <1>1, <1>2, <1>3, <1>4 DEF ActorInv

LEMMA ActorInvType ==
  ASSUME ActorInv
  PROVE  TypeOK
<1>1. \A a \in Acts : outfile[a] # None => outfile[a] \in [shape : Contents, src : Contents]
  BY DEF ActorInv, StoreTypes, Manifests
<1>2. pc = "recv" <=> job = Nobody
  BY SentinelFacts DEF ActorInv, LocalTypes
<1> QED BY <1>1, <1>2 DEF ActorInv, StoreTypes, SharedTypes, LocalTypes, WorkSplit, TypeOK

(* Every variable of the daemon keeps its type, no action runs outside the *)
(* evaluator, and the actor builds for somebody exactly while it builds.   *)
THEOREM ActorTypeCorrect == Spec => []TypeOK
<1>1. Init => ActorInv
  BY ActorInvInit
<1>2. ActorInv /\ [Next]_vars => ActorInv'
  BY ActorInvStep
<1>3. ActorInv => TypeOK
  BY ActorInvType
<1> QED BY <1>1, <1>2, <1>3, PTL DEF Spec

-----------------------------------------------------------------------------
(* An up-to-date answer is in the exec root.                               *)

(* One run of an action under way: its output is its own, whatever became  *)
(* of the others.                                                          *)
LEMMA RestorePresent ==
  ASSUME ActorInv, Present, NEW a \in flight, restore_or_run(a),
         UNCHANGED <<builder, job, meddled, remat>>,
         \/ UNCHANGED <<memo, stale>>
         \/ memo' = [memo EXCEPT ![a] = RunOutput(a)] /\ stale' = stale \ {a}
  PROVE  /\ \A b \in Acts : Fresh(b)' => outfile'[b] \in {None, memo'[b]}
         /\ remat /\ "output" \notin meddled =>
              \A b \in ActsOf[Token] : Fresh(b)' => outfile'[b] = memo'[b]
<1>1. pc \in Building /\ a \in ActsOf[Token] /\ a \in Acts /\ ~Fresh(a)
  BY FlightFacts
<1>2. outfile'[a] = RunOutput(a) /\ \A b \in Acts : b # a => outfile'[b] = outfile[b]
  BY <1>1, RestoreTypes
<1>3. \A b \in ActsOf[Token] : b \in Acts
  BY <1>1, KeyFacts
<1>4. memo \in [Acts -> Manifests \cup {None}]
  BY DEF ActorInv, StoreTypes
<1>5. \A b \in Acts : b # a => (Fresh(b)' <=> Fresh(b)) /\ memo'[b] = memo[b]
  BY <1>4 DEF Fresh
<1>6. Fresh(a)' => outfile'[a] = memo'[a]
  BY <1>1, <1>2, <1>4 DEF Fresh
<1> QED BY <1>1, <1>2, <1>3, <1>5, <1>6 DEF Present

LEMMA PresentStep ==
  ASSUME ActorInv, Present, [Next]_vars
  PROVE  Present'
<1>1. CASE CleanRemove
  <2>1. /\ UNCHANGED <<memo, stale, builder, pc, job, result, ran, remat>>
        /\ \A a \in Acts : outfile'[a] \in {None, outfile[a]}
        /\ pc # "recv" => "output" \in meddled'
        /\ pc = "recv" => meddled' = meddled
    BY <1>1 DEF CleanRemove, Meddle, graph, local
  <2> QED BY <2>1 DEF Present, Fresh, Token, Building, Gate
<1>2. CASE Join
  <2>1. CASE \E a \in flight : restore_or_run(a) /\ pc' = pc
    <3>1. pc' = "join" /\ UNCHANGED <<builder, job, meddled, remat, memo, stale, ran>>
      BY <1>2, <2>1 DEF Join, graph, hist
    <3> QED BY <2>1, <3>1, RestorePresent DEF Present, Token, Building, Gate, Looking
  <2>2. CASE UNCHANGED files /\ pc' \in {"join", "abortcheck"}
    <3>1. UNCHANGED <<builder, job, meddled, remat, memo, stale, ran, outfile, result>>
          /\ pc = "join" /\ result.st # "ok"
      BY <1>2, <2>2 DEF Join, graph, hist, files, ActorInv, Outcomes, Err
    <3> QED BY <2>2, <3>1 DEF Present, Fresh, Token, Building, Gate, Looking
  <2> QED BY <1>2, <2>1, <2>2 DEF Join, Goto
<1>3. ASSUME NEW a \in Acts, ActionDone(a) PROVE Present'
  <2>1. /\ pc' = "loop" /\ UNCHANGED <<builder, job, meddled, remat>> /\ a \in flight
        /\ restore_or_run(a)
        /\ memo' = [memo EXCEPT ![a] = RunOutput(a)] /\ stale' = stale \ {a}
    BY <1>3 DEF ActionDone, Goto, hist
  <2> QED BY <2>1, RestorePresent DEF Present, Token, Building, Gate, Looking
<1>4. CASE ensure_analysis
  <2>1. CASE pc' = "abortcheck" /\ result' = Err("failed") /\ UNCHANGED <<memo, stale>>
    <3>1. UNCHANGED outfile /\ result'.st # "ok"
      BY <1>4, <2>1 DEF ensure_analysis, files, Err
    <3> QED BY <2>1, <3>1 DEF Present, Fresh, Building, Gate, Looking
  <2>2. CASE pc' = "engine" /\ memo' = [a \in Acts |-> None]
    <3>1. Token \in Tokens /\ job' = job
      BY <1>4 DEF ActorInv, LocalTypes, ensure_analysis, Jobs, Token
    <3>2. \A a \in Acts : ~Fresh(a)'
      BY <2>2 DEF Fresh
    <3>3. \A a \in ActsOf[Token'] : a \in Acts
      BY <3>1, ActsFacts DEF Token
    <3> QED BY <2>2, <3>2, <3>3 DEF Present, Building, Gate, Looking
  <2> QED BY <1>4, <2>1, <2>2, AnalysisCases DEF configure_targets
<1>5. CASE apply_pending_changes
  <2>1. pc' = "digest" /\ remat' = FALSE /\ UNCHANGED <<memo, outfile>> /\ stale \subseteq stale'
    BY <1>5 DEF apply_pending_changes, sync_file, Goto, files
  <2> QED BY <2>1 DEF Present, Fresh, Building, Gate
<1>6. CASE VerifyOutputs
  <2>1. UNCHANGED <<memo, stale, outfile, job, meddled, ran>> /\ pc = "produced"
    BY <1>6 DEF VerifyOutputs, files, hist
  <2>2. CASE pc' = "abortcheck" /\ result' = Err("cancelled")
    BY <2>1, <2>2 DEF Present, Fresh, Building, Gate, Looking, Err
  <2>3. CASE pc' = "digest" /\ builder' = None
    BY <2>1, <2>3 DEF Present, Fresh, Building, Gate
  <2>4. CASE /\ pc' = "abortcheck" /\ result' = Ok([a \in ActsOf[Token] |-> memo[a]])
             /\ ran \/ remat \/ ~Missing
    <3>1. \A a \in ActsOf[Token] : Fresh(a) /\ a \in Acts /\ result'.out[a] = memo[a]
      BY <2>1, <2>4, FreshTyped DEF Ok
    <3>2. ASSUME ~ran, "output" \notin meddled, NEW a \in ActsOf[Token]
          PROVE  outfile[a] = memo[a]
      BY <2>1, <2>4, <3>1, <3>2 DEF Present, Missing, Building
    <3> QED BY <2>1, <2>4, <3>1, <3>2 DEF Present, Fresh, Building, Gate, Looking, Token
  <2> QED BY <1>6, <2>2, <2>3, <2>4 DEF VerifyOutputs, Goto
<1>7. CASE UNCHANGED <<memo, stale, outfile>> /\ pc' \in Before
  BY <1>7 DEF Present, Fresh, Before, Building, Gate, Looking
<1>8. CASE compute_analysis_digest
  <2>1. UNCHANGED <<memo, stale, outfile, job, meddled, remat, builder>> /\ pc = "digest"
        /\ (pc' = "analyze" \/ (pc' = "engine" /\ builder # None))
    BY <1>8 DEF compute_analysis_digest, files, hist, graph, Goto
  <2> QED BY <2>1 DEF Present, Fresh, Building, Gate, Looking
<1>9. CASE /\ UNCHANGED <<memo, stale, outfile, job, meddled, remat>> /\ pc \in Building
           /\ pc' \in Building
  BY <1>9 DEF Present, Fresh, Building, Gate, Looking, Token
<1>10. CASE /\ UNCHANGED <<memo, stale, outfile, job, meddled, result, ran>> /\ pc \in Gate
            /\ pc' \in Gate
  BY <1>10 DEF Present, Fresh, Building, Gate, Looking, Token
<1>11. CASE UNCHANGED <<memo, stale, outfile, pc, job, result, ran, remat, builder>>
            /\ (meddled \subseteq meddled')
  BY <1>11 DEF Present, Fresh, Building, Gate, Looking, Token
<1>12. CASE ActorStep
  BY <1>2, <1>3, <1>4, <1>5, <1>6, <1>7, <1>8, <1>9, <1>10, <1>12
     DEF ActorStep, Recv, ResetCancel, ResetAborted, BuildStart, LoopTop, ActionFailed, AbortCheck,
         CancelCheck, PendingCheck, commit_snapshot, Goto, local, graph, files, hist,
         Before, Building, Gate
<1>13. Done \/ Fails \/ Recv \/ Join \/ ensure_analysis \/ apply_pending_changes \/ BuildStart
       \/ commit_snapshot \/ VerifyOutputs \/ ResetCancel \/ LoopTop => ActorStep
  BY DEF Done, Fails, ActorStep
<1>14. Edits => meddled \subseteq meddled'
  BY DEF Edits, Edit, Meddle
<1> QED BY <1>1, <1>11, <1>12, <1>13, <1>14, Writers

LEMMA PresentInit ==
  ASSUME Init
  PROVE  Present
  BY DEF Init, Present, Fresh, Looking, Building, Gate

LEMMA PresentAtCommit ==
  ASSUME Present, commit_snapshot, result.st = "ok", ~ran, "output" \notin meddled
  PROVE  \A a \in ActsOf[Token] : outfile[a] = result.out[a]
  BY DEF Present, commit_snapshot, Gate

(* What is reported up to date, with nothing run, is in the exec root as   *)
(* reported, through stops, failures, cleans, target switches and the one  *)
(* retry of the verification (actor.rs:379).                               *)
THEOREM UpToDateIsOnDisk == Spec => CachedIsOnDisk
<1>1. Init => ActorInv /\ Present
  BY ActorInvInit, PresentInit
<1>2. ActorInv /\ Present /\ [Next]_vars => (ActorInv /\ Present)'
  BY ActorInvStep, PresentStep
<1>3. ActorInv /\ Present /\ [Next]_vars =>
        [commit_snapshot /\ result.st = "ok" /\ ~ran /\ "output" \notin meddled =>
           \A a \in ActsOf[Token] : outfile[a] = result.out[a]]_vars
  BY PresentAtCommit
<1> QED BY <1>1, <1>2, <1>3, PTL DEF Spec, CachedIsOnDisk

-----------------------------------------------------------------------------
(* What is committed is current.                                           *)

LEMMA ContentFacts ==
  /\ Contents \subseteq Nat
  /\ \A m \in Manifests : m.shape \in Nat /\ m.src \in Nat
  BY ActorAssumption DEF Manifests

LEMMA DiskGrows ==
  ASSUME ~Reverts, ActorInv, [Next]_vars, NEW f \in Files
  PROVE  disk[f] \in Nat /\ disk'[f] \in Nat /\ disk[f] <= disk'[f]
<1>1. disk \in [Files -> Contents] /\ disk' \in [Files -> Contents]
  BY StoreTypesStep DEF ActorInv, StoreTypes
<1>2. disk[f] \in Nat /\ disk'[f] \in Nat
  BY <1>1, ContentFacts
<1>3. ASSUME NEW g \in Files, NEW v \in Contents, Edit(g, v) PROVE disk[f] <= disk'[f]
  <2>1. v > disk[g] /\ disk' = [disk EXCEPT ![g] = v]
    BY <1>3 DEF Edit
  <2> QED BY <1>1, <1>2, <2>1
<1> QED BY <1>2, <1>3, Writers DEF Edits

(* Only draining takes a path off the pending list. *)
LEMMA SeenStays ==
  ASSUME ActorInv, Watched, [Next]_vars, ~apply_pending_changes, NEW f \in Files,
         NEW v, Seen(f, v)
  PROVE  known'[f] <= v \/ f \in pending'
<1>1. ASSUME NEW p \in Files \cup Acts, NotifyPush(p) PROVE known'[f] <= v \/ f \in pending'
  BY <1>1 DEF NotifyPush, Seen, ActorInv, StoreTypes
<1> QED BY <1>1, Writers DEF Seen, Pushes

LEMMA WatchedStep ==
  ASSUME ~Reverts, ActorInv, Watched, [Next]_vars
  PROVE  Watched'
<1> SUFFICES ASSUME NEW f \in Files PROVE known'[f] <= disk'[f]
  BY DEF Watched
<1>1. known[f] \in Nat /\ known[f] <= disk[f]
  BY ContentFacts DEF ActorInv, StoreTypes, Watched
<1>2. ASSUME NEW p \in Files \cup Acts, NotifyPush(p) PROVE known'[f] \in {known[f], disk[f]}
  BY <1>2 DEF NotifyPush, ActorInv, StoreTypes
<1> QED BY <1>1, <1>2, DiskGrows, Writers DEF Pushes

(* What a run, or the cache, gives an action is no older than the digest   *)
(* in its key, no newer than the disk, and compiles.                       *)
LEMMA RunCurrent ==
  ASSUME ActorInv, CacheCurrent, BuilderCurrent, NEW a \in flight, Succeeds(a)
  PROVE  /\ RunOutput(a) \in Manifests
         /\ RunOutput(a).shape = builder.shape /\ RunOutput(a).src \notin Bad
         /\ builder.leaf[LeafOf[a]] <= RunOutput(a).src
         /\ RunOutput(a).src <= disk[LeafOf[a]]
<1>1. pc \in Building /\ a \in ActsOf[Token] /\ builder # None
  BY FlightFacts DEF ActorInv, WarmTypes
<1>2. RunOutput(a) \in Manifests
  BY <1>1, RunOutputType
<1>3. CASE Cached(a)
  BY <1>1, <1>2, <1>3, KeyFacts DEF Cached, RunOutput, CacheCurrent
<1>4. CASE ~Cached(a)
  <2>1. RunOutput(a) = [shape |-> builder.shape, src |-> disk[LeafOf[a]]]
    BY <1>4 DEF RunOutput, Output
  <2>2. disk[LeafOf[a]] \in Nat
    BY <1>1, KeyFacts, ContentFacts DEF ActorInv, StoreTypes
  <2> QED BY <1>1, <1>2, <1>4, <2>1, <2>2, KeyFacts DEF Succeeds, BuilderCurrent
<1> QED BY <1>2, <1>3, <1>4

LEMMA CacheCurrentStep ==
  ASSUME ~Reverts, ActorInv, CacheCurrent, BuilderCurrent, [Next]_vars
  PROVE  CacheCurrent'
<1> SUFFICES ASSUME NEW a \in Acts, NEW s \in Contents, NEW c \in Contents,
                    <<a, s, c>> \in DOMAIN cache'
             PROVE  /\ cache'[<<a, s, c>>].shape = s
                    /\ c <= cache'[<<a, s, c>>].src /\ cache'[<<a, s, c>>].src <= disk'[LeafOf[a]]
                    /\ cache'[<<a, s, c>>].src \notin Bad
  BY DEF CacheCurrent
<1> DEFINE k == <<a, s, c>>
<1>1. /\ LeafOf[a] \in Files /\ disk[LeafOf[a]] \in Nat /\ disk'[LeafOf[a]] \in Nat
      /\ disk[LeafOf[a]] <= disk'[LeafOf[a]]
  BY DiskGrows, ActorAssumption DEF Files
<1>2. ASSUME k \in DOMAIN cache, cache'[k] = cache[k]
      PROVE  /\ cache'[k].shape = s /\ c <= cache'[k].src /\ cache'[k].src <= disk'[LeafOf[a]]
             /\ cache'[k].src \notin Bad
  <2>1. cache[k] \in Manifests
    BY <1>2 DEF ActorInv, StoreTypes
  <2> QED BY <1>1, <1>2, <2>1, ContentFacts DEF CacheCurrent
<1>3. ASSUME NEW b \in flight, Succeeds(b), restore_or_run(b), k = content_key(b)
      PROVE  /\ cache'[k].shape = s /\ c <= cache'[k].src /\ cache'[k].src <= disk'[LeafOf[a]]
             /\ cache'[k].src \notin Bad
  <2>1. cache'[k] = RunOutput(b)
    BY <1>3, CacheAfter
  <2>2. b = a /\ s = builder.shape /\ c = builder.leaf[LeafOf[a]]
    BY <1>3, FlightFacts, KeyFacts
  <2>3. /\ RunOutput(b) \in Manifests /\ RunOutput(b).shape = s /\ RunOutput(b).src \notin Bad
        /\ c <= RunOutput(b).src /\ RunOutput(b).src <= disk[LeafOf[a]]
    BY <1>3, <2>2, RunCurrent
  <2> QED BY <1>1, <2>1, <2>3, ContentFacts
<1>4. ASSUME NEW b \in flight, Succeeds(b), restore_or_run(b)
      PROVE  k = content_key(b) \/ (k \in DOMAIN cache /\ cache'[k] = cache[k])
  <2>1. k \in DOMAIN cache'
    OBVIOUS
  <2>2. /\ DOMAIN cache' = DOMAIN cache \cup {content_key(b)}
        /\ \A x \in DOMAIN cache : x # content_key(b) => cache'[x] = cache[x]
    BY <1>4, CacheAfter
  <2> HIDE DEF k
  <2> QED BY <2>1, <2>2
<1>5. CASE CleanRemove
  <2>1. cache' = << >> \/ cache' = cache
    BY <1>5 DEF CleanRemove
  <2>2. k \notin DOMAIN << >>
    OBVIOUS
  <2> QED BY <1>2, <2>1, <2>2
<1>6. CASE Join
  BY <1>2, <1>3, <1>4, <1>6 DEF Join, files
<1>7. CASE Done
  BY <1>2, <1>3, <1>4, <1>7 DEF Done, ActionDone
<1> QED BY <1>2, <1>5, <1>6, <1>7, Writers

LEMMA BuilderCurrentStep ==
  ASSUME ~Reverts, ActorInv, Current, [Next]_vars
  PROVE  BuilderCurrent'
<1>0. WarmTypes /\ BuilderCurrent /\ Watched /\ Shape \in Files
  BY DEF ActorInv, Current, Files
<1>1. CASE UNCHANGED builder /\ ~apply_pending_changes
  <2> SUFFICES ASSUME builder # None
               PROVE  /\ builder.shape \notin Bad /\ builder.shape <= disk'[Shape]
                      /\ \A f \in DOMAIN builder.leaf :
                           /\ builder.leaf[f] <= disk'[f]
                           /\ known'[f] <= builder.leaf[f] \/ f \in pending'
    BY <1>1 DEF BuilderCurrent, Seen
  <2>1. builder.shape \in Nat /\ builder.shape <= disk'[Shape] /\ builder.shape \notin Bad
    BY <1>0, BuilderFacts, DiskGrows, ContentFacts DEF BuilderCurrent
  <2>2. ASSUME NEW f \in DOMAIN builder.leaf
        PROVE  /\ builder.leaf[f] <= disk'[f]
               /\ known'[f] <= builder.leaf[f] \/ f \in pending'
    <3>1. f \in Files /\ builder.leaf[f] \in Nat
      BY <1>0, BuilderFacts, ContentFacts DEF Files
    <3>2. builder.leaf[f] <= disk[f] /\ Seen(f, builder.leaf[f])
      BY <1>0 DEF BuilderCurrent
    <3> QED BY <1>0, <1>1, <3>1, <3>2, DiskGrows, SeenStays
  <2> QED BY <2>1, <2>2
<1>2. CASE builder' = None
  BY <1>2 DEF BuilderCurrent
<1>3. CASE apply_pending_changes /\ builder # None
  <2>1. disk' = disk /\ known' = known
    BY <1>3 DEF apply_pending_changes, files, hist
  <2>2. builder'.shape = builder.shape /\ DOMAIN builder'.leaf = DOMAIN builder.leaf
    BY <1>3, SyncFacts
  <2>3. ASSUME NEW f \in DOMAIN builder.leaf
        PROVE  builder'.leaf[f] <= disk[f] /\ known[f] <= builder'.leaf[f]
    <3>1. f \in Files /\ disk[f] \in Nat /\ known[f] <= disk[f]
      BY <1>0, <1>3, BuilderFacts, ContentFacts DEF Files, ActorInv, StoreTypes, Watched
    <3> QED BY <1>0, <1>3, <3>1, SyncFacts DEF BuilderCurrent, Seen
  <2> QED BY <1>0, <1>3, <2>1, <2>2, <2>3 DEF BuilderCurrent, Seen
<1>4. CASE ensure_analysis /\ ~UNCHANGED builder
  <2>1. disk' = disk /\ known' = known /\ Token \in Tokens
    BY <1>4 DEF ensure_analysis, files, hist, ActorInv, LocalTypes, Jobs, Token
  <2>2. PICK s \in Contents : /\ configure_targets(s)
                              /\ \/ analysis # None /\ s = analysis.shape
                                 \/ s = disk[Shape] /\ s \notin Bad
    BY <1>4, AnalysisCases
  <2>3. s \notin Bad /\ s <= disk[Shape]
    BY <1>0, <2>2, ContentFacts DEF Current, AnalysisCurrent, ActorInv, StoreTypes
  <2>4. /\ builder'.shape = s
        /\ \A f \in DOMAIN builder'.leaf : builder'.leaf[f] = disk[f] /\ f \in Files
    BY <2>1, <2>2, ConfigureFacts
  <2>5. \A f \in Files : disk[f] \in Nat /\ known[f] <= disk[f]
    BY <1>0, ContentFacts DEF ActorInv, StoreTypes, Watched
  <2> QED BY <2>1, <2>3, <2>4, <2>5 DEF BuilderCurrent, Seen
<1>5. Recv \/ VerifyOutputs => builder' \in {None, builder}
  BY DEF Recv, VerifyOutputs
<1>6. apply_pending_changes /\ builder = None => builder' = None
  BY DEF apply_pending_changes, sync_file
<1>7. ensure_analysis \/ Recv \/ VerifyOutputs => ~apply_pending_changes
  BY DEF ensure_analysis, Recv, VerifyOutputs, apply_pending_changes
<1> QED BY <1>1, <1>2, <1>3, <1>4, <1>5, <1>6, <1>7, Writers

LEMMA MemoCurrentStep ==
  ASSUME ~Reverts, ActorInv, Current, [Next]_vars
  PROVE  MemoCurrent'
<1>0. WarmTypes /\ BuilderCurrent /\ MemoCurrent /\ StoreTypes
  BY DEF ActorInv, Current
<1>1. CASE UNCHANGED <<builder, memo, stale>>
  <2> SUFFICES ASSUME builder # None, NEW a \in ActsOf[builder.token], Fresh(a)
               PROVE  /\ memo[a].shape = builder.shape /\ memo[a].src \notin Bad
                      /\ builder.leaf[LeafOf[a]] <= memo[a].src /\ memo[a].src <= disk'[LeafOf[a]]
    BY <1>1 DEF MemoCurrent, Fresh
  <2>1. a \in Acts /\ LeafOf[a] \in Files
    BY <1>0, BuilderFacts, ActsFacts
  <2>2. memo[a].src \in Nat
    BY <1>0, <2>1, ContentFacts DEF StoreTypes, Fresh
  <2> QED BY <1>0, <2>1, <2>2, DiskGrows DEF MemoCurrent
<1>2. CASE builder' = None
  BY <1>2 DEF MemoCurrent
<1>3. CASE apply_pending_changes /\ builder # None
  <2>1. disk' = disk /\ memo' = memo
    BY <1>3 DEF apply_pending_changes, files
  <2>2. /\ builder'.shape = builder.shape /\ builder'.token = builder.token
        /\ DOMAIN builder.leaf = {LeafOf[a] : a \in ActsOf[builder.token]}
    BY <1>0, <1>3, SyncFacts, BuilderFacts
  <2>3. ASSUME NEW a \in ActsOf[builder.token], Fresh(a)'
        PROVE  Fresh(a) /\ builder'.leaf[LeafOf[a]] = builder.leaf[LeafOf[a]]
    <3>1. a \in Acts
      BY <1>0, <1>3, BuilderFacts, ActsFacts
    <3>2. LeafOf[a] \in DOMAIN builder.leaf
      BY <2>2
    <3> QED BY <1>3, <2>1, <2>3, <3>1, <3>2, SyncFacts DEF Fresh
  <2> QED BY <1>0, <1>3, <2>1, <2>2, <2>3 DEF MemoCurrent
<1>4. CASE ensure_analysis /\ ~UNCHANGED <<builder, memo, stale>>
  <2>1. Token \in Tokens
    BY <1>4 DEF ensure_analysis, ActorInv, LocalTypes, Jobs, Token
  <2>2. builder'.token = Token /\ memo' = [a \in Acts |-> None]
    BY <1>4, <2>1, AnalysisCases, ConfigureFacts
  <2>3. \A a \in ActsOf[builder'.token] : ~Fresh(a)'
    BY <2>1, <2>2, ActsFacts DEF Fresh
  <2> QED BY <2>3 DEF MemoCurrent
<1>5. ASSUME NEW a \in Acts, ActionDone(a) PROVE MemoCurrent'
  <2>1. /\ a \in flight /\ Succeeds(a) /\ disk' = disk /\ builder' = builder
        /\ memo' = [memo EXCEPT ![a] = RunOutput(a)] /\ stale' = stale \ {a}
    BY <1>5 DEF ActionDone, restore_or_run
  <2>2. memo'[a] = RunOutput(a) /\ \A b \in Acts : b # a => memo'[b] = memo[b]
    BY <1>0, <2>1 DEF StoreTypes
  <2>3. \A b \in ActsOf[builder.token] : b # a => b \in Acts \/ builder = None
    BY <1>0, BuilderFacts, ActsFacts
  <2>4. /\ memo'[a].shape = builder.shape /\ memo'[a].src \notin Bad
        /\ builder.leaf[LeafOf[a]] <= memo'[a].src /\ memo'[a].src <= disk[LeafOf[a]]
    BY <2>1, <2>2, RunCurrent DEF Current
  <2> QED BY <1>0, <2>1, <2>2, <2>3, <2>4 DEF MemoCurrent, Fresh
<1>6. Recv \/ VerifyOutputs => builder' \in {None, builder} /\ UNCHANGED <<memo, stale>>
  BY DEF Recv, VerifyOutputs
<1>7. apply_pending_changes /\ builder = None => builder' = None
  BY DEF apply_pending_changes, sync_file
<1> QED BY <1>1, <1>2, <1>3, <1>4, <1>5, <1>6, <1>7, Writers DEF Done

LEMMA AnalysisCurrentStep ==
  ASSUME ~Reverts, ActorInv, Current, [Next]_vars
  PROVE  AnalysisCurrent'
<1>0. /\ WarmTypes /\ StoreTypes /\ Watched /\ AnalysisCurrent /\ Shape \in Files
      /\ disk[Shape] \in Nat /\ known[Shape] \in Nat /\ known[Shape] <= disk[Shape]
  BY ContentFacts DEF ActorInv, Current, StoreTypes, Watched, Files
<1>1. analysis # None => analysis.shape \in Nat /\ analysis.digest \in Nat
  BY <1>0, ContentFacts DEF WarmTypes, Analyses
<1>2. builder # None => builder.shape \in Nat
  BY <1>0, BuilderFacts, ContentFacts
<1>3. CASE ensure_analysis
  <2>1. UNCHANGED <<disk, known, pending>> /\ pc = "analyze"
    BY <1>3 DEF ensure_analysis, files, hist
  <2>2. digest \in Nat /\ digest <= disk[Shape] /\ Seen(Shape, digest) /\ Token \in Tokens
    BY <1>0, <2>1, ContentFacts
       DEF WarmTypes, AnalysisCurrent, ActorInv, LocalTypes, Jobs, Token
  <2>3. CASE pc' = "abortcheck" /\ UNCHANGED analysis /\ result' = Err("failed")
    BY <1>0, <2>1, <2>3 DEF AnalysisCurrent, Building, Err
  <2>4. ASSUME NEW s \in Contents, configure_targets(s), pc' = "engine",
               analysis'.shape = s, analysis'.digest = digest,
               \/ analysis # None /\ s = analysis.shape /\ analysis.digest = digest
               \/ s = disk[Shape] /\ s \notin Bad
        PROVE  AnalysisCurrent'
    <3>1. digest <= s /\ s <= disk[Shape] /\ s \notin Bad /\ s \in Nat
      BY <1>0, <2>2, <2>4, ContentFacts DEF AnalysisCurrent
    <3>2. Seen(Shape, s)
      BY <1>0, <2>2, <3>1 DEF Seen
    <3>3. builder'.shape = s
      BY <2>2, <2>4, ConfigureFacts
    <3> QED BY <2>1, <2>4, <3>1, <3>2, <3>3 DEF AnalysisCurrent, Seen, Gate
  <2> QED BY <1>3, <2>3, <2>4, AnalysisCases
<1>4. CASE compute_analysis_digest
  <2>1. UNCHANGED <<disk, known, pending, analysis, builder>> /\ digest' = disk[Shape]
    BY <1>4 DEF compute_analysis_digest, files, hist, graph
  <2>2. CASE pc' = "engine" /\ Hit(disk[Shape]) /\ builder # None
    <3>1. builder.shape = analysis.shape /\ analysis.digest = disk[Shape] /\ analysis # None
      BY <1>0, <2>2 DEF WarmTypes, Hit
    <3>2. builder.shape = disk[Shape]
      BY <1>0, <1>1, <3>1 DEF AnalysisCurrent
    <3> QED BY <1>0, <2>1, <2>2, <3>2 DEF AnalysisCurrent, Seen, Gate
  <2>3. CASE pc' = "analyze"
    BY <1>0, <2>1, <2>3 DEF AnalysisCurrent, Seen, Building, Gate
  <2> QED BY <1>4, <2>2, <2>3 DEF compute_analysis_digest, Goto
<1>5. analysis' \in {None, analysis} =>
        (analysis' # None => /\ analysis'.digest <= analysis'.shape
                             /\ analysis'.shape <= disk'[Shape] /\ analysis'.shape \notin Bad)
  BY <1>0, <1>1, DiskGrows DEF AnalysisCurrent
<1>6. CASE /\ analysis' \in {None, analysis} /\ pc' # "analyze" /\ pc' \notin Building
           /\ pc' \in Gate => result'.st # "ok"
  BY <1>5, <1>6 DEF AnalysisCurrent
<1>7. CASE /\ UNCHANGED <<analysis, builder, digest>> /\ ~apply_pending_changes
           /\ (pc' = "analyze" => pc = "analyze") /\ (pc' \in Building => pc \in Building)
           /\ (pc' \in Gate /\ result'.st = "ok" => pc \in Gate /\ result' = result)
  <2>1. CASE pc' = "analyze"
    <3>1. digest \in Nat /\ digest <= disk[Shape] /\ Seen(Shape, digest)
      BY <1>0, <1>7, <2>1, ContentFacts DEF WarmTypes, AnalysisCurrent
    <3>2. known'[Shape] <= digest \/ Shape \in pending'
      BY <1>0, <1>7, <3>1, SeenStays
    <3>3. digest <= disk'[Shape]
      BY <1>0, <3>1, DiskGrows
    <3> QED BY <1>5, <1>7, <2>1, <3>2, <3>3 DEF AnalysisCurrent, Seen, Building, Gate
  <2>2. CASE pc' \in Building
    <3>1. Seen(Shape, builder.shape)
      BY <1>0, <1>7, <2>2 DEF AnalysisCurrent
    <3>2. known'[Shape] <= builder.shape \/ Shape \in pending'
      BY <1>0, <1>7, <3>1, SeenStays
    <3> QED BY <1>5, <1>7, <2>2, <3>2 DEF AnalysisCurrent, Seen, Building, Gate
  <2>3. CASE pc' \in Gate /\ result'.st = "ok"
    <3>1. builder # None /\ Seen(Shape, builder.shape)
      BY <1>0, <1>7, <2>3 DEF AnalysisCurrent
    <3>2. known'[Shape] <= builder.shape \/ Shape \in pending'
      BY <1>0, <1>7, <3>1, SeenStays
    <3> QED BY <1>5, <1>7, <2>3, <3>1, <3>2 DEF AnalysisCurrent, Seen, Building, Gate
  <2> QED BY <1>6, <1>7, <2>1, <2>2, <2>3
<1>8. CASE apply_pending_changes \/ Recv \/ VerifyOutputs
  <2>1. /\ analysis' \in {None, analysis} /\ pc' \notin Building /\ pc' # "analyze"
        /\ ~VerifyOutputs => pc' \notin Gate
    <3>1. CASE Recv
      BY <1>0, <3>1 DEF Recv, Goto, Building, Gate
    <3>2. CASE apply_pending_changes
      BY <3>2 DEF apply_pending_changes, Goto, Building, Gate
    <3>3. CASE VerifyOutputs
      BY <3>3 DEF VerifyOutputs, Goto, Building
    <3> QED BY <1>8, <3>1, <3>2, <3>3
  <2>2. CASE VerifyOutputs /\ pc' \in Gate /\ result'.st = "ok"
    <3>1. /\ UNCHANGED <<known, pending>> /\ pc \in Building
          /\ builder' = builder /\ analysis' = analysis
      BY <2>2 DEF VerifyOutputs, hist, Building, Gate, Goto, Err
    <3>2. builder # None /\ Seen(Shape, builder.shape)
      BY <1>0, <3>1 DEF AnalysisCurrent, WarmTypes
    <3> QED BY <1>5, <2>1, <3>1, <3>2 DEF AnalysisCurrent, Seen
  <2> QED BY <1>6, <2>1, <2>2
<1>9. CASE ActorStep
  <2>1. CASE ActorStep /\ ~ensure_analysis /\ ~compute_analysis_digest /\ ~apply_pending_changes
              /\ ~Recv /\ ~VerifyOutputs /\ ~Join
    BY <1>7, <2>1
       DEF ActorStep, ResetCancel, ResetAborted, BuildStart, LoopTop, AbortCheck,
           CancelCheck, PendingCheck, commit_snapshot, ActionDone, ActionFailed, Goto, graph,
           local, Building, Gate
  <2>2. CASE Join
    <3>1. result'.st # "ok" /\ pc = "join" /\ pc' \in {"join", "abortcheck"}
      BY <2>2 DEF Join, ActorInv, Outcomes, Err, Goto
    <3>2. UNCHANGED <<analysis, builder, digest>> /\ ~apply_pending_changes
      BY <2>2 DEF Join, graph, apply_pending_changes
    <3> QED BY <1>7, <3>1, <3>2 DEF Building
  <2> QED BY <1>3, <1>4, <1>8, <1>9, <2>1, <2>2
<1>10. apply_pending_changes \/ ensure_analysis \/ compute_analysis_digest \/ Recv \/ VerifyOutputs
         \/ LoopTop \/ Fails \/ commit_snapshot => ActorStep
  BY DEF ActorStep, Fails
<1> QED BY <1>7, <1>9, <1>10, Writers

LEMMA ResultCurrentStep ==
  ASSUME ~Reverts, ActorInv, Current, [Next]_vars
  PROVE  ResultCurrent'
<1>0. /\ StoreTypes /\ Outcomes /\ LocalTypes /\ Watched /\ ResultCurrent /\ Shape \in Files
      /\ \A f \in Files : disk[f] \in Nat /\ known[f] \in Nat
  BY ContentFacts DEF ActorInv, Current, StoreTypes, Files
<1>1. CASE pc' \notin {"join"} \cup Gate
  BY <1>1 DEF ResultCurrent
<1>2. CASE /\ UNCHANGED <<result, job>> /\ ~apply_pending_changes
           /\ pc' \in {"join"} \cup Gate /\ (pc' = pc \/ pc \in Gate \/ (pc = "join" /\ pc' = "abortcheck"))
           /\ UNCHANGED <<disk, meddled>> \/ "source" \in meddled'
                \/ (disk' = disk /\ meddled \subseteq meddled')
  <2>1. ASSUME pc' \in Gate, result.st = "ok", NEW a \in ActsOf[Token]
        PROVE  LET o == result.out[a] IN
                 /\ known'[Shape] <= o.shape \/ Shape \in pending'
                 /\ o.shape <= disk'[Shape] /\ o.shape \notin Bad
                 /\ known'[LeafOf[a]] <= o.src \/ LeafOf[a] \in pending'
                 /\ o.src <= disk'[LeafOf[a]] /\ o.src \notin Bad
    <3> DEFINE o == result.out[a]
    <3>1. pc \in Gate
      <4>1. pc = "join" => result.st # "ok"
        BY <1>0 DEF Outcomes, Err
      <4> QED BY <1>2, <2>1, <4>1
    <3>2. /\ Seen(Shape, o.shape) /\ o.shape <= disk[Shape] /\ o.shape \notin Bad
          /\ Seen(LeafOf[a], o.src) /\ o.src <= disk[LeafOf[a]] /\ o.src \notin Bad
      BY <1>0, <2>1, <3>1 DEF ResultCurrent
    <3>3. o \in Manifests
      BY <1>0, <2>1, <3>1 DEF Outcomes, Err
    <3>4. LeafOf[a] \in Files /\ o.shape \in Nat /\ o.src \in Nat
      <4>1. Token \in Tokens
        BY <1>0, <3>1 DEF LocalTypes, Jobs, Token, Gate
      <4> QED BY <3>3, <4>1, ActsFacts, ContentFacts
    <3> HIDE DEF o
    <3>5. o.shape <= disk'[Shape] /\ o.src <= disk'[LeafOf[a]]
      BY <1>0, <3>2, <3>4, DiskGrows
    <3>6. known'[Shape] <= o.shape \/ Shape \in pending'
      BY <1>0, <1>2, <3>2, SeenStays
    <3>7. known'[LeafOf[a]] <= o.src \/ LeafOf[a] \in pending'
      BY <1>0, <1>2, <3>2, <3>4, SeenStays
    <3> QED BY <3>2, <3>5, <3>6, <3>7 DEF o
  <2>2. ASSUME result.st = "failed", "source" \notin meddled' PROVE Cold(Token)' = Err("failed")
    <3>1. disk' = disk /\ "source" \notin meddled /\ pc \in {"join"} \cup Gate
      BY <1>2, <2>2
    <3>2. Cold(Token) = Err("failed")
      BY <1>0, <2>2, <3>1 DEF ResultCurrent
    <3> QED BY <1>2, <3>1, <3>2 DEF Cold, Token, Ok, Output, Err
  <2> QED BY <1>2, <2>1, <2>2 DEF ResultCurrent, Seen, Token
<1>3. CASE VerifyOutputs
  <2>1. UNCHANGED <<disk, known, pending, memo, job>> /\ pc = "produced"
    BY <1>3 DEF VerifyOutputs, files, hist
  <2>2. CASE pc' = "abortcheck" /\ result' = Err("cancelled")
    BY <2>2 DEF ResultCurrent, Err, Gate
  <2>3. CASE pc' = "abortcheck" /\ result' = Ok([a \in ActsOf[Token] |-> memo[a]])
    <3>1. /\ builder # None /\ builder.token = Token /\ Seen(Shape, builder.shape)
          /\ BuilderCurrent /\ MemoCurrent
      BY <2>1 DEF ActorInv, WarmTypes, Current, AnalysisCurrent, Building
    <3>2. ASSUME NEW a \in ActsOf[Token]
          PROVE  /\ Seen(Shape, memo[a].shape) /\ memo[a].shape <= disk[Shape]
                 /\ memo[a].shape \notin Bad
                 /\ Seen(LeafOf[a], memo[a].src) /\ memo[a].src <= disk[LeafOf[a]]
                 /\ memo[a].src \notin Bad
      <4>1. Fresh(a) /\ memo[a] \in Manifests /\ memo[a].src \in Nat
        BY <2>1, FreshTyped, ContentFacts
      <4>2. /\ LeafOf[a] \in DOMAIN builder.leaf /\ LeafOf[a] \in Files
            /\ builder.leaf[LeafOf[a]] \in Nat
        BY <2>1, KeyFacts, ContentFacts DEF Building
      <4>3. /\ memo[a].shape = builder.shape /\ memo[a].src \notin Bad
            /\ builder.leaf[LeafOf[a]] <= memo[a].src /\ memo[a].src <= disk[LeafOf[a]]
        BY <3>1, <4>1 DEF MemoCurrent
      <4>4. /\ builder.shape \notin Bad /\ builder.shape <= disk[Shape]
            /\ Seen(LeafOf[a], builder.leaf[LeafOf[a]])
        BY <3>1, <4>2 DEF BuilderCurrent
      <4> QED BY <1>0, <3>1, <4>1, <4>2, <4>3, <4>4 DEF Seen
    <3>3. result'.st = "ok" /\ \A a \in ActsOf[Token] : result'.out[a] = memo[a]
      BY <2>3 DEF Ok
    <3> QED BY <2>1, <2>3, <3>2, <3>3 DEF ResultCurrent, Seen, Token, Gate
  <2> QED BY <1>1, <1>3, <2>2, <2>3 DEF VerifyOutputs, Goto, Gate
<1>4. CASE ensure_analysis
  <2>1. CASE disk[Shape] \in Bad /\ result' = Err("failed") /\ pc' = "abortcheck"
    <3>1. disk' = disk
      BY <1>4 DEF ensure_analysis, files
    <3> QED BY <2>1, <3>1 DEF ResultCurrent, Cold, Err, Gate
  <2> QED BY <1>1, <1>4, <2>1, AnalysisCases DEF Gate
<1>5. ASSUME NEW a \in Acts, ActionFailed(a) PROVE ResultCurrent'
  <2>1. UNCHANGED <<disk, job>> /\ pc' = "join" /\ result' = Err("failed") /\ a \in flight
        /\ disk[LeafOf[a]] \in Bad
    BY <1>5 DEF ActionFailed, files, Succeeds, Goto
  <2>2. a \in ActsOf[Token]
    BY <2>1, FlightFacts
  <2> QED BY <2>1, <2>2 DEF ResultCurrent, Cold, Err, Gate, Token
<1>6. CASE LoopTop
  <2>1. pc' \in {"wait", "produced"} \/ (pc' = "join" /\ result' = Err("cancelled"))
    BY <1>6 DEF LoopTop, Goto
  <2> QED BY <1>1, <2>1 DEF ResultCurrent, Err, Gate
<1>7. CASE Join
  <2>1. UNCHANGED <<disk, meddled, result, job>> /\ pc = "join" /\ pc' \in {"join", "abortcheck"}
    BY <1>7 DEF Join, files, hist, restore_or_run, Goto
  <2> QED BY <1>2, <1>7, <2>1 DEF Join, apply_pending_changes, Gate
<1>8. CASE AbortCheck \/ CancelCheck \/ PendingCheck
  <2>1. /\ UNCHANGED <<disk, meddled, result, job>> /\ pc \in Gate /\ ~apply_pending_changes
        /\ pc' \in Gate \cup {"reset"}
    BY <1>8 DEF AbortCheck, CancelCheck, PendingCheck, files, hist, local, Goto, Gate,
                apply_pending_changes
  <2> QED BY <1>1, <1>2, <2>1 DEF Gate
<1>9. CASE ActorStep
  <2>1. CASE ActorStep /\ ~VerifyOutputs /\ ~ensure_analysis /\ ~LoopTop /\ ~Join /\ ~Fails
              /\ ~(AbortCheck \/ CancelCheck \/ PendingCheck) /\ ~Recv
    BY <1>1, <2>1
       DEF ActorStep, Fails, ResetCancel, ResetAborted, apply_pending_changes,
           compute_analysis_digest, BuildStart, commit_snapshot, ActionDone, Goto, Gate
  <2>2. CASE Recv
    BY <1>1, <2>2 DEF Recv, Goto, Gate
  <2> QED BY <1>3, <1>4, <1>5, <1>6, <1>7, <1>8, <1>9, <2>1, <2>2 DEF Fails
<1>10. CASE UNCHANGED <<pc, job, result>> /\ ~ActorStep
  <2>1. pc # "recv" => \/ UNCHANGED <<disk, meddled>> \/ "source" \in meddled'
                       \/ (disk' = disk /\ meddled \subseteq meddled')
    BY Writers, <1>10 DEF Edits, Edit, Meddle, CleanRemove, ActorStep
  <2>2. ~apply_pending_changes
    BY <1>10 DEF ActorStep
  <2> QED BY <1>1, <1>2, <1>10, <2>1, <2>2 DEF Gate
<1>11. ensure_analysis \/ LoopTop \/ Fails \/ VerifyOutputs \/ commit_snapshot => ActorStep
  BY DEF ActorStep, Fails
<1> QED BY <1>9, <1>10, <1>11, Writers

LEMMA CurrentInit ==
  ASSUME Init
  PROVE  Current
<1>1. /\ disk = [f \in Files |-> 0] /\ known = disk /\ cache = << >> /\ builder = None
      /\ analysis = None /\ pc = "recv"
  BY DEF Init
<1>2. Watched /\ BuilderCurrent /\ MemoCurrent
  BY <1>1 DEF Watched, BuilderCurrent, MemoCurrent
<1>3. CacheCurrent
  <2>1. \A k : k \notin DOMAIN << >>
    OBVIOUS
  <2> QED BY <1>1, <2>1 DEF CacheCurrent
<1>4. AnalysisCurrent /\ ResultCurrent
  BY <1>1 DEF AnalysisCurrent, ResultCurrent, Building, Gate
<1> QED BY <1>2, <1>3, <1>4 DEF Current

LEMMA CurrentStep ==
  ASSUME ~Reverts, ActorInv, Current, [Next]_vars
  PROVE  Current'
  BY WatchedStep, CacheCurrentStep, BuilderCurrentStep, MemoCurrentStep, AnalysisCurrentStep,
     ResultCurrentStep DEF Current

(* The gate opens on an empty pending list: then what the attempt has seen *)
(* is all that was pushed.                                                 *)
LEMMA GatePassesCurrent ==
  ASSUME ActorInv, Current, [Next]_vars, pc = "pendingcheck", pc' = "commit", result.st = "ok",
         NEW a \in ActsOf[Token]
  PROVE  result.out[a].src >= known[LeafOf[a]] /\ result.out[a].shape >= known[Shape]
<1>1. pending = {}
  <2>1. ActorStep
    BY Writers
  <2>2. PendingCheck
    BY <2>1 DEF ActorStep, Recv, ResetCancel, ResetAborted, apply_pending_changes,
                compute_analysis_digest, ensure_analysis, BuildStart, LoopTop, Join, VerifyOutputs,
                AbortCheck, CancelCheck, commit_snapshot, ActionDone, ActionFailed
  <2> QED BY <2>2 DEF PendingCheck, Goto
<1>2. Seen(Shape, result.out[a].shape) /\ Seen(LeafOf[a], result.out[a].src)
  BY DEF Current, ResultCurrent, Gate
<1>3. result.out[a] \in Manifests
  BY DEF ActorInv, Outcomes, Err, Gate
<1>4. Token \in Tokens
  BY DEF ActorInv, LocalTypes, Jobs, Token
<1>5. known[Shape] \in Nat /\ known[LeafOf[a]] \in Nat
  BY <1>4, ActsFacts, ContentFacts DEF ActorInv, StoreTypes, Files
<1> QED BY <1>1, <1>2, <1>3, <1>5, ContentFacts DEF Seen

(* "A stale snapshot is never committed" (actor.rs:283), for any number of *)
(* sources, actions, clients, edits and builds, and every interleaving of  *)
(* the watcher, the actor, its workers and the connections; as long as     *)
(* contents do not come back.                                              *)
THEOREM NoStaleSnapshot == ~Reverts /\ Spec => NoStaleCommit
<1> SUFFICES ASSUME ~Reverts PROVE Spec => NoStaleCommit
  OBVIOUS
<1>1. Init => ActorInv /\ Current
  BY ActorInvInit, CurrentInit
<1>2. ActorInv /\ Current /\ [Next]_vars => (ActorInv /\ Current)'
  BY ActorInvStep, CurrentStep
<1>3. ActorInv /\ Current /\ [Next]_vars =>
        [pc = "pendingcheck" /\ pc' = "commit" /\ result.st = "ok" =>
           \A a \in ActsOf[Token] : /\ result.out[a].src >= known[LeafOf[a]]
                                     /\ result.out[a].shape >= known[Shape]]_vars
  BY GatePassesCurrent
<1> QED BY <1>1, <1>2, <1>3, PTL DEF Spec, NoStaleCommit

(* The three together, as the run checks them. *)
THEOREM CommitsAreTrue == ~Reverts /\ Spec => CommitsTrue
  BY ActorTypeCorrect, UpToDateIsOnDisk, NoStaleSnapshot, PTL DEF CommitsTrue

-----------------------------------------------------------------------------
(* Warm equals cold.                                                       *)

(* A watching daemon: every change it has not been told of is an event on  *)
(* its way.  (An output named like a source would hide that source from    *)
(* the watcher.)                                                           *)
Notified == \A f \in Files : f \in events \/ known[f] = disk[f]

LEMMA NotifiedStep ==
  ASSUME Watching, Acts \cap Files = {}, ActorInv, Notified, [Next]_vars
  PROVE  Notified'
<1>0. StoreTypes /\ SharedTypes
  BY DEF ActorInv
<1>1. ASSUME NEW g \in Files, NEW v \in Contents, Edit(g, v) PROVE Notified'
  <2>1. disk' = [disk EXCEPT ![g] = v] /\ events' = events \cup {g} /\ known' = known
    BY <1>1 DEF Edit
  <2> QED BY <1>0, <2>1 DEF Notified, StoreTypes
<1>2. ASSUME NEW p \in Files \cup Acts, NotifyPush(p) PROVE Notified'
  <2>1. CASE p \in outputs
    <3>1. p \notin Files
      BY <1>0, <2>1 DEF SharedTypes
    <3> QED BY <1>2, <2>1, <3>1 DEF Notified, NotifyPush, files
  <2>2. CASE p \notin outputs
    <3>1. /\ disk' = disk /\ events' = events \ {p}
          /\ known' = IF p \in Files THEN [known EXCEPT ![p] = disk[p]] ELSE known
      BY <1>2, <2>2 DEF NotifyPush, files
    <3> QED BY <1>0, <3>1 DEF Notified, StoreTypes
  <2> QED BY <2>1, <2>2
<1>3. CASE UNCHANGED <<disk, known>> /\ events \subseteq events'
  BY <1>3 DEF Notified
<1>4. \A a : restore_or_run(a) => disk' = disk /\ events \subseteq events'
  BY DEF restore_or_run
<1>5. CASE Join
  <2>1. known' = known
    BY <1>5 DEF Join, hist
  <2> QED BY <1>3, <1>4, <1>5, <2>1 DEF Join, files
<1>6. CASE Done
  <2>1. known' = known
    BY <1>6 DEF Done, ActionDone, hist
  <2> QED BY <1>3, <1>4, <1>6, <2>1 DEF Done, ActionDone
<1> QED BY <1>1, <1>2, <1>3, <1>5, <1>6, Writers DEF Edits, Pushes

LEMMA QuietCommitIsCold ==
  ASSUME ActorInv, Current, Notified, commit_snapshot, Quiet, ~aborted
  PROVE  result = Cold(Token)
<1>1. pc = "commit" /\ Token \in Tokens
  BY DEF commit_snapshot, ActorInv, LocalTypes, Jobs, Token
<1>2. \A f \in Files : known[f] = disk[f] /\ f \notin pending /\ disk[f] \in Nat
  BY ContentFacts DEF Quiet, Notified, ActorInv, StoreTypes
<1>3. result.st # "cancelled"
  BY <1>1 DEF ActorInv, Outcomes
<1>4. CASE result = Err("failed")
  <2>1. "source" \notin meddled
    BY DEF Quiet
  <2> QED BY <1>1, <1>4, <2>1 DEF Current, ResultCurrent, Gate, Err
<1>5. CASE result = Ok(result.out) /\ result.out \in [ActsOf[Token] -> Manifests]
  <2>1. ASSUME NEW a \in ActsOf[Token]
        PROVE  /\ result.out[a] = Output(disk[Shape], disk[LeafOf[a]])
               /\ disk[Shape] \notin Bad /\ disk[LeafOf[a]] \notin Bad
    <3> DEFINE o == result.out[a]
    <3>1. o \in Manifests /\ o.shape \in Nat /\ o.src \in Nat
      BY <1>5, ContentFacts
    <3>2. result.st = "ok"
      BY <1>5 DEF Ok
    <3>3. /\ Seen(Shape, o.shape) /\ o.shape <= disk[Shape] /\ o.shape \notin Bad
          /\ Seen(LeafOf[a], o.src) /\ o.src <= disk[LeafOf[a]] /\ o.src \notin Bad
      BY <1>1, <3>2 DEF Current, ResultCurrent, Gate
    <3> HIDE DEF o
    <3>4. Shape \in Files /\ LeafOf[a] \in Files
      BY <1>1, ActsFacts DEF Files
    <3>5. o.shape = disk[Shape] /\ o.src = disk[LeafOf[a]]
      BY <1>2, <3>1, <3>3, <3>4 DEF Seen
    <3>6. o = [shape |-> o.shape, src |-> o.src]
      BY <3>1 DEF Manifests
    <3> QED BY <3>3, <3>5, <3>6 DEF o, Output
  <2>2. disk[Shape] \notin Bad
    <3>1. builder # None /\ Seen(Shape, builder.shape) /\ result.st = "ok"
      BY <1>1, <1>5 DEF Current, AnalysisCurrent, Gate, Ok
    <3>2. builder.shape \notin Bad /\ builder.shape <= disk[Shape] /\ builder.shape \in Nat
      BY <3>1, BuilderFacts, ContentFacts DEF Current, BuilderCurrent, ActorInv
    <3>3. builder.shape = disk[Shape]
      BY <1>2, <3>1, <3>2 DEF Seen, Files
    <3> QED BY <3>2, <3>3
  <2>3. result.out = [a \in ActsOf[Token] |-> Output(disk[Shape], disk[LeafOf[a]])]
    BY <1>5, <2>1
  <2> QED BY <1>5, <2>1, <2>2, <2>3 DEF Cold
<1> QED BY <1>1, <1>3, <1>4, <1>5 DEF ActorInv, Outcomes, Gate, Err

(* Warm equals cold (razel-engine lib.rs:181, rpc.rs:1086): with no change *)
(* on its way, what the daemon answers is what a build from scratch would, *)
(* for any history of edits, restarts, failures, target switches and       *)
(* cleans; as long as contents do not come back and no output has the name *)
(* of a source.                                                            *)
THEOREM WarmBuildIsCold ==
  ~Reverts /\ Watching /\ Acts \cap Files = {} /\ Spec => WarmEqualsCold
<1> SUFFICES ASSUME ~Reverts, Watching, Acts \cap Files = {} PROVE Spec => WarmEqualsCold
  OBVIOUS
<1>1. Init => ActorInv /\ Current /\ Notified
  BY ActorInvInit, CurrentInit DEF Init, Notified
<1>2. ActorInv /\ Current /\ Notified /\ [Next]_vars => (ActorInv /\ Current /\ Notified)'
  BY ActorInvStep, CurrentStep, NotifiedStep
<1>3. ActorInv /\ Current /\ Notified /\ [Next]_vars =>
        [commit_snapshot /\ Quiet /\ ~aborted => result = Cold(Token)]_vars
  BY QuietCommitIsCold
<1> QED BY <1>1, <1>2, <1>3, PTL DEF Spec, WarmEqualsCold
=============================================================================
