------------------------------- MODULE Actor -------------------------------
(***************************************************************************)
(* The warm-build daemon: the single-owner actor of razel-daemon/actor.rs, *)
(* the connection threads and the file watcher of rpc.rs that talk to it,  *)
(* the IncrementalBuilder it drives and the content-addressed action cache *)
(* of razel-exec below it.                                                 *)
(*                                                                         *)
(* A target is a set of actions, each reading one source file; the BUILD   *)
(* files are one more file, Shape.  What an output holds is the contents   *)
(* it was made from.  The graph between actions is EngineParallel's        *)
(* subject: here an action is stale or not.                                *)
(***************************************************************************)
EXTENDS Naturals, Sequences, FiniteSets

CONSTANTS
  Sources, Shape,    \* source files, and the files compute_analysis_digest reads
  Contents,          \* file contents, numbered in the order they are written
  Bad,               \* contents that do not compile (or analyse)
  Acts, LeafOf,      \* actions, named after their output, and the source each reads
  InTree,            \* the outputs outside the directories is_watch_excluded drops
  Tokens, ActsOf,    \* requestable targets and their actions
  Clients,           \* connections; a closed one's name is used again
  Streaming,         \* the clients that use build.stream
  MayLeave,          \* the clients that may hang up
  Watching,          \* Server::new_watching (razeld) or Server::new (grazeld)
  Reverts,           \* whether an edit may bring an earlier content back
  MaxChanges, MaxBuilds,   \* bounds: edits and cleans together, build requests
  None

Files == Sources \cup {Shape}
Output(s, c) == [shape |-> s, src |-> c]
Ok(out) == [st |-> "ok", out |-> out]
Nobody == [client |-> None, token |-> None]
Err(e) == [st |-> e, out |-> << >>]

ASSUME ActorAssumption ==
  /\ Contents \subseteq Nat /\ 0 \in Contents \ Bad
  /\ LeafOf \in [Acts -> Sources] /\ ActsOf \in [Tokens -> SUBSET Acts]
  /\ MayLeave \subseteq Streaming
  /\ Watching \in BOOLEAN /\ Reverts \in BOOLEAN

(* What a build leaves, what the warm state keeps: `None` is none of them. *)
Manifests == [shape : Contents, src : Contents]
Analyses == [digest : Contents, token : Tokens, shape : Contents]
Builders == [token : Tokens, shape : Contents,
             leaf : UNION {[F -> Contents] : F \in SUBSET Sources}]

ASSUME SentinelAssumption ==
  None \notin Clients \cup Tokens \cup Manifests \cup Analyses \cup Builders

VARIABLES
  disk,       \* the source tree
  outfile,    \* the outputs in the exec root
  cache,      \* Cache: action key -> output
  events,     \* file-system events the watcher has not seen yet
  watcher,    \* the path notify_change has pushed, before it sets cancel
  pending, cancel, aborted, outputs,       \* ActorHandle's shared state
  inbox,      \* ActorMessages
  pc, job,    \* the actor thread, and the request it serves
  analysis,   \* Option<Analysis>
  builder,    \* Option<IncrementalBuilder>: target, shape and leaf digests
  memo, stale,   \* its action nodes: manifest, and whether a dep changed since
  digest, todo, flight, ran, remat, result,   \* locals of a build
  state,      \* the published BuildState
  conn, gone, lines, reply,   \* per client: thread, hung up, buffered progress
  cleaner,    \* `razel clean` between its RPC and its removal
  changes, builds, known, meddled   \* bounds and history

files == <<disk, outfile, cache>>
watch == <<events, watcher>>
flags == <<cancel, aborted>>
graph == <<analysis, builder, memo, stale, outputs>>
local == <<digest, todo, flight, ran, remat, result>>
clients == <<conn, gone, lines, reply>>
hist == <<changes, builds, known, meddled>>
vars == <<files, watch, pending, flags, inbox, pc, job, graph, local, state,
          clients, cleaner, hist>>

Init ==
  /\ disk = [f \in Files |-> 0]
  /\ outfile = [a \in Acts |-> None]
  /\ cache = << >>
  /\ events = {} /\ watcher = None
  /\ pending = {} /\ cancel = FALSE /\ aborted = FALSE /\ outputs = {}
  /\ inbox = <<>> /\ pc = "recv" /\ job = Nobody
  /\ analysis = None /\ builder = None
  /\ memo = [a \in Acts |-> None] /\ stale = {}
  /\ digest = None /\ todo = {} /\ flight = {} /\ ran = FALSE /\ remat = FALSE
  /\ result = Err("none")
  /\ state = [t \in Tokens |-> Err("none")]
  /\ conn = [c \in Clients |-> "closed"] /\ gone = [c \in Clients |-> FALSE]
  /\ lines = [c \in Clients |-> FALSE] /\ reply = [c \in Clients |-> Err("none")]
  /\ cleaner = None
  /\ changes = 0 /\ builds = 0 /\ known = disk /\ meddled = {}

-----------------------------------------------------------------------------
(* The world outside: a user edits files, clients come and go.  What is    *)
(* changed under a running attempt is noted.                               *)
Meddle(what) == meddled' = IF pc = "recv" THEN meddled ELSE meddled \cup {what}

Edit(f, v) ==
  /\ changes < MaxChanges /\ v # disk[f] /\ (Reverts \/ v > disk[f])
  /\ disk' = [disk EXCEPT ![f] = v]
  /\ events' = IF Watching THEN events \cup {f} ELSE events
  /\ changes' = changes + 1
  /\ Meddle("source")
  /\ UNCHANGED <<outfile, cache, watcher, pending, flags, inbox, pc, job, graph, local,
                 state, clients, cleaner, builds, known>>

(* build / build_streaming: enqueue and wait. *)
Request(c, t) ==
  /\ conn[c] = "closed" /\ job.client # c /\ \A i \in DOMAIN inbox : inbox[i].client # c
  /\ builds < MaxBuilds /\ builds' = builds + 1
  /\ inbox' = Append(inbox, [kind |-> "build", client |-> c, token |-> t])
  /\ conn' = [conn EXCEPT ![c] = "open"]
  /\ gone' = [gone EXCEPT ![c] = FALSE]
  /\ UNCHANGED <<files, watch, pending, flags, pc, job, graph, local, state,
                 lines, reply, cleaner, changes, known, meddled>>

Leave(c) ==
  /\ c \in MayLeave /\ conn[c] = "open" /\ ~gone[c]
  /\ gone' = [gone EXCEPT ![c] = TRUE]
  /\ UNCHANGED <<files, watch, pending, flags, inbox, pc, job, graph, local, state,
                 conn, lines, reply, cleaner, hist>>

(* stream_build forwards progress frames; a write to a client that is gone *)
(* may fail, and then cancel_build raises `aborted`, next `cancel`.        *)
Forward(c) ==
  /\ conn[c] = "open" /\ lines[c]
  /\ \/ lines' = [lines EXCEPT ![c] = FALSE] /\ UNCHANGED <<conn, aborted>>
     \/ /\ gone[c]
        /\ aborted' = TRUE
        /\ conn' = [conn EXCEPT ![c] = "cancelling"]
        /\ lines' = [lines EXCEPT ![c] = FALSE]
  /\ UNCHANGED <<files, watch, pending, cancel, inbox, pc, job, graph, local, state,
                 gone, reply, cleaner, hist>>

CancelBuild(c) ==
  /\ conn[c] = "cancelling"
  /\ cancel' = TRUE
  /\ conn' = [conn EXCEPT ![c] = "closed"]
  /\ UNCHANGED <<files, watch, pending, aborted, inbox, pc, job, graph, local, state,
                 gone, lines, reply, cleaner, hist>>

(* Progress drained and closed: the terminal result frame. *)
Answer(c) ==
  /\ conn[c] = "open" /\ ~lines[c] /\ reply[c].st # "none"
  /\ conn' = [conn EXCEPT ![c] = "closed"]
  /\ reply' = [reply EXCEPT ![c] = Err("none")]
  /\ UNCHANGED <<files, watch, pending, flags, inbox, pc, job, graph, local, state,
                 gone, lines, cleaner, hist>>

(* cmd_clean: tell the daemon, then remove the output tree (and, with      *)
(* --expunge, the cache).                                                  *)
CleanSend(kind) ==
  /\ cleaner = None /\ changes < MaxChanges
  /\ inbox' = Append(inbox, [kind |-> kind, client |-> None, token |-> None])
  /\ cleaner' = kind
  /\ changes' = changes + 1
  /\ UNCHANGED <<files, watch, pending, flags, pc, job, graph, local, state, clients,
                 builds, known, meddled>>

CleanRemove ==
  /\ cleaner # None
  /\ outfile' = [a \in Acts |-> IF a \in InTree THEN outfile[a] ELSE None]
  /\ cache' = IF cleaner = "invalidate" THEN << >> ELSE cache
  /\ cleaner' = None
  /\ Meddle("output")
  /\ UNCHANGED <<disk, watch, pending, flags, inbox, pc, job, graph, local, state,
                 clients, changes, builds, known>>

-----------------------------------------------------------------------------
(* The watcher thread: the daemon's own outputs are dropped; for any other *)
(* path notify_change pushes first and raises `cancel` after.              *)
NotifyPush(p) ==
  /\ p \in events /\ watcher = None
  /\ events' = events \ {p}
  /\ IF p \in outputs THEN UNCHANGED <<watcher, pending, known>>
     ELSE /\ pending' = pending \cup {p}
          /\ watcher' = p
          /\ known' = IF p \in Files THEN [known EXCEPT ![p] = disk[p]] ELSE known
  /\ UNCHANGED <<files, flags, inbox, pc, job, graph, local, state, clients, cleaner,
                 changes, builds, meddled>>

NotifyCancel ==
  /\ watcher # None
  /\ cancel' = TRUE
  /\ watcher' = None
  /\ UNCHANGED <<files, events, pending, aborted, inbox, pc, job, graph, local, state,
                 clients, cleaner, hist>>

-----------------------------------------------------------------------------
(* The actor thread: run, handle_build, build_once.                        *)
Goto(l) == pc' = l

Recv ==
  /\ pc = "recv" /\ inbox # <<>>
  /\ inbox' = Tail(inbox)
  /\ LET m == Head(inbox) IN
       \/ /\ m.kind = "build"
          /\ job' = [client |-> m.client, token |-> m.token] /\ Goto("reset")
          /\ UNCHANGED <<analysis, builder>>
       \/ /\ m.kind \in {"invalidate", "invalidate_execution"}
          /\ builder' = None
          /\ analysis' = IF m.kind = "invalidate" THEN None ELSE analysis
          /\ UNCHANGED <<pc, job>>
  /\ UNCHANGED <<files, watch, pending, flags, memo, stale, outputs, local, state,
                 clients, cleaner, hist>>

Token == job.token

(* handle_build's loop head: two stores. *)
ResetCancel ==
  /\ pc = "reset"
  /\ cancel' = FALSE /\ meddled' = {}
  /\ Goto("reset2")
  /\ UNCHANGED <<files, watch, pending, aborted, inbox, job, graph, local, state, clients,
                 cleaner, changes, builds, known>>

ResetAborted ==
  /\ pc = "reset2"
  /\ aborted' = FALSE
  /\ Goto("drain")
  /\ UNCHANGED <<files, watch, pending, cancel, inbox, job, graph, local, state, clients,
                 cleaner, hist>>

Leaves == IF builder = None THEN {} ELSE DOMAIN builder.leaf

(* sync_file: set_input bumps changed_at only when the digest differs. *)
sync_file(S) ==
  /\ builder' = IF builder = None THEN None
                ELSE [builder EXCEPT !.leaf = [f \in DOMAIN @ |-> IF f \in S THEN disk[f] ELSE @[f]]]
  /\ stale' = stale \cup {a \in Acts : LeafOf[a] \in S /\ disk[LeafOf[a]] # builder.leaf[LeafOf[a]]}

(* apply_pending_changes: a known leaf is re-digested, anything else drops *)
(* the analysis.                                                           *)
apply_pending_changes ==
  /\ pc = "drain"
  /\ pending' = {}
  /\ sync_file(pending \cap Leaves)
  /\ analysis' = IF pending \subseteq Leaves THEN analysis ELSE None
  /\ remat' = FALSE
  /\ Goto("digest")
  /\ UNCHANGED <<files, watch, flags, inbox, job, memo, outputs, digest, todo, flight, ran, result,
                 state, clients, cleaner, hist>>

Hit(d) == analysis # None /\ analysis.digest = d /\ analysis.token = Token

(* ensure_analysis: the digest, and the warm hit. *)
compute_analysis_digest ==
  /\ pc = "digest"
  /\ digest' = disk[Shape]
  /\ Goto(IF Hit(disk[Shape]) /\ builder # None THEN "engine" ELSE "analyze")
  /\ UNCHANGED <<files, watch, pending, flags, inbox, job, graph, todo, flight, ran, remat, result,
                 state, clients, cleaner, hist>>

(* Plausible bug: the watcher never learns what the outputs are. *)
configure_unpublished(shape) ==
  /\ builder' = [token |-> Token, shape |-> shape,
                 leaf |-> [f \in {LeafOf[a] : a \in ActsOf[Token]} |-> disk[f]]]
  /\ memo' = [a \in Acts |-> None] /\ stale' = {}
  /\ UNCHANGED outputs
  /\ Goto("engine")

(* configure_targets: fresh nodes, every leaf digested now. *)
configure_targets(shape) ==
  /\ builder' = [token |-> Token, shape |-> shape,
                 leaf |-> [f \in {LeafOf[a] : a \in ActsOf[Token]} |-> disk[f]]]
  /\ memo' = [a \in Acts |-> None] /\ stale' = {}
  /\ outputs' = ActsOf[Token]
  /\ Goto("engine")

(* ... the cold path: reuse the analysed targets, or analyse again.        *)
ensure_analysis ==
  /\ pc = "analyze" /\ digest' = None
  /\ \/ /\ Hit(digest)
        /\ configure_targets(analysis.shape)
        /\ UNCHANGED <<analysis, result>>
     \/ /\ ~Hit(digest) /\ disk[Shape] \notin Bad
        /\ configure_targets(disk[Shape])
        /\ analysis' = [digest |-> digest, token |-> Token, shape |-> disk[Shape]]
        /\ UNCHANGED result
     \/ /\ ~Hit(digest) /\ disk[Shape] \in Bad
        /\ result' = Err("failed") /\ Goto("abortcheck")
        /\ UNCHANGED graph
  /\ UNCHANGED <<files, watch, pending, flags, inbox, job, todo, flight, ran, remat,
                 state, clients, cleaner, hist>>

-----------------------------------------------------------------------------
(* IncrementalBuilder::build: the stale actions of the target, run by the  *)
(* engine's parallel evaluator.                                            *)
(* A closed connection's channels drop what is sent to them. *)
Progress ==
  LET c == job.client IN [lines EXCEPT ![c] = @ \/ (c \in Streaming /\ conn[c] = "open")]

BuildStart ==
  /\ pc = "engine"
  /\ todo' = {a \in ActsOf[Token] : memo[a] = None \/ a \in stale}
  /\ ran' = FALSE
  /\ lines' = Progress
  /\ Goto("loop")
  /\ UNCHANGED <<files, watch, pending, flags, inbox, job, graph, digest, flight, remat, result,
                 state, conn, gone, reply, cleaner, hist>>

(* The coordinator's loop: poll cancel, hand out what is ready, or finish. *)
(* A stop drops the tasks no worker has taken.                             *)
LoopTop ==
  /\ pc = "loop"
  /\ \/ /\ cancel
        /\ flight' \in SUBSET flight /\ todo' = {}
        /\ result' = Err("cancelled") /\ Goto("join")
     \/ /\ ~cancel /\ todo \cup flight # {}
        /\ flight' = flight \cup todo /\ todo' = {}
        /\ Goto("wait") /\ UNCHANGED result
     \/ /\ ~cancel /\ todo \cup flight = {}
        /\ Goto("produced") /\ UNCHANGED <<todo, flight, result>>
  /\ UNCHANGED <<files, watch, pending, flags, inbox, job, graph, digest, ran, remat, state,
                 clients, cleaner, hist>>

(* Plausible bug: the key leaves the BUILD files' part out. *)
content_key_source_only(a) == <<a, 0, builder.leaf[LeafOf[a]]>>

(* The action key: the command line, which the analysis made, and the      *)
(* input digests the graph holds.                                          *)
content_key(a) == <<a, builder.shape, builder.leaf[LeafOf[a]]>>

(* restore_or_run: a hit restores; a miss runs on what the files hold NOW  *)
(* and, if it succeeds, stores that under the key.                         *)
Cached(a) == content_key(a) \in DOMAIN cache
RunOutput(a) == IF Cached(a) THEN cache[content_key(a)]
                ELSE Output(builder.shape, disk[LeafOf[a]])
Succeeds(a) == Cached(a) \/ disk[LeafOf[a]] \notin Bad

restore_or_run(a) ==
  /\ outfile' = [outfile EXCEPT ![a] = RunOutput(a)]
  /\ cache' = [k \in {content_key(a)} \cup DOMAIN cache |->
                 IF k = content_key(a) THEN RunOutput(a) ELSE cache[k]]
  /\ events' = IF Watching THEN events \cup ({a} \cap InTree) ELSE events
  /\ UNCHANGED disk

ActionDone(a) ==
  /\ pc = "wait" /\ a \in flight /\ Succeeds(a)
  /\ restore_or_run(a)
  /\ memo' = [memo EXCEPT ![a] = RunOutput(a)]
  /\ stale' = stale \ {a}
  /\ ran' = (ran \/ ~Cached(a))
  /\ flight' = flight \ {a}
  /\ lines' = Progress
  /\ Goto("loop")
  /\ UNCHANGED <<watcher, pending, flags, inbox, job, analysis, builder, outputs, digest, todo,
                 remat, result, state, conn, gone, reply, cleaner, hist>>

ActionFailed(a) ==
  /\ pc = "wait" /\ a \in flight /\ ~Succeeds(a)
  /\ flight' \in SUBSET (flight \ {a})
  /\ result' = Err("failed")
  /\ lines' = Progress
  /\ Goto("join")
  /\ UNCHANGED <<files, watch, pending, flags, inbox, job, graph, digest, todo, ran, remat, state,
                 conn, gone, reply, cleaner, hist>>

(* Actions still running when the evaluator stops finish, unheard.         *)
Join ==
  /\ pc = "join"
  /\ \/ \E a \in flight :
          /\ flight' = flight \ {a}
          /\ IF Succeeds(a) THEN restore_or_run(a) ELSE UNCHANGED <<files, events>>
          /\ UNCHANGED pc
     \/ flight = {} /\ Goto("abortcheck") /\ UNCHANGED <<files, events, flight>>
  /\ UNCHANGED <<watcher, pending, flags, inbox, job, graph, digest, todo, ran, remat, result,
                 state, clients, cleaner, hist>>

Missing == \E a \in ActsOf[Token] : outfile[a] = None

(* Plausible bug: up-to-date is taken for present. *)
VerifyNothing ==
  /\ pc = "produced"
  /\ result' = IF cancel THEN Err("cancelled") ELSE Ok([a \in ActsOf[Token] |-> memo[a]])
  /\ Goto("abortcheck")
  /\ UNCHANGED <<files, watch, pending, flags, inbox, job, graph, digest, todo, flight,
                 ran, remat, state, clients, cleaner, hist>>

(* produced_outputs, which polls cancel once more, and the verification of *)
(* an "up-to-date" answer: once, a missing output resets the warm state.   *)
VerifyOutputs ==
  /\ pc = "produced"
  /\ \/ /\ cancel
        /\ result' = Err("cancelled") /\ Goto("abortcheck")
        /\ UNCHANGED <<builder, analysis, remat>>
     \/ /\ ~cancel /\ ~ran /\ ~remat /\ Missing
        /\ builder' = None /\ analysis' = None /\ remat' = TRUE
        /\ Goto("digest") /\ UNCHANGED result
     \/ /\ ~cancel /\ (ran \/ remat \/ ~Missing)
        /\ result' = Ok([a \in ActsOf[Token] |-> memo[a]])
        /\ Goto("abortcheck")
        /\ UNCHANGED <<builder, analysis, remat>>
  /\ UNCHANGED <<files, watch, pending, flags, inbox, job, memo, stale, outputs, digest, todo, flight,
                 ran, state, clients, cleaner, hist>>

(* The restart gate: aborted, then cancel, then pending under its lock.    *)
AbortCheck ==
  /\ pc = "abortcheck"
  /\ Goto(IF aborted THEN "commit" ELSE "cancelcheck")
  /\ UNCHANGED <<files, watch, pending, flags, inbox, job, graph, local, state, clients,
                 cleaner, hist>>

CancelCheck ==
  /\ pc = "cancelcheck"
  /\ Goto(IF result.st = "cancelled" \/ cancel THEN "reset" ELSE "pendingcheck")
  /\ UNCHANGED <<files, watch, pending, flags, inbox, job, graph, local, state, clients,
                 cleaner, hist>>

PendingCheck ==
  /\ pc = "pendingcheck"
  /\ Goto(IF pending # {} THEN "reset" ELSE "commit")
  /\ UNCHANGED <<files, watch, pending, flags, inbox, job, graph, local, state, clients,
                 cleaner, hist>>

(* The gate passed: publish a snapshot, if there is one, and answer. *)
commit_snapshot ==
  /\ pc = "commit"
  /\ state' = IF result.st = "ok" THEN [state EXCEPT ![Token] = result] ELSE state
  /\ reply' = [reply EXCEPT ![job.client] = IF conn[job.client] = "open" THEN result ELSE @]
  /\ result' = Err("none") /\ job' = Nobody
  /\ ran' = FALSE /\ remat' = FALSE /\ meddled' = {}
  /\ Goto("recv")
  /\ UNCHANGED <<files, watch, pending, flags, inbox, graph, digest, todo, flight,
                 conn, gone, lines, cleaner, changes, builds, known>>

-----------------------------------------------------------------------------
ActorStep ==
  \/ Recv \/ ResetCancel \/ ResetAborted \/ apply_pending_changes \/ compute_analysis_digest
  \/ ensure_analysis \/ BuildStart \/ LoopTop \/ Join \/ VerifyOutputs \/ AbortCheck
  \/ CancelCheck \/ PendingCheck \/ commit_snapshot
  \/ \E a \in Acts : ActionDone(a) \/ ActionFailed(a)

WatcherStep == NotifyCancel \/ \E p \in Files \cup Acts : NotifyPush(p)
ConnStep(c) == Forward(c) \/ CancelBuild(c) \/ Answer(c)

Next ==
  \/ ActorStep \/ WatcherStep \/ CleanRemove
  \/ \E c \in Clients : Leave(c) \/ ConnStep(c) \/ \E t \in Tokens : Request(c, t)
  \/ \E k \in {"invalidate", "invalidate_execution"} : CleanSend(k)
  \/ \E f \in Files, v \in Contents : Edit(f, v)

(* The threads run; users edit, ask, clean and leave when they like.       *)
Spec ==
  /\ Init /\ [][Next]_vars
  /\ WF_vars(ActorStep) /\ WF_vars(WatcherStep) /\ \A c \in Clients : WF_vars(ConnStep(c))

-----------------------------------------------------------------------------
IsResult(r) ==
  /\ r.st \in {"none", "ok", "failed", "cancelled"}
  /\ r.st = "ok" => \A a \in DOMAIN r.out : r.out[a].shape \in Contents /\ r.out[a].src \in Contents

(* Every variable has its type; no action runs outside the evaluator, and  *)
(* the actor builds for somebody exactly while it builds.                  *)
TypeOK ==
  /\ disk \in [Files -> Contents] /\ known \in [Files -> Contents]
  /\ \A a \in Acts : outfile[a] # None => outfile[a] \in [shape : Contents, src : Contents]
  /\ events \cup pending \subseteq Files \cup Acts /\ outputs \subseteq Acts
  /\ cancel \in BOOLEAN /\ aborted \in BOOLEAN /\ ran \in BOOLEAN /\ remat \in BOOLEAN
  /\ IsResult(result) /\ \A c \in Clients : IsResult(reply[c])
  /\ conn \in [Clients -> {"open", "cancelling", "closed"}]
  /\ todo \subseteq Acts /\ flight \subseteq Acts
  /\ flight # {} => pc \in {"loop", "wait", "join"}
  /\ pc = "recv" <=> job = Nobody

(* "A stale snapshot is never committed" (actor.rs:283): a result that     *)
(* passes the restart gate shows every edit whose path was pushed before   *)
(* it.  A hang-up skips the gate.  (For contents that only grow.)          *)
NoStaleCommit ==
  [][pc = "pendingcheck" /\ pc' = "commit" /\ result.st = "ok" =>
       \A a \in ActsOf[Token] : /\ result.out[a].src >= known[LeafOf[a]]
                                 /\ result.out[a].shape >= known[Shape]]_vars

(* What a build of the target from scratch gives. *)
Cold(t) ==
  IF disk[Shape] \in Bad \/ \E a \in ActsOf[t] : disk[LeafOf[a]] \in Bad THEN Err("failed")
  ELSE Ok([a \in ActsOf[t] |-> Output(disk[Shape], disk[LeafOf[a]])])

Quiet == (events \cup pending) \cap Files = {} /\ "source" \notin meddled

(* warm == cold (razel-engine lib.rs:181, rpc.rs:1086): with no change     *)
(* under way, a build that was not aborted answers what a cold build would,*)
(* after any history of edits, restarts, failures, target switches, cleans.*)
WarmEqualsCold ==
  [][commit_snapshot /\ Quiet /\ ~aborted => result = Cold(Token)]_vars

(* An "up-to-date" answer is true: nothing ran, and every output is in the *)
(* exec root as reported, unless it was removed during the attempt         *)
(* (actor.rs:379).                                                         *)
CachedIsOnDisk ==
  [][commit_snapshot /\ result.st = "ok" /\ ~ran /\ "output" \notin meddled =>
       \A a \in ActsOf[Token] : outfile[a] = result.out[a]]_vars

(* What run_with_restart commits is current, and what it reports as built  *)
(* or up to date is in the exec root.                                      *)
CommitsTrue == []TypeOK /\ NoStaleCommit /\ CachedIsOnDisk

(* Every request is answered once the edits stop: restarts end, the        *)
(* daemon's own writes do not cancel its builds (actor.rs:67), and a       *)
(* streaming client drains its progress before the result.                 *)
Answered == \A c \in Clients : conn[c] = "open" ~> conn[c] = "closed"
=============================================================================
