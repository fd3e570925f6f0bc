--------------------------- MODULE EngineParallel ---------------------------
(***************************************************************************)
(* Engine::request_parallel (razel-engine/src/lib.rs): one coordinator     *)
(* owns the graph, Jobs scoped worker threads run the closures, a task     *)
(* deque under a mutex with a condvar goes one way and an mpsc channel the *)
(* other.  The daemon's watcher may raise the cancel flag at any moment;   *)
(* set_input happens only between requests (one actor thread owns both).   *)
(***************************************************************************)
EXTENDS EngineState, SequencesExt

CONSTANTS
  Workers,   \* the `jobs` worker threads, at least two
  Targets,   \* keys the build asks for
  Broken,    \* actions whose closure always returns Err
  Flaky      \* actions whose closure may return Err or panic

ASSUME FiniteAssumption ==
  IsFiniteSet(Inputs) /\ IsFiniteSet(Derived) /\ IsFiniteSet(Workers)

Jobs == Cardinality(Workers)

NoErr == "none"
ASSUME NamesAssumption == {NoErr, "ok"} \cap Derived = {}

VARIABLES
  cpc,        \* coordinator: idle, loop, dispatch, recv, stop, join
  target,     \* the requested key
  pending,    \* unvalidated-dependency count of each node of the sub-DAG
  ready,      \* deque of nodes whose count reached zero
  done,       \* nodes validated by this request
  in_flight,  \* tasks handed out and not yet received back
  err,        \* the coordinator's err, NoErr while None
  recomputed, \* keys dispatched to a worker, in order (recomputes = length)
  tasks,      \* the shared task deque
  stopped,    \* the shared stop flag
  results,    \* the result channel
  wpc,        \* worker: off, check, parked, run, exited
  wtask,      \* the task a running worker holds
  cancel,     \* the cancellation flag shared with the watcher
  outcome,    \* what the last request returned
  before      \* the graph as the request found it (history)

coord == <<cpc, target, pending, ready, done, in_flight, err, recomputed>>
pool == <<tasks, stopped, results, wpc, wtask>>
vars == <<graph, coord, pool, cancel, outcome, before>>

NoTask == [key |-> "none", dvs |-> <<>>]
Graph == [value |-> value, verified_at |-> verified_at,
          changed_at |-> changed_at, revision |-> revision]

-----------------------------------------------------------------------------
(* Collecting the sub-DAG (the iterative DFS with its Doing/Done marks). *)

(* The DFS stops at the first unknown key or back edge it meets. *)
CollectErrors(t) ==
  {"unknown" : k \in ReachFrom(t) \ Keys} \cup
  {"cycle" : k \in {c \in ReachFrom(t) : OnCycle(c)}}

(* How often d occurs in the deps of r: one rdeps entry per edge. *)
Edges(d, r) == Cardinality({i \in DOMAIN DepsOf(r) : DepsOf(r)[i] = d})

Init ==
  /\ GraphInit
  /\ cpc = "idle" /\ target \in Targets
  /\ pending = << >> /\ ready = <<>> /\ done = {} /\ in_flight = 0
  /\ err = NoErr /\ recomputed = <<>>
  /\ tasks = <<>> /\ stopped = FALSE /\ results = <<>>
  /\ wpc = [w \in Workers |-> "off"]
  /\ wtask = [w \in Workers |-> NoTask]
  /\ cancel = FALSE /\ outcome = NoErr /\ before = Graph

(* Between requests the actor feeds edited inputs to the graph. *)
SetInput(k, v) ==
  /\ cpc = "idle"
  /\ revision < MaxRev
  /\ set_input(k, v)
  /\ outcome' = NoErr
  /\ UNCHANGED <<coord, pool, cancel, before>>

(* A request that the collection phase refuses, before any worker exists. *)
StartRefused(t) ==
  /\ cpc = "idle"
  /\ \E e \in CollectErrors(t) : outcome' = e
  /\ target' = t
  /\ before' = Graph
  /\ recomputed' = <<>>
  /\ cancel' = FALSE
  /\ UNCHANGED <<graph, pool, cpc, pending, ready, done, in_flight, err>>

(* The collected tables, the empty pool and the scoped workers.  The order *)
(* of the first ready nodes is a HashMap's iteration order.                *)
Start(t) ==
  /\ cpc = "idle"
  /\ CollectErrors(t) = {}
  /\ target' = t
  /\ pending' = [k \in ReachFrom(t) |-> Len(DepsOf(k))]
  /\ ready' \in SetToSeqs({k \in ReachFrom(t) : DepsOf(k) = <<>>})
  /\ done' = {} /\ in_flight' = 0 /\ err' = NoErr /\ recomputed' = <<>>
  /\ tasks' = <<>> /\ stopped' = FALSE /\ results' = <<>>
  /\ wpc' = [w \in Workers |-> "check"]
  /\ wtask' = [w \in Workers |-> NoTask]
  /\ cancel' = FALSE /\ outcome' = NoErr /\ before' = Graph
  /\ cpc' = "loop"
  /\ UNCHANGED graph

-----------------------------------------------------------------------------
(* The coordinator loop. *)

LoopTop ==
  /\ cpc = "loop"
  /\ IF target \in done
     THEN cpc' = "stop" /\ UNCHANGED err
     ELSE IF cancel
          THEN cpc' = "stop" /\ err' = "cancelled"
          ELSE cpc' = "dispatch" /\ UNCHANGED err
  /\ UNCHANGED <<graph, pool, cancel, outcome, before, target, pending, ready,
                 done, in_flight, recomputed>>

(* Plausible bug: a duplicated dependency is relaxed once, not per edge. *)
relax_once_per_dependent(k, rest) ==
  LET now == [r \in DOMAIN pending |->
                pending[r] - (IF Edges(k, r) > 0 THEN 1 ELSE 0)]
  IN  /\ done' = done \cup {k}
      /\ pending' = now
      /\ \E s \in SetToSeqs({r \in DOMAIN pending : now[r] = 0 /\ Edges(k, r) > 0}) :
           ready' = rest \o s

(* relax_dependents: k is validated; each edge k -> r lowers pending[r],   *)
(* and the nodes that reach zero join the deque.                           *)
relax_dependents(k, rest) ==
  LET now == [r \in DOMAIN pending |-> pending[r] - Edges(k, r)]
  IN  /\ done' = done \cup {k}
      /\ pending' = now
      /\ \E s \in SetToSeqs({r \in DOMAIN pending : now[r] = 0 /\ Edges(k, r) > 0}) :
           ready' = rest \o s

(* Condvar::notify_one: wakes one waiter, if there is one. *)
notify_one ==
  IF \E w \in Workers : wpc[w] = "parked"
  THEN \E w \in Workers : wpc[w] = "parked" /\ wpc' = [wpc EXCEPT ![w] = "check"]
  ELSE UNCHANGED wpc

(* Inputs and cutoffs are validated inline, without a worker.  The code's  *)
(* `if done.contains(&k) { continue }` never fires: see ReadyOnce.         *)
DispatchInline ==
  /\ cpc = "dispatch" /\ in_flight < Jobs /\ ready # <<>>
  /\ Cutoff(Head(ready))
  /\ Backdate(Head(ready))
  /\ relax_dependents(Head(ready), Tail(ready))
  /\ UNCHANGED <<pool, cpc, target, in_flight, err, recomputed, cancel, outcome, before>>

DispatchTask ==
  /\ cpc = "dispatch" /\ in_flight < Jobs /\ ready # <<>>
  /\ LET k == Head(ready) IN
       /\ ~Cutoff(k)
       /\ recomputed' = Append(recomputed, k)
       /\ tasks' = Append(tasks, [key |-> k, dvs |-> DepValues(k)])
  /\ notify_one
  /\ ready' = Tail(ready)
  /\ in_flight' = in_flight + 1
  /\ UNCHANGED <<graph, stopped, results, wtask, cpc, target, pending, done, err,
                 cancel, outcome, before>>

(* Nothing left to hand out: wait for a result, or stop if none can come. *)
DispatchEnd ==
  /\ cpc = "dispatch"
  /\ in_flight = Jobs \/ ready = <<>>
  /\ IF in_flight = 0
     THEN /\ cpc' = "stop"
          /\ err' = IF target \in done THEN err ELSE "cycle"
     ELSE cpc' = "recv" /\ UNCHANGED err
  /\ UNCHANGED <<graph, pool, cancel, outcome, before, target, pending, ready,
                 done, in_flight, recomputed>>

(* Plausible bug: the firewall test is lost. *)
RecvOkAlwaysChanged ==
  /\ cpc = "recv" /\ results # <<>> /\ Head(results).ok
  /\ LET k == Head(results).key IN
       /\ value' = [value EXCEPT ![k] = Head(results).val]
       /\ changed_at' = [changed_at EXCEPT ![k] = revision]
       /\ verified_at' = [verified_at EXCEPT ![k] = revision]
       /\ UNCHANGED revision
  /\ relax_dependents(Head(results).key, ready)
  /\ results' = Tail(results)
  /\ in_flight' = in_flight - 1
  /\ cpc' = "loop"
  /\ UNCHANGED <<tasks, stopped, wpc, wtask, target, err, recomputed, cancel, outcome, before>>

RecvOk ==
  /\ cpc = "recv" /\ results # <<>> /\ Head(results).ok
  /\ Store(Head(results).key, Head(results).val)
  /\ relax_dependents(Head(results).key, ready)
  /\ results' = Tail(results)
  /\ in_flight' = in_flight - 1
  /\ cpc' = "loop"
  /\ UNCHANGED <<tasks, stopped, wpc, wtask, target, err, recomputed, cancel, outcome, before>>

RecvErr ==
  /\ cpc = "recv" /\ results # <<>> /\ ~Head(results).ok
  /\ err' = Head(results).key
  /\ results' = Tail(results)
  /\ in_flight' = in_flight - 1
  /\ cpc' = "stop"
  /\ UNCHANGED <<graph, tasks, stopped, wpc, wtask, target, pending, ready, done,
                 recomputed, cancel, outcome, before>>

(* Clear the deque, raise the flag, notify_all. *)
StopPool ==
  /\ cpc = "stop"
  /\ tasks' = <<>>
  /\ stopped' = TRUE
  /\ wpc' = [w \in Workers |-> IF wpc[w] = "parked" THEN "check" ELSE wpc[w]]
  /\ cpc' = "join"
  /\ UNCHANGED <<graph, results, wtask, target, pending, ready, done, in_flight,
                 err, recomputed, cancel, outcome, before>>

(* thread::scope returns once every worker has exited. *)
Join ==
  /\ cpc = "join"
  /\ \A w \in Workers : wpc[w] = "exited"
  /\ outcome' = IF err = NoErr THEN "ok" ELSE err
  /\ cpc' = "idle"
  /\ wpc' = [w \in Workers |-> "off"]
  /\ UNCHANGED <<graph, target, pending, ready, done, in_flight, err, recomputed,
                 tasks, stopped, results, wtask, cancel, before>>

-----------------------------------------------------------------------------
(* A worker thread. *)

TakeTask(w) ==
  /\ wpc[w] = "check"
  /\ tasks # <<>>
  /\ wtask' = [wtask EXCEPT ![w] = Head(tasks)]
  /\ tasks' = Tail(tasks)
  /\ wpc' = [wpc EXCEPT ![w] = "run"]
  /\ UNCHANGED <<graph, coord, stopped, results, cancel, outcome, before>>

(* cv.wait: the empty deque is seen and left under the same mutex. *)
Park(w) ==
  /\ wpc[w] = "check"
  /\ tasks = <<>> /\ ~stopped
  /\ wpc' = [wpc EXCEPT ![w] = "parked"]
  /\ UNCHANGED <<graph, coord, tasks, stopped, results, wtask, cancel, outcome, before>>

SpuriousWakeup(w) ==
  /\ wpc[w] = "parked"
  /\ wpc' = [wpc EXCEPT ![w] = "check"]
  /\ UNCHANGED <<graph, coord, tasks, stopped, results, wtask, cancel, outcome, before>>

ExitWorker(w) ==
  /\ wpc[w] = "check"
  /\ tasks = <<>> /\ stopped
  /\ wpc' = [wpc EXCEPT ![w] = "exited"]
  /\ UNCHANGED <<graph, coord, tasks, stopped, results, wtask, cancel, outcome, before>>

CanReturn(k) == IF k \in Broken THEN {FALSE} ELSE IF k \in Flaky THEN BOOLEAN ELSE {TRUE}

(* Plausible bug: a panic kills the worker instead of becoming an Err. *)
RunTaskUncaught(w) ==
  /\ wpc[w] = "run"
  /\ \E ok \in CanReturn(wtask[w].key) :
       IF ok
       THEN /\ results' = Append(results, [key |-> wtask[w].key, ok |-> TRUE,
                                  val |-> Compute(wtask[w].key, wtask[w].dvs)])
            /\ wpc' = [wpc EXCEPT ![w] = "check"]
       ELSE wpc' = [wpc EXCEPT ![w] = "exited"] /\ UNCHANGED results
  /\ wtask' = [wtask EXCEPT ![w] = NoTask]
  /\ UNCHANGED <<graph, coord, tasks, stopped, cancel, outcome, before>>

(* Run the closure and send what it returned; a panic is caught and sent   *)
(* as an Err like any other.                                               *)
RunTask(w) ==
  /\ wpc[w] = "run"
  /\ \E ok \in CanReturn(wtask[w].key) :
       results' = Append(results,
         [key |-> wtask[w].key, ok |-> ok,
          val |-> IF ok THEN Compute(wtask[w].key, wtask[w].dvs) ELSE NoValue])
  /\ wtask' = [wtask EXCEPT ![w] = NoTask]
  /\ wpc' = [wpc EXCEPT ![w] = "check"]
  /\ UNCHANGED <<graph, coord, tasks, stopped, cancel, outcome, before>>

(* The watcher thread raises the flag while a build runs. *)
RaiseCancel ==
  /\ cpc # "idle" /\ ~cancel
  /\ cancel' = TRUE
  /\ UNCHANGED <<graph, coord, pool, outcome, before>>

-----------------------------------------------------------------------------
Coordinator ==
  \/ LoopTop \/ DispatchInline \/ DispatchTask \/ DispatchEnd
  \/ RecvOk \/ RecvErr \/ StopPool \/ Join

Worker(w) == TakeTask(w) \/ Park(w) \/ ExitWorker(w) \/ RunTask(w)

Next ==
  \/ \E k \in Inputs, v \in Values : SetInput(k, v)
  \/ \E t \in Targets : StartRefused(t) \/ Start(t)
  \/ Coordinator
  \/ \E w \in Workers : Worker(w) \/ SpuriousWakeup(w)
  \/ RaiseCancel

(* The scheduler runs every thread that can run: the coordinator and each  *)
(* worker are weakly fair; callers, watcher and spurious wakeups are not.  *)
Spec ==
  /\ Init /\ [][Next]_vars
  /\ WF_vars(Coordinator)
  /\ \A w \in Workers : WF_vars(Worker(w))

-----------------------------------------------------------------------------
Task == [key : Derived, dvs : Seq(Values)]
Result == [key : Derived, ok : BOOLEAN, val : Values \cup {NoValue}]

TypeOK ==
  /\ GraphTypeOK /\ InputsValued
  /\ cpc \in {"idle", "loop", "dispatch", "recv", "stop", "join"}
  /\ target \in Targets
  /\ DOMAIN pending \subseteq Keys
  /\ ready \in Seq(Keys) /\ done \subseteq Keys /\ in_flight \in 0..Jobs
  /\ recomputed \in Seq(Derived)
  /\ tasks \in Seq(Task) /\ results \in Seq(Result)
  /\ stopped \in BOOLEAN /\ cancel \in BOOLEAN
  /\ wpc \in [Workers -> {"off", "check", "parked", "run", "exited"}]
  /\ wtask \in [Workers -> Task \cup {NoTask}]

Running == {w \in Workers : wpc[w] = "run"}

(* pending[k] counts exactly the dependency edges of k whose target is not *)
(* validated yet, duplicates included: it reaches zero once, and never     *)
(* wraps below it (`*p -= 1` on a usize).                                  *)
PendingExact ==
  \A k \in DOMAIN pending :
    pending[k] = Cardinality({i \in DOMAIN DepsOf(k) : DepsOf(k)[i] \notin done})

(* Whatever has been scheduled has no unvalidated dependency, and done is  *)
(* what the graph calls validated.                                         *)
Unblocked ==
  /\ \A k \in Range(ready) \cup Range(recomputed) \cup done :
       k \in DOMAIN pending /\ pending[k] = 0
  /\ \A k \in done : Validated(k)

(* A node waits in the deque at most once and never after its validation,  *)
(* and no node is handed to two workers: each action's sandbox mutex is    *)
(* uncontended ("the engine never runs one node concurrently with itself", *)
(* incremental.rs:185).                                                    *)
ReadyOnce ==
  /\ IsInjective(ready)
  /\ IsInjective(recomputed)
  /\ Range(ready) \cap (done \cup Range(recomputed)) = {}

(* What a worker was given, or has answered, is still what the graph would *)
(* compute: nobody touches the node or its dependencies meanwhile.         *)
Open(k) == k \in Range(recomputed) \ done /\ ~Cutoff(k)
TaskTrue(t) == Open(t.key) /\ t.dvs = DepValues(t.key)
ResultTrue(r) == Open(r.key) /\ (r.ok => r.val = Compute(r.key, DepValues(r.key)))
JobsTrue ==
  /\ \A i \in DOMAIN tasks : TaskTrue(tasks[i])
  /\ \A w \in Running : TaskTrue(wtask[w])
  /\ \A i \in DOMAIN results : ResultTrue(results[i])

(* A dispatched node is queued, or held by one worker, or answered.        *)
KeysOnce(s) == \A i, j \in DOMAIN s : s[i].key = s[j].key => i = j
JobsOnce ==
  /\ KeysOnce(tasks) /\ KeysOnce(results)
  /\ \A v, w \in Running : wtask[v].key = wtask[w].key => v = w
  /\ \A i \in DOMAIN tasks, w \in Running : tasks[i].key # wtask[w].key
  /\ \A i \in DOMAIN tasks, j \in DOMAIN results : tasks[i].key # results[j].key
  /\ \A w \in Running, j \in DOMAIN results : wtask[w].key # results[j].key

(* in_flight is the number of tasks queued, running or answered: the       *)
(* coordinator blocks in recv() only when an answer will come.             *)
InFlightExact ==
  cpc \in {"loop", "dispatch", "recv"} =>
    in_flight = Len(tasks) + Cardinality(Running) + Len(results)

(* When request_parallel returns no closure of it is still running: the    *)
(* caller may touch the graph and the exec root again.                     *)
ReturnsQuiescent ==
  /\ cpc \in {"join", "idle"} => tasks = <<>>
  /\ cpc = "idle" => \A w \in Workers : wpc[w] = "off"

(* The evaluator's books: edge counts, the ready deque, the tasks in       *)
(* flight and the pool's end are exact whatever fails or is cancelled.     *)
BooksTrue ==
  /\ TypeOK
  /\ cpc # "idle" => PendingExact /\ Unblocked /\ ReadyOnce /\ JobsTrue /\ JobsOnce
  /\ InFlightExact
  /\ ReturnsQuiescent

(* What the serial `request` recomputes from the graph `before`. *)
SerialChangedAt ==
  LET b == before
      cold == Cold(ReachFrom(target))
      c[k \in ReachFrom(target)] ==
        IF k \in Inputs THEN b.changed_at[k]
        ELSE IF b.value[k] # NoValue
                 /\ \/ b.verified_at[k] = b.revision
                    \/ \A d \in DepSet(k) : c[d] <= b.verified_at[k]
             THEN b.changed_at[k]
             ELSE IF cold[k] # b.value[k] THEN b.revision ELSE b.changed_at[k]
  IN  c

SerialWork ==
  {k \in Derived \cap ReachFrom(target) :
     \/ before.value[k] = NoValue
     \/ /\ before.verified_at[k] # before.revision
        /\ \E d \in DepSet(k) : SerialChangedAt[d] > before.verified_at[k]}

(* A successful request_parallel runs exactly the actions the serial       *)
(* request would run, each once ("the SAME recompute set", lib.rs:280),    *)
(* and returns what a build from scratch would ("warm == cold",            *)
(* lib.rs:181), after any history of edits, cancellations and failures.    *)
SameAsSerial ==
  cpc = "idle" /\ outcome = "ok" =>
    Range(recomputed) = SerialWork /\ value[target] = Cold(ReachFrom(target))[target]

(* Every request returns: no hang on a cycle, an error, a panic, a cancel  *)
(* or a lost wakeup.                                                       *)
Returns == cpc # "idle" ~> cpc = "idle"

Abs == INSTANCE IncrementalGraph WITH
         revision <- revision, value <- value, changed_at <- changed_at, verified_at <- verified_at

(* request_parallel implements the one-node-at-a-time graph: whatever the  *)
(* workers overlap, each node is validated after its dependencies, once    *)
(* per revision (lib.rs:280).                                              *)
Refines == Abs!Spec
=============================================================================
