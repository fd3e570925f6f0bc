----------------------------- MODULE WaitGraph -----------------------------
(***************************************************************************)
(* Loading a package tree with a pool of workers: the single-flight wait   *)
(* graph (razel-loading/src/state/sched.rs, wait.rs) and the code that     *)
(* drives it, which is load_package_mode, the .bzl loader, the demand for  *)
(* a declaration (ensure_analyzed) and drive_tree with its restart rounds. *)
(*                                                                         *)
(* What an evaluation does is its Program: a package loads modules and     *)
(* packages and declares targets, a module loads, a declaration needs other*)
(* declarations.  The graph is behind one mutex, so one locked section is  *)
(* one action; everything between two locked sections interleaves.         *)
(***************************************************************************)
EXTENDS Integers, Sequences, FiniteSets, SequencesExt

CONSTANTS
  Workers, Main,       \* the pool's threads and drive_tree's own
  Pkgs, Bzls, Decls,
  PkgOf,               \* the package of each declaration
  Entries,             \* the packages drive_tree is given
  Workspaces,          \* what may be loaded, and how: see below
  MaxTakeovers,        \* how often the 20s wait may time out
  None

Threads == Workers \cup {Main}
Keys == Pkgs \cup Bzls \cup Decls

Steps == [op : {"load"}, key : Pkgs \cup Bzls] \cup [op : {"declare", "need"}, key : Decls]

ASSUME ProgramAssumption ==
  /\ \A w \in Workspaces : /\ w.program \in [Keys -> Seq(Steps)] /\ w.may_fail \subseteq Keys
                            /\ w.timeouts \in BOOLEAN /\ w.pool \subseteq Workers
  /\ Pkgs \cap Bzls = {} /\ Pkgs \cap Decls = {} /\ Bzls \cap Decls = {}
  /\ PkgOf \in [Decls -> Pkgs]
  /\ Entries \in Seq(Pkgs)
  /\ Main \notin Workers
  /\ None \notin Keys \cup Threads
  /\ MaxTakeovers \in Nat

VARIABLES
  res,        \* WaitGraph.res: Absent, InFlight(t), Done or Failed
  waiting,    \* WaitGraph.waiting: the key a parked thread is blocked on
  live,       \* WaitGraph.live: concurrent evaluations per key
  cached,     \* bzl_cache: how often a module was inserted (0 = absent)
  pending,    \* Session.pending: declared, not yet analysed
  harvested,  \* deferred_index: declarations of a frozen package
  results,    \* declarations with a row
  stack,      \* per thread: the evaluations on its call stack
  mode,       \* per thread: idle run acquire precheck parked purge ok err done
  want,       \* per thread: the key being acquired
  entry,      \* per thread: index of the entry being loaded
  partial,    \* per thread: partial reads since the entry began
  next,       \* drive_tree's queue index
  verdict,    \* drive_tree's results
  round, still, progressed,   \* the restart rounds
  takeovers,  \* timeout takeovers so far (bound)
  workspace   \* the workspace being loaded; it never changes

graph == <<res, waiting, live>>
session == <<cached, pending, harvested, results>>
driver == <<entry, next, verdict, round, still, progressed>>
hist == <<takeovers, workspace>>
vars == <<graph, session, stack, mode, want, partial, driver, hist>>

Program == workspace.program    \* the steps of each evaluation
MayFail == workspace.may_fail   \* keys whose evaluation may fail of itself
Timeouts == workspace.timeouts  \* whether a wait may time out

InFlight(t) == [st |-> "inflight", owner |-> t]
Absent == [st |-> "none"]
Done == [st |-> "done"]
Failed == [st |-> "failed"]
Owned(k) == res[k].st = "inflight"

Load(k) == [op |-> "load", key |-> k]
Declare(d) == [op |-> "declare", key |-> d]
Need(d) == [op |-> "need", key |-> d]

(* An evaluation on a thread's stack.  `slots` is a package's DeclStore:   *)
(* declared and not yet taken; `stage` is how far a need has got.          *)
Frame(k, drive) ==
  [key |-> k, ip |-> 1, drive |-> drive, slots |-> {}, stage |-> "look", failed |-> FALSE]

Init ==
  /\ res = [k \in Keys |-> Absent]
  /\ waiting = [t \in Threads |-> None]
  /\ live = [k \in Keys |-> 0]
  /\ cached = [b \in Bzls |-> 0]
  /\ pending = {} /\ harvested = {} /\ results = {}
  /\ stack = [t \in Threads |-> <<>>]
  /\ workspace \in Workspaces
  /\ mode = [t \in Threads |-> IF t \in workspace.pool \cup {Main} THEN "idle" ELSE "done"]
  /\ want = [t \in Threads |-> None]
  /\ entry = [t \in Threads |-> 0]
  /\ partial = [t \in Threads |-> FALSE]
  /\ next = 1
  /\ verdict = [i \in DOMAIN Entries |-> "none"]
  /\ round = {} /\ still = {} /\ progressed = TRUE
  /\ takeovers = 0

-----------------------------------------------------------------------------
(* An evaluation runs its program.  An entry load then drives what it      *)
(* declared (phase 2 of eval_build_src_inner), a dependency load leaves    *)
(* that to the harvest.                                                    *)
Declared(k) == SelectSeq(Program[k], LAMBDA s : s.op = "declare")

Top(t) == Last(stack[t])
StepAt(f) == Program[f.key][f.ip]
Step(t) == StepAt(Top(t))
Past(f) == f.ip > Len(Program[f.key])
AtEnd(t) ==
  Past(Top(t)) /\ (Top(t).drive => Top(t).ip > Len(Program[Top(t).key]) + Len(Declared(Top(t).key)))
Running(t) == mode[t] = "run" /\ ~Top(t).failed
At(t, op) == Running(t) /\ ~Past(Top(t)) /\ Step(t).op = op

ReplaceTop(s, f) == Append(Front(s), f)
Moved(f) == [f EXCEPT !.ip = @ + 1, !.stage = "look"]

(* What the caller on stack s makes of the end of k: a package loaded for  *)
(* a need is looked at again, any other success moves on, any other        *)
(* failure is the caller's own.                                            *)
Looked(f, ok) ==
  [f EXCEPT !.stage = IF @ = "waited" THEN "again" ELSE IF ok THEN "loaded" ELSE "loaderr"]
Returned(s, k, ok) ==
  IF s = <<>> THEN s
  ELSE LET f == Last(s) IN
       ReplaceTop(s, IF k \in Pkgs /\ StepAt(f).op = "need" THEN Looked(f, ok)
                     ELSE IF ok THEN Moved(f) ELSE [f EXCEPT !.failed = TRUE])
ModeAfter(s, ok) == IF s # <<>> THEN "run" ELSE IF ok THEN "ok" ELSE "err"

Return(t, s, k, ok) ==
  /\ stack' = [stack EXCEPT ![t] = Returned(s, k, ok)]
  /\ want' = [want EXCEPT ![t] = None]

notify_all(m) == [u \in Threads |-> IF m[u] = "parked" THEN "acquire" ELSE m[u]]
Acquire(t, k) ==
  /\ mode' = [mode EXCEPT ![t] = "acquire"]
  /\ want' = [want EXCEPT ![t] = k]

-----------------------------------------------------------------------------
(* drive_tree.  A worker takes the next entry or leaves; a failed entry    *)
(* that consumed partial state is kept for the restart rounds, which the   *)
(* driver runs alone until a round makes no progress.                      *)
NextEntry(t) ==
  /\ t \in Workers /\ mode[t] = "idle"
  /\ IF next <= Len(Entries)
     THEN /\ Acquire(t, Entries[next])
          /\ entry' = [entry EXCEPT ![t] = next]
          /\ next' = next + 1
     ELSE /\ mode' = [mode EXCEPT ![t] = "done"]
          /\ UNCHANGED <<want, entry, next>>
  /\ UNCHANGED <<graph, session, stack, partial, verdict, round, still, progressed, hist>>

(* Plausible bug: a failed entry's error is final. *)
EntryDoneFinal(t) ==
  /\ t \in Workers /\ mode[t] \in {"ok", "err"}
  /\ verdict' = [verdict EXCEPT ![entry[t]] = mode[t]]
  /\ partial' = [partial EXCEPT ![t] = FALSE]
  /\ mode' = [mode EXCEPT ![t] = "idle"]
  /\ UNCHANGED <<graph, session, stack, want, entry, next, round, still, progressed, hist>>

EntryDone(t) ==
  /\ t \in Workers /\ mode[t] \in {"ok", "err"}
  /\ verdict' = [verdict EXCEPT ![entry[t]] = mode[t]]
  /\ still' = IF mode[t] = "err" /\ partial[t] THEN still \cup {entry[t]} ELSE still
  /\ partial' = [partial EXCEPT ![t] = FALSE]
  /\ mode' = [mode EXCEPT ![t] = "idle"]
  /\ UNCHANGED <<graph, session, stack, want, entry, next, round, progressed, hist>>

PoolDrained == \A t \in Workers : mode[t] = "done"

Restart ==
  /\ PoolDrained /\ mode[Main] = "idle"
  /\ \/ \E i \in round :
          /\ \A j \in round : i <= j
          /\ Acquire(Main, Entries[i])
          /\ entry' = [entry EXCEPT ![Main] = i]
          /\ round' = round \ {i}
          /\ UNCHANGED <<still, progressed>>
     \/ /\ round = {} /\ still # {} /\ progressed
        /\ round' = still /\ still' = {} /\ progressed' = FALSE
        /\ UNCHANGED <<mode, want, entry>>
     \/ /\ round = {} /\ (still = {} \/ ~progressed)
        /\ mode' = [mode EXCEPT ![Main] = "done"]
        /\ UNCHANGED <<want, entry, round, still, progressed>>
  /\ UNCHANGED <<graph, session, stack, partial, next, verdict, hist>>

(* Plausible bug: a retry that fails again counts as progress. *)
RestartDoneAgain ==
  /\ mode[Main] \in {"ok", "err"}
  /\ verdict' = [verdict EXCEPT ![entry[Main]] = mode[Main]]
  /\ progressed' = TRUE
  /\ still' = IF mode[Main] = "err" THEN still \cup {entry[Main]} ELSE still
  /\ mode' = [mode EXCEPT ![Main] = "idle"]
  /\ UNCHANGED <<graph, session, stack, want, partial, entry, next, round, hist>>

RestartDone ==
  /\ mode[Main] \in {"ok", "err"}
  /\ verdict' = [verdict EXCEPT ![entry[Main]] = mode[Main]]
  /\ progressed' = (progressed \/ mode[Main] = "ok")
  /\ still' = IF mode[Main] = "err" THEN still \cup {entry[Main]} ELSE still
  /\ mode' = [mode EXCEPT ![Main] = "idle"]
  /\ UNCHANGED <<graph, session, stack, want, partial, entry, next, round, hist>>

-----------------------------------------------------------------------------
(* A load() or a select() condition: a cached module is used as it is,     *)
(* anything else is acquired.                                              *)
LoadStep(t) ==
  /\ At(t, "load")
  /\ LET k == Step(t).key IN
       IF k \in Bzls /\ cached[k] > 0
       THEN stack' = [stack EXCEPT ![t] = Returned(@, k, TRUE)] /\ UNCHANGED <<mode, want>>
       ELSE Acquire(t, k) /\ UNCHANGED stack
  /\ UNCHANGED <<graph, session, partial, driver, hist>>

DeclareStep(t) ==
  /\ At(t, "declare")
  /\ LET d == Step(t).key
         f == [Top(t) EXCEPT !.slots = @ \cup {d}]
     IN  /\ pending' = pending \cup {d}
         /\ stack' = [stack EXCEPT ![t] = ReplaceTop(@, Moved(f))]
  /\ UNCHANGED <<graph, cached, harvested, results, mode, want, partial, driver, hist>>

Fails(t) == stack' = [stack EXCEPT ![t] = ReplaceTop(@, [Last(@) EXCEPT !.failed = TRUE])]
MovesOn(t) == stack' = [stack EXCEPT ![t] = ReplaceTop(@, Moved(Last(@)))]

(* The package frame whose DeclStore the running evaluator has. *)
StoreAt(t) ==
  LET pkgs == {i \in DOMAIN stack[t] : stack[t][i].key \in Pkgs}
  IN  CHOOSE i \in pkgs : \A j \in pkgs : j <= i
LocalPending(t, d) == d \in pending /\ d \in stack[t][StoreAt(t)].slots
Analyzing(t) == {stack[t][i].key : i \in DOMAIN stack[t]} \cap Decls

(* analyze_decl: take the slot and analyse it, unless this thread already  *)
(* is ("dependency cycle detected").                                       *)
analyze_decl(t, d) ==
  LET taken == [stack[t] EXCEPT ![StoreAt(t)].slots = @ \ {d}]
  IN  IF d \in Analyzing(t)
      THEN /\ stack' = [stack EXCEPT ![t] = ReplaceTop(taken, [Last(taken) EXCEPT !.failed = TRUE])]
           /\ UNCHANGED pending
      ELSE /\ stack' = [stack EXCEPT ![t] = Append(taken, Frame(d, FALSE))]
           /\ pending' = pending \ {d}

(* drive_decls: analyse the slot unless a demand already took it. *)
DriveStep(t) ==
  /\ Running(t) /\ Past(Top(t)) /\ ~AtEnd(t)
  /\ LET d == Declared(Top(t).key)[Top(t).ip - Len(Program[Top(t).key])].key IN
       IF d \in Top(t).slots THEN analyze_decl(t, d)
       ELSE MovesOn(t) /\ UNCHANGED pending
  /\ UNCHANGED <<graph, cached, harvested, results, mode, want, partial, driver, hist>>

(* ensure_analyzed up to the load of the declaration's package. *)
NeedLook(t) ==
  /\ At(t, "need") /\ Top(t).stage = "look"
  /\ LET d == Step(t).key IN
       \/ d \in results /\ MovesOn(t) /\ UNCHANGED <<pending, mode, want>>
       \/ d \notin results /\ d \in Analyzing(t) /\ Fails(t) /\ UNCHANGED <<pending, mode, want>>
       \/ /\ d \notin results \cup Analyzing(t) /\ LocalPending(t, d)
          /\ analyze_decl(t, d) /\ UNCHANGED <<mode, want>>
       \/ /\ d \notin results \cup Analyzing(t) /\ ~LocalPending(t, d)
          /\ Acquire(t, PkgOf[d]) /\ UNCHANGED <<stack, pending>>
  /\ UNCHANGED <<graph, cached, harvested, results, partial, driver, hist>>

(* ... from there to the wait for what another worker will record.         *)
NeedLoaded(t) ==
  /\ At(t, "need") /\ Top(t).stage \in {"loaded", "loaderr"}
  /\ LET d == Step(t).key IN
       \/ d \in results /\ MovesOn(t) /\ UNCHANGED <<pending, mode, want>>
       \/ /\ d \notin results /\ (LocalPending(t, d) \/ Top(t).stage = "loaderr")
          /\ IF LocalPending(t, d) THEN analyze_decl(t, d) ELSE Fails(t) /\ UNCHANGED pending
          /\ UNCHANGED <<mode, want>>
       \/ /\ d \notin results /\ ~LocalPending(t, d) /\ Top(t).stage = "loaded"
          /\ stack' = [stack EXCEPT ![t] = ReplaceTop(@, [Last(@) EXCEPT !.stage = "waited"])]
          /\ mode' = [mode EXCEPT ![t] = IF d \in pending THEN "precheck" ELSE "run"]
          /\ want' = [want EXCEPT ![t] = IF d \in pending THEN d ELSE None]
          /\ UNCHANGED pending
  /\ UNCHANGED <<graph, cached, harvested, results, partial, driver, hist>>

(* ... to the harvest: analyse the deferred declaration in this evaluator, *)
(* or leave it to the caller, which loads the package once more.           *)
NeedDeferred(t) ==
  /\ At(t, "need") /\ Top(t).stage = "waited"
  /\ LET d == Step(t).key IN
       \/ /\ d \in harvested
          /\ stack' = [stack EXCEPT ![t] = Append(@, Frame(d, FALSE))]
          /\ UNCHANGED <<mode, want>>
       \/ d \notin harvested /\ d \in results /\ MovesOn(t) /\ UNCHANGED <<mode, want>>
       \/ d \notin harvested /\ d \notin results /\ Acquire(t, PkgOf[d]) /\ UNCHANGED stack
  /\ UNCHANGED <<graph, session, partial, driver, hist>>

(* The caller's last look: a row, or "neither a declared target nor a      *)
(* source file".                                                           *)
NeedAgain(t) ==
  /\ At(t, "need") /\ Top(t).stage = "again"
  /\ IF Step(t).key \in results THEN MovesOn(t) ELSE Fails(t)
  /\ UNCHANGED <<graph, session, mode, want, partial, driver, hist>>

(* A declaration's end: record_target, which adds the row and completes    *)
(* whatever future is registered for it (publish_decl).                    *)
record_target(t) ==
  /\ Running(t) /\ AtEnd(t) /\ Top(t).key \in Decls
  /\ LET d == Top(t).key IN
       /\ results' = results \cup {d}
       /\ res' = IF Owned(d) THEN [res EXCEPT ![d] = Done] ELSE res
       /\ mode' = IF Owned(d) THEN notify_all(mode) ELSE mode
       /\ Return(t, Front(stack[t]), d, TRUE)
  /\ UNCHANGED <<waiting, live, cached, pending, harvested, partial, driver, hist>>

(* An evaluation breaks off of itself: a rule that fails, a bad BUILD file *)
EvalFails(t) ==
  /\ Running(t) /\ Top(t).key \in MayFail /\ Top(t).stage = "look"
  /\ Fails(t)
  /\ UNCHANGED <<graph, session, mode, want, partial, driver, hist>>

DeclFailed(t) ==
  /\ mode[t] = "run" /\ Top(t).failed /\ Top(t).key \in Decls
  /\ Return(t, Front(stack[t]), Top(t).key, FALSE)
  /\ UNCHANGED <<graph, session, mode, partial, driver, hist>>

-----------------------------------------------------------------------------
(* walk_cycle_kind: follow owner -> what it waits on -> its owner.  The    *)
(* result is the keys waited on along the way to me, who waits for nothing,*)
(* or {} when the chain does not come to me (the code's 128 hops exceed    *)
(* any chain of these threads).                                            *)
Onward(start, w) ==
  {u \in Threads : \A S \in SUBSET Threads :
     /\ start \in S
     /\ \A v \in S : w[v] # None /\ Owned(w[v]) => res[w[v]].owner \in S
     => u \in S}
walk_cycle_kind(start, me, w) ==
  IF me \in Onward(start, w) THEN {w[u] : u \in Onward(start, w) \ {me}} ELSE {}

has_breaker(chain) == chain \ Decls # {}

(* One pass of acquire_resource_locked, from the mutex being taken (on     *)
(* entry, or on wakeup, when the thread's own edge goes) to a return or    *)
(* the next park: an action per match arm.                                 *)
Acquiring(t) == mode[t] = "acquire" /\ want[t] \notin Decls
Unparked(t) == [waiting EXCEPT ![t] = None]
Chain(t, owner) == walk_cycle_kind(owner, t, Unparked(t))
CycleAt(t, k) == Owned(k) /\ res[k].owner # t /\ Chain(t, res[k].owner) # {}

(* Only an entry load drives all declarations. *)
Entered(t, k) == Frame(k, stack[t] = <<>>)

AcquireDone(t, ok) ==
  /\ Return(t, stack[t], want[t], ok)
  /\ mode' = [mode EXCEPT ![t] = ModeAfter(stack[t], ok)]
  /\ waiting' = Unparked(t)
  /\ UNCHANGED <<res, live, session, driver, hist>>

(* Ready, or the re-entry of a package on the caller's own stack. *)
AcquireReady(t) ==
  /\ Acquiring(t)
  /\ res[want[t]] = Done \/ (want[t] \in Pkgs /\ res[want[t]] = InFlight(t))
  /\ AcquireDone(t, TRUE)
  /\ UNCHANGED partial

AcquireFailed(t) ==
  /\ Acquiring(t) /\ res[want[t]] = Failed
  /\ AcquireDone(t, FALSE)
  /\ UNCHANGED partial

(* A package demand cycle: go on against the owner's partial state. *)
CycleProceed(t) ==
  /\ Acquiring(t) /\ want[t] \in Pkgs /\ CycleAt(t, want[t])
  /\ AcquireDone(t, TRUE)
  /\ partial' = [partial EXCEPT ![t] = TRUE]

Own(t, k) ==
  /\ res' = [res EXCEPT ![k] = InFlight(t)]
  /\ live' = [live EXCEPT ![k] = @ + 1]
  /\ waiting' = Unparked(t)
  /\ stack' = [stack EXCEPT ![t] = Append(@, Entered(t, k))]
  /\ mode' = [mode EXCEPT ![t] = "run"]
  /\ want' = [want EXCEPT ![t] = None]
  /\ UNCHANGED <<session, partial, driver>>

(* First claim, or takeover of a module on a detected cycle. *)
AcquireOwn(t) ==
  /\ Acquiring(t)
  /\ res[want[t]] = Absent \/ (want[t] \in Bzls /\ CycleAt(t, want[t]))
  /\ Own(t, want[t])
  /\ UNCHANGED hist

(* A module re-entered on the caller's own stack is evaluated again        *)
(* (begin_bzl_load maps Reentry to Own), without being counted.            *)
AcquireReentryBzl(t) ==
  /\ Acquiring(t) /\ want[t] \in Bzls /\ res[want[t]] = InFlight(t)
  /\ stack' = [stack EXCEPT ![t] = Append(@, Entered(t, want[t]))]
  /\ mode' = [mode EXCEPT ![t] = "run"]
  /\ want' = [want EXCEPT ![t] = None]
  /\ waiting' = Unparked(t)
  /\ UNCHANGED <<res, live, session, partial, driver, hist>>

AcquirePark(t) ==
  /\ Acquiring(t)
  /\ Owned(want[t]) /\ res[want[t]].owner # t /\ ~CycleAt(t, want[t])
  /\ waiting' = [waiting EXCEPT ![t] = want[t]]
  /\ mode' = [mode EXCEPT ![t] = "parked"]
  /\ UNCHANGED <<res, live, session, stack, want, partial, driver, hist>>

(* wait_timeout came back timed_out(): the load is taken over without      *)
(* another look at the resource.                                           *)
TimeoutTakeover(t) ==
  /\ Timeouts /\ takeovers < MaxTakeovers
  /\ waiting[t] # None /\ waiting[t] \notin Decls
  /\ Own(t, waiting[t])
  /\ takeovers' = takeovers + 1
  /\ UNCHANGED workspace

-----------------------------------------------------------------------------
(* wait_pending_decl: the silent pre-check, then the locked loop.          *)
WaitEnds(t, ok, wasPartial) ==
  /\ IF ok THEN Return(t, stack[t], want[t], TRUE)
     ELSE want' = [want EXCEPT ![t] = None] /\ UNCHANGED stack
  /\ mode' = [mode EXCEPT ![t] = "run"]
  /\ waiting' = Unparked(t)
  /\ partial' = [partial EXCEPT ![t] = @ \/ wasPartial]
  /\ UNCHANGED <<res, live, session, driver, hist>>

WaitPrecheck(t) ==
  /\ mode[t] = "precheck"
  /\ LET p == PkgOf[want[t]] IN
       IF Owned(p) /\ res[p].owner # t
       THEN /\ mode' = [mode EXCEPT ![t] = "acquire"]
            /\ UNCHANGED <<graph, session, stack, want, partial, driver, hist>>
       ELSE WaitEnds(t, FALSE, res[p] = Absent)

(* The thread that will publish d: the proxy's owner, else the package's,  *)
(* for whom a proxy is made; None when there is nobody to wait for.        *)
Publisher(d) ==
  IF Owned(d) THEN res[d].owner
  ELSE IF res[d] = Absent /\ Owned(PkgOf[d]) THEN res[PkgOf[d]].owner ELSE None

Waiting(t) == mode[t] = "acquire" /\ want[t] \in Decls
AllDeclCycle(t, owner) == Chain(t, owner) # {} /\ ~has_breaker(Chain(t, owner))

WaitPublished(t) ==
  /\ Waiting(t) /\ res[want[t]] = Done
  /\ WaitEnds(t, TRUE, FALSE)

(* PkgTerminal, or Proceed where waiting would deadlock. *)
WaitProceeds(t) ==
  /\ Waiting(t) /\ res[want[t]] # Done
  /\ LET o == Publisher(want[t]) IN
       \/ o = None /\ WaitEnds(t, FALSE, res[PkgOf[want[t]]] = Absent)
       \/ o = t /\ WaitEnds(t, FALSE, FALSE)
       \/ o \in Threads \ {t} /\ AllDeclCycle(t, o) /\ WaitEnds(t, FALSE, TRUE)

(* Park on the proxy; the parked package or module wait on a cycle is      *)
(* woken to break it.                                                      *)
WaitParks(t) ==
  /\ Waiting(t) /\ res[want[t]] # Done
  /\ LET o == Publisher(want[t]) IN
       /\ o \in Threads \ {t} /\ ~AllDeclCycle(t, o)
       /\ res' = [res EXCEPT ![want[t]] = InFlight(o)]
       /\ waiting' = [waiting EXCEPT ![t] = want[t]]
       /\ mode' = [(IF Chain(t, o) = {} THEN mode ELSE notify_all(mode)) EXCEPT ![t] = "parked"]
  /\ UNCHANGED <<live, session, stack, want, partial, driver, hist>>

-----------------------------------------------------------------------------
Ended(t) == Running(t) /\ AtEnd(t) /\ Top(t).key \notin Decls

(* The end of an evaluation: freeze and index what is left in the          *)
(* DeclStore; a module is in bzl_cache before anyone can see Done.         *)
Harvest(t) ==
  /\ Ended(t) /\ Top(t).stage = "look"
  /\ LET f == Top(t) IN
       /\ harvested' = harvested \cup f.slots
       /\ pending' = pending \ f.slots
       /\ cached' = IF f.key \in Bzls THEN [cached EXCEPT ![f.key] = @ + 1] ELSE cached
       /\ stack' = [stack EXCEPT ![t] = ReplaceTop(@, [f EXCEPT !.slots = {}, !.stage = "frozen"])]
  /\ UNCHANGED <<graph, results, mode, want, partial, driver, hist>>

(* A package's terminal state sweeps its declarations' proxies. *)
Swept(r, k) ==
  [x \in Keys |-> IF k \in Pkgs /\ x \in Decls /\ PkgOf[x] = k /\ r[x].st = "inflight"
                  THEN Absent ELSE r[x]]

Less1(k) == [live EXCEPT ![k] = IF @ > 0 THEN @ - 1 ELSE 0]

(* finish_resource(Ok) *)
FinishOk(t) ==
  /\ Ended(t) /\ Top(t).stage = "frozen"
  /\ LET k == Top(t).key
         s == Front(stack[t])
     IN  /\ live' = Less1(k)
         /\ res' = Swept([res EXCEPT ![k] = Done], k)
         /\ Return(t, s, k, TRUE)
         /\ mode' = [notify_all(mode) EXCEPT ![t] = ModeAfter(s, TRUE)]
  /\ UNCHANGED <<waiting, session, partial, driver, hist>>

(* Plausible bug: a failure clears whoever else still evaluates. *)
MayPurgeAlways(k) == res[k] # Done

(* Only the last live evaluation may clear and purge, if none succeeded. *)
MayPurge(k) == Less1(k)[k] = 0 /\ res[k] # Done

(* A failure of the declare phase is cached (package in error); one of the *)
(* analysis, or of a module, is cleared for a retry.                       *)
Outcome(f) == IF f.key \in Pkgs /\ f.ip <= Len(Program[f.key]) THEN Failed ELSE Absent

(* finish_resource(FailRetry | FailCached); the purge follows the unlock. *)
FinishErr(t) ==
  /\ mode[t] = "run" /\ Top(t).failed /\ Top(t).key \notin Decls
  /\ LET k == Top(t).key
         s == Front(stack[t])
         purges == MayPurge(k)
     IN  /\ live' = Less1(k)
         /\ res' = Swept(IF purges THEN [res EXCEPT ![k] = Outcome(Top(t))] ELSE res, k)
         /\ stack' = [stack EXCEPT ![t] = Returned(s, k, FALSE)]
         /\ mode' = [notify_all(mode) EXCEPT ![t] =
                       IF purges /\ k \in Pkgs THEN "purge" ELSE ModeAfter(s, FALSE)]
         /\ want' = [want EXCEPT ![t] = IF purges /\ k \in Pkgs THEN k ELSE None]
  /\ UNCHANGED <<waiting, session, partial, driver, hist>>

(* purge_partial_package, outside the graph's mutex. *)
purge_partial_package(t) ==
  /\ mode[t] = "purge"
  /\ results' = {d \in results : PkgOf[d] # want[t]}
  /\ pending' = {d \in pending : PkgOf[d] # want[t]}
  /\ mode' = [mode EXCEPT ![t] = ModeAfter(stack[t], FALSE)]
  /\ want' = [want EXCEPT ![t] = None]
  /\ UNCHANGED <<graph, cached, harvested, stack, partial, driver, hist>>

-----------------------------------------------------------------------------
Work(t) ==
  \/ NextEntry(t) \/ EntryDone(t) \/ LoadStep(t) \/ DeclareStep(t) \/ DriveStep(t)
  \/ NeedLook(t) \/ NeedLoaded(t) \/ NeedDeferred(t) \/ NeedAgain(t)
  \/ record_target(t) \/ DeclFailed(t)
  \/ AcquireReady(t) \/ AcquireFailed(t) \/ CycleProceed(t) \/ AcquireOwn(t)
  \/ AcquireReentryBzl(t) \/ AcquirePark(t)
  \/ WaitPrecheck(t) \/ WaitPublished(t) \/ WaitProceeds(t) \/ WaitParks(t)
  \/ Harvest(t) \/ FinishOk(t) \/ FinishErr(t) \/ purge_partial_package(t)
  \/ t = Main /\ (Restart \/ RestartDone)

AllDone == \A t \in Threads : mode[t] = "done"

Next ==
  \/ \E t \in Threads : Work(t) \/ EvalFails(t) \/ TimeoutTakeover(t)
  \/ AllDone /\ UNCHANGED vars

(* The operating system runs every thread that is not blocked. *)
Spec == Init /\ [][Next]_vars /\ \A t \in Threads : WF_vars(Work(t))

-----------------------------------------------------------------------------
(* Every variable has its type; a thread that runs has something to run.   *)
TypeOK ==
  /\ res \in [Keys -> {Absent, Done, Failed} \cup {InFlight(t) : t \in Threads}]
  /\ waiting \in [Threads -> Keys \cup {None}]
  /\ live \in [Keys -> Nat] /\ cached \in [Bzls -> Nat]
  /\ pending \subseteq Decls /\ harvested \subseteq Decls /\ results \subseteq Decls
  /\ mode \in [Threads -> {"idle", "run", "acquire", "precheck", "parked", "purge",
                           "ok", "err", "done"}]
  /\ \A t \in Threads : /\ mode[t] = "run" => stack[t] # <<>>
                        /\ mode[t] \in {"idle", "ok", "err", "done"} => stack[t] = <<>>

(* A module that reaches itself is granted Own again uncounted; so is one  *)
(* whose takeover failed before the evaluation it took over ended, when    *)
(* the same thread asks again.  What is said of claims below is said of    *)
(* the other keys.                                                         *)
Leaf == {b \in Bzls : Program[b] = << >> /\ ~Timeouts}
Counted == Pkgs \cup Leaf

(* live counts the evaluations in progress, so that "LAST live eval"       *)
(* (sched.rs:51) means the last.  A thread may have two of one package: it *)
(* takes over what another thread took over from it.                       *)
EvalsAt(s, k) == {i \in DOMAIN s : s[i].key = k}
Evaluations(k) == UNION {{<<t, i>> : i \in EvalsAt(stack[t], k)} : t \in Threads}
LiveExact == \A k \in Counted : live[k] = Cardinality(Evaluations(k))

(* While an evaluation of k runs nobody finds k unclaimed: a failing       *)
(* duplicate leaves the survivor's claim in place (sched.rs:272).          *)
ClaimHeld == \A k \in Counted : Evaluations(k) # {} => res[k] # Absent

(* A package has one evaluation at a time: a demand cycle proceeds         *)
(* against partial state instead of duplicating it (sched.rs:65).  Only    *)
(* the timeout takes a package over.                                       *)
PackageSingleFlight == ~Timeouts => \A p \in Pkgs : Cardinality(Evaluations(p)) <= 1

(* A module marked Done is in bzl_cache ("Cache BEFORE Done", load.rs:278).*)
DoneIsCached == \A b \in Bzls : res[b] = Done => cached[b] > 0

(* "No proxy entry outlives its package's InFlight window" (sched.rs:287). *)
NoProxyLeak == \A d \in Decls : Owned(d) => Owned(PkgOf[d])

(* One evaluation per module per session ("ONE eval per module per Session *)
(* even under the pool", sched.rs:328): a second mints second provider     *)
(* identities.                                                             *)
BzlIdentityUnique == ~Timeouts => \A b \in Bzls \cap Counted : cached[b] <= 1

(* The wait graph's books and what they are kept for: counts, claims, the  *)
(* module cache and the proxies of declarations stay in step with who      *)
(* really evaluates what, whoever fails, takes over or purges.             *)
ClaimsTrue ==
  /\ TypeOK /\ LiveExact /\ ClaimHeld /\ PackageSingleFlight
  /\ DoneIsCached /\ NoProxyLeak /\ BzlIdentityUnique

(* Every thread gets to the end without the timeout: "DEADLOCK-FREE        *)
(* waiting" (sched.rs:115), the timeout "should never fire in practice".   *)
AllFinish == <>AllDone

(* Whatever partial state the workers read of each other, the report of a  *)
(* workspace without errors has none: the restart rounds recover every     *)
(* failure ("each retry sees what a sequential entry would have",          *)
(* tree.rs:152).                                                           *)
RestartParity ==
  (AllDone /\ MayFail = {} /\ ~Timeouts) => \A i \in DOMAIN Entries : verdict[i] = "ok"
=============================================================================
