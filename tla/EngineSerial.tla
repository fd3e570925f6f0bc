---------------------------- MODULE EngineSerial ----------------------------
(***************************************************************************)
(* Engine::request (razel-engine/src/lib.rs), the recursive evaluator used *)
(* for jobs <= 1 and by produced_outputs.  The Rust call stack is `stack`: *)
(* one frame per active request_inner, holding the snapshot it took before *)
(* recursing; `ret` is the Result on its way to the caller.                *)
(***************************************************************************)
EXTENDS EngineState

CONSTANTS
  Targets,   \* keys that are requested
  Broken     \* actions whose closure may return Err

NoKey == "none"   \* target between requests
ASSUME TargetsAssumption == NoKey \notin Targets

VARIABLES
  stack,        \* frames, the running one last
  in_progress,  \* Engine.in_progress
  ret,          \* NoRet, or the Result being returned to the top frame
  recomputed,   \* keys recomputed by this request (recomputes = its size)
  cancel,       \* the cancellation flag
  target,       \* the requested key, NoKey between requests
  outcome       \* what the last request returned

control == <<stack, in_progress, ret, recomputed, target>>
vars == <<graph, control, cancel, outcome>>

NoRet == [tag |-> "none"]
Ok(v) == [tag |-> "ok", val |-> v]
Err(e) == [tag |-> "err", val |-> e]

Frame(k) == [key |-> k, phase |-> "enter", dvs |-> <<>>, max |-> 0,
             verified_at |-> 0, value |-> NoValue]
Top == stack[Len(stack)]
Below == SubSeq(stack, 1, Len(stack) - 1)

Init ==
  /\ GraphInit
  /\ stack = <<>> /\ in_progress = {} /\ ret = NoRet /\ recomputed = {}
  /\ cancel = FALSE /\ target = NoKey /\ outcome = NoRet

SetInput(k, v) ==
  /\ target = NoKey
  /\ revision < MaxRev
  /\ set_input(k, v)
  /\ outcome' = NoRet
  /\ UNCHANGED <<control, cancel>>

(* request: refuse a key that is on the stack, else run request_inner. *)
Call(k, frames) ==
  IF k \in in_progress
  THEN /\ ret' = Err("cycle")
       /\ stack' = frames
       /\ UNCHANGED in_progress
  ELSE /\ in_progress' = in_progress \cup {k}
       /\ stack' = Append(frames, Frame(k))
       /\ ret' = NoRet

Request(t) ==
  /\ target = NoKey
  /\ target' = t
  /\ Call(t, stack)
  /\ recomputed' = {}
  /\ cancel' = FALSE
  /\ outcome' = NoRet
  /\ UNCHANGED graph

(* Plausible bug: the early return of `?` skips the bookkeeping of request. *)
ReturnLeaky(r) ==
  /\ ret' = r
  /\ stack' = Below
  /\ in_progress' = IF r.tag = "ok" THEN in_progress \ {Top.key} ELSE in_progress

(* request_inner returned r: request removes the key and passes r on. *)
Return(r) ==
  /\ ret' = r
  /\ stack' = Below
  /\ in_progress' = in_progress \ {Top.key}

Running(phase) == stack # <<>> /\ ret = NoRet /\ Top.phase = phase

(* The head of request_inner: cancellation, lookup, snapshot, and the      *)
(* returns that need no dependency.                                        *)
Enter ==
  /\ Running("enter")
  /\ LET k == Top.key IN
       \/ cancel /\ Return(Err("cancelled")) /\ UNCHANGED graph
       \/ ~cancel /\ k \notin Keys /\ Return(Err("unknown")) /\ UNCHANGED graph
       \/ ~cancel /\ k \in Keys /\ Validated(k) /\ Return(Ok(value[k])) /\ UNCHANGED graph
       \/ ~cancel /\ k \in Inputs /\ ~Validated(k) /\ Backdate(k) /\ Return(Ok(value[k]))
       \/ /\ ~cancel /\ k \in Derived /\ ~Validated(k)
          /\ stack' = Append(Below, [Top EXCEPT !.phase = "deps",
                        !.verified_at = verified_at[k], !.value = value[k]])
          /\ UNCHANGED <<ret, in_progress, graph>>
  /\ UNCHANGED <<recomputed, target, cancel, outcome>>

(* `for d in &deps { let v = self.request(d)?; ... }` *)
RequestDep ==
  /\ Running("deps")
  /\ Len(Top.dvs) < Len(Deps[Top.key])
  /\ Call(Deps[Top.key][Len(Top.dvs) + 1], stack)
  /\ UNCHANGED <<graph, recomputed, target, cancel, outcome>>

(* Plausible bug: the last dependency's stamp instead of the latest. *)
DepReturnedLastStamp ==
  /\ stack # <<>> /\ ret # NoRet
  /\ IF ret.tag = "err"
     THEN Return(ret)
     ELSE /\ stack' = Append(Below, [Top EXCEPT
               !.dvs = Append(@, ret.val),
               !.max = changed_at[Deps[Top.key][Len(Top.dvs) + 1]]])
          /\ ret' = NoRet
          /\ UNCHANGED in_progress
  /\ UNCHANGED <<graph, recomputed, target, cancel, outcome>>

DepReturned ==
  /\ stack # <<>> /\ ret # NoRet
  /\ IF ret.tag = "err"
     THEN Return(ret)
     ELSE LET d == Deps[Top.key][Len(Top.dvs) + 1] IN
          /\ stack' = Append(Below, [Top EXCEPT
               !.dvs = Append(@, ret.val),
               !.max = IF changed_at[d] > @ THEN changed_at[d] ELSE @])
          /\ ret' = NoRet
          /\ UNCHANGED in_progress
  /\ UNCHANGED <<graph, recomputed, target, cancel, outcome>>

(* Plausible bug: a failing action is tried again in place. *)
ConcludeRetries ==
  /\ Running("deps")
  /\ Len(Top.dvs) = Len(Deps[Top.key])
  /\ \/ /\ Top.key \in Broken
        /\ UNCHANGED <<graph, stack, ret, in_progress>>
        /\ recomputed' = IF Top.key \in recomputed THEN {} ELSE {Top.key}
     \/ /\ Store(Top.key, Compute(Top.key, Top.dvs))
        /\ Return(Ok(Compute(Top.key, Top.dvs)))
        /\ recomputed' = recomputed \cup {Top.key}
  /\ UNCHANGED <<target, cancel, outcome>>

(* All dependencies validated: early cutoff, or recompute. *)
Conclude ==
  /\ Running("deps")
  /\ Len(Top.dvs) = Len(Deps[Top.key])
  /\ LET k == Top.key IN
       \/ /\ Top.value # NoValue /\ Top.max <= Top.verified_at
          /\ Backdate(k)
          /\ Return(Ok(Top.value))
          /\ UNCHANGED recomputed
       \/ /\ ~(Top.value # NoValue /\ Top.max <= Top.verified_at)
          /\ recomputed' = recomputed \cup {k}
          /\ \/ k \in Broken /\ Return(Err(k)) /\ UNCHANGED graph
             \/ /\ Store(k, Compute(k, Top.dvs))
                /\ Return(Ok(Compute(k, Top.dvs)))
  /\ UNCHANGED <<target, cancel, outcome>>

(* The Result reaches the caller of the outermost request. *)
Finish ==
  /\ target # NoKey /\ stack = <<>> /\ ret # NoRet
  /\ outcome' = ret
  /\ ret' = NoRet
  /\ target' = NoKey
  /\ UNCHANGED <<graph, stack, in_progress, recomputed, cancel>>

RaiseCancel ==
  /\ target # NoKey /\ ~cancel
  /\ cancel' = TRUE
  /\ UNCHANGED <<graph, control, outcome>>

Evaluate == Enter \/ RequestDep \/ DepReturned \/ Conclude \/ Finish

Next ==
  \/ \E k \in Inputs, v \in Values : SetInput(k, v)
  \/ \E t \in Targets : Request(t)
  \/ Evaluate
  \/ RaiseCancel

Spec == Init /\ [][Next]_vars /\ WF_vars(Evaluate)

-----------------------------------------------------------------------------
AnyKey == Targets \cup Keys \cup UNION {DepSet(k) : k \in Derived}
FrameType ==
  [key : AnyKey, phase : {"enter", "deps"}, dvs : Seq(Values), max : Nat,
   verified_at : Nat, value : Values \cup {NoValue}]
IsResult(r) == r = NoRet \/ r.tag = "err" \/ \E v \in Values : r = Ok(v)

TypeOK ==
  /\ GraphTypeOK /\ InputsValued
  /\ stack \in Seq(FrameType)
  /\ IsResult(ret) /\ IsResult(outcome)
  /\ target \in Targets \cup {NoKey}
  /\ cancel \in BOOLEAN /\ recomputed \subseteq Derived

Frames == {stack[i] : i \in DOMAIN stack}

(* in_progress names exactly the keys on the call stack, each on it once,  *)
(* on every path out of request, error and cancellation included: a failed *)
(* request leaves nothing behind that the next one would take for a cycle. *)
InProgressIsStack ==
  /\ in_progress = {f.key : f \in Frames}
  /\ \A i, j \in DOMAIN stack : stack[i].key = stack[j].key => i = j

(* The dependency whose Result a frame waits for or asks for next. *)
NextDep(f) == Deps[f.key][Len(f.dvs) + 1]
Suspended(f) == f.phase = "deps" /\ Len(f.dvs) < Len(Deps[f.key])

(* A frame below another waits for it, and the outermost one is the        *)
(* request's; the Result on its way is the one the top frame waits for.    *)
CallsLinked ==
  /\ target = NoKey => stack = <<>> /\ ret = NoRet
  /\ stack # <<>> => stack[1].key = target
  /\ \A i \in DOMAIN stack : i < Len(stack) =>
       Suspended(stack[i]) /\ stack[i + 1].key = NextDep(stack[i])
  /\ stack # <<>> /\ ret # NoRet => Suspended(Top)

(* The snapshot a frame took before recursing is still the node's state    *)
(* when the frame uses it (lib.rs:211, "Snapshot what we need without      *)
(* holding the borrow across recursion"): its node is not validated by     *)
(* anyone else, the dependencies it has read stay validated at the values  *)
(* it read, and max is the latest of their stamps.                         *)
FrameTrue(f) ==
  /\ f.phase = "enter" => f.dvs = <<>> /\ f.max = 0
  /\ f.phase = "deps" =>
       /\ f.key \in Derived /\ ~Validated(f.key)
       /\ f.value = value[f.key] /\ f.verified_at = verified_at[f.key]
       /\ Len(f.dvs) <= Len(Deps[f.key])
       /\ \A j \in DOMAIN f.dvs :
            LET d == Deps[f.key][j]
            IN  Validated(d) /\ f.dvs[j] = value[d] /\ changed_at[d] <= f.max
       /\ f.max = 0 \/ \E j \in DOMAIN f.dvs : f.max = changed_at[Deps[f.key][j]]
SnapshotCurrent == \A f \in Frames : FrameTrue(f)

(* An Ok on its way is the validated value of the key it was asked for. *)
Awaited == IF stack = <<>> THEN target ELSE NextDep(Top)
ReturnCurrent == ret.tag = "ok" => Validated(Awaited) /\ ret.val = value[Awaited]

(* The recursion's own state: what it has marked, remembered and returned  *)
(* is what is really under way and really in the graph, on every path.     *)
StackTrue ==
  /\ TypeOK
  /\ InProgressIsStack
  /\ CallsLinked
  /\ SnapshotCurrent
  /\ ReturnCurrent

(* A successful request returns what a build from scratch would, and a     *)
(* request that meets a cycle or an unknown key never succeeds.            *)
WarmEqualsCold ==
  target # NoKey /\ stack = <<>> /\ ret.tag = "ok" =>
    /\ \A k \in ReachFrom(target) : k \in Keys /\ ~OnCycle(k)
    /\ ret.val = Cold(ReachFrom(target))[target]

Abs == INSTANCE IncrementalGraph WITH
         revision <- revision, value <- value, changed_at <- changed_at, verified_at <- verified_at

(* request implements the one-node-at-a-time graph: every step of the      *)
(* recursion validates one node after its dependencies, or none.           *)
Refines == Abs!Spec

(* Every request returns: recursion ends on cyclic graphs too. *)
Returns == target # NoKey ~> target = NoKey
=============================================================================
