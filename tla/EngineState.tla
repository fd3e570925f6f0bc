---------------------------- MODULE EngineState ----------------------------
(***************************************************************************)
(* The node graph of razel-engine/src/lib.rs: what every evaluator of the  *)
(* engine reads and writes.  Digests and manifests are abstract Values;    *)
(* a compute closure is the constant operator Compute, a function of the   *)
(* dependency values in the order of the node's deps vector.               *)
(***************************************************************************)
EXTENDS Integers, Sequences, FiniteSets

CONSTANTS
  Inputs,        \* keys inserted by add_input
  Derived,       \* keys inserted by add_derived / add_action
  Deps,          \* the deps vector of each derived node (may repeat a key)
  Values,        \* node values
  InitialInputs, \* the contents the inputs may be configured with
  NoValue,       \* Option::None
  Compute(_, _), \* what a node's closure returns for its dependency values
  MaxRev         \* bound on the number of set_input calls

Keys == Inputs \cup Derived

DepsOf(k) == IF k \in Derived THEN Deps[k] ELSE <<>>
DepSet(k) == {DepsOf(k)[i] : i \in DOMAIN DepsOf(k)}

ASSUME GraphAssumption ==
  /\ Inputs \cap Derived = {}
  /\ NoValue \notin Values
  /\ InitialInputs \subseteq [Inputs -> Values]
  /\ MaxRev \in Nat
  /\ DOMAIN Deps = Derived
  /\ \A k \in Derived : Len(Deps[k]) \in Nat /\ DOMAIN Deps[k] = 1..Len(Deps[k])

ASSUME ComputeAssumption ==
  \A k \in Derived : \A dvs \in [DOMAIN Deps[k] -> Values] :
    Compute(k, dvs) \in Values

(* The sub-graph a request can reach (what is in every set that holds k and *)
(* the dependencies of its members), and the keys on a dependency cycle.    *)
Named == Keys \cup UNION {DepSet(k) : k \in Keys}
Closed(S) == \A k \in S : DepSet(k) \subseteq S
Reach ==
  [k \in Named |-> {x \in Named : \A S \in SUBSET Named : k \in S /\ Closed(S) => x \in S}]
ReachFrom(k) == IF k \in Named THEN Reach[k] ELSE {k}

OnCycle(k) == \E d \in DepSet(k) : k \in ReachFrom(d)

VARIABLES
  value,        \* Node.value
  verified_at,  \* Node.verified_at
  changed_at,   \* Node.changed_at
  revision      \* Engine.revision

graph == <<value, verified_at, changed_at, revision>>

GraphTypeOK ==
  /\ value \in [Keys -> Values \cup {NoValue}]
  /\ verified_at \in [Keys -> Nat]
  /\ changed_at \in [Keys -> Nat]
  /\ revision \in Nat

(* Inputs always have a value. *)
InputsValued == \A k \in Inputs : value[k] # NoValue

(* The graph after configuration: inputs carry a value, derived nodes none. *)
GraphInit ==
  /\ \E i \in InitialInputs :
       value = [k \in Keys |-> IF k \in Inputs THEN i[k] ELSE NoValue]
  /\ verified_at = [k \in Keys |-> 0]
  /\ changed_at = [k \in Keys |-> 0]
  /\ revision = 0

(* set_input: the revision always advances, changed_at only with the value. *)
set_input(k, v) ==
  /\ revision' = revision + 1
  /\ value' = [value EXCEPT ![k] = v]
  /\ changed_at' = [changed_at EXCEPT ![k] =
                      IF value[k] # v THEN revision + 1 ELSE changed_at[k]]
  /\ verified_at' = [verified_at EXCEPT ![k] = revision + 1]

DepValues(k) == [i \in DOMAIN Deps[k] |-> value[Deps[k][i]]]

Validated(k) == k \in Keys /\ value[k] # NoValue /\ verified_at[k] = revision

DepsValidated(k) == \A d \in DepSet(k) : Validated(d)

(* No dependency changed since k was last verified (max_dep_changed <=     *)
(* verified_at, over the empty vector too).                                *)
NoDepChanged(k) == \A d \in DepSet(k) : changed_at[d] <= verified_at[k]

(* Plausible bug: no early cutoff. *)
CutoffNever(k) == k \in Inputs \/ (value[k] # NoValue /\ verified_at[k] = revision)

(* An input, a node already validated at this revision, or an early cutoff. *)
Cutoff(k) ==
  \/ k \in Inputs
  \/ /\ value[k] # NoValue
     /\ verified_at[k] = revision \/ NoDepChanged(k)

Backdate(k) ==
  /\ verified_at' = [verified_at EXCEPT ![k] = revision]
  /\ UNCHANGED <<value, changed_at, revision>>

(* Plausible bug: a recompute that does not propagate. *)
StoreNoChangedAt(k, v) ==
  /\ changed_at' = changed_at
  /\ value' = [value EXCEPT ![k] = v]
  /\ verified_at' = [verified_at EXCEPT ![k] = revision]
  /\ UNCHANGED revision

(* A recomputed value: changed_at moves only if the value did (firewall). *)
Store(k, v) ==
  /\ changed_at' = [changed_at EXCEPT ![k] =
                      IF value[k] # v THEN revision ELSE changed_at[k]]
  /\ value' = [value EXCEPT ![k] = v]
  /\ verified_at' = [verified_at EXCEPT ![k] = revision]
  /\ UNCHANGED revision

-----------------------------------------------------------------------------
(* The values of the keys of S, which are closed under dependencies and on  *)
(* no cycle, computed from the inputs alone, on an empty graph.             *)
Cold(S) ==
  LET c[k \in S] ==
        IF k \in Inputs THEN value[k]
        ELSE Compute(k, [i \in DOMAIN Deps[k] |-> c[Deps[k][i]]])
  IN  c

(* A node validated at the current revision holds exactly what its closure *)
(* would compute from its dependencies' current values: the engine never   *)
(* serves a stale value, whatever was cut off, cancelled or failed before. *)
Fresh ==
  \A k \in Derived :
    Validated(k) => /\ DepsValidated(k)
                    /\ value[k] = Compute(k, DepValues(k))
=============================================================================
