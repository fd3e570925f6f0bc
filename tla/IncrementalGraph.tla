-------------------------- MODULE IncrementalGraph --------------------------
(***************************************************************************)
(* What the engine promises, whoever evaluates it: nodes are validated one *)
(* at a time, each after its dependencies, by a cutoff or a recompute; an  *)
(* input may change between any two of them.  EngineSerial and             *)
(* EngineParallel implement this specification.                            *)
(***************************************************************************)
EXTENDS EngineState

SetInput(k, v) ==
  /\ revision < MaxRev
  /\ set_input(k, v)

(* Validate k without running its closure. *)
CutOff(k) ==
  /\ DepsValidated(k)
  /\ Cutoff(k)
  /\ Backdate(k)

(* Run k's closure on the validated dependency values. *)
Recompute(k) ==
  /\ DepsValidated(k)
  /\ ~Cutoff(k)
  /\ Store(k, Compute(k, DepValues(k)))

Next ==
  \/ \E k \in Inputs, v \in Values : SetInput(k, v)
  \/ \E k \in Keys : CutOff(k)
  \/ \E k \in Derived : Recompute(k)

Spec == GraphInit /\ [][Next]_graph

-----------------------------------------------------------------------------
(* The inductive invariant behind Fresh. *)

(* No stamp is ahead of the clock. *)
StampsBounded ==
  \A k \in Keys : verified_at[k] <= revision /\ changed_at[k] <= revision

(* What a node was computed from has a value. *)
DepsValued ==
  \A k \in Derived : value[k] # NoValue =>
    \A d \in DepSet(k) : d \in Keys /\ value[d] # NoValue

(* A node is validated only after its dependencies. *)
ValidatedBelow == \A k \in Derived : Validated(k) => DepsValidated(k)

(* The reason the cutoff is sound: while no dependency has changed since   *)
(* k was verified, k still holds what its closure computes now.            *)
CutoffSound ==
  \A k \in Derived :
    value[k] # NoValue /\ NoDepChanged(k) => value[k] = Compute(k, DepValues(k))

FreshInv ==
  /\ GraphTypeOK
  /\ StampsBounded
  /\ InputsValued
  /\ DepsValued
  /\ ValidatedBelow
  /\ CutoffSound

(* Nodes are validated in an order of dependencies: any set of validated   *)
(* ones has a member that depends on none of them.                         *)
ValidatedOrdered ==
  \A S \in SUBSET {k \in Derived : Validated(k)} :
    S # {} => \E k \in S : DepSet(k) \cap S = {}

(* All that a validated node can reach is known, on no cycle and has what  *)
(* a build from scratch would give it ("warm == cold", lib.rs:181).        *)
WarmIsCold ==
  \A t \in Keys : Validated(t) =>
    \A k \in ReachFrom(t) : k \in Keys /\ ~OnCycle(k) /\ value[k] = Cold(ReachFrom(t))[k]

(* A step that changes a derived value stamps the change with the current  *)
(* revision, and a value never disappears: dependents can always see that  *)
(* they are out of date (changed_at, lib.rs:271-276 and 473-477).          *)
ChangesAreStamped ==
  [][\A k \in Keys : value'[k] # value[k] =>
       value'[k] # NoValue /\ changed_at'[k] = revision']_graph
=============================================================================
