---------------------------- MODULE EngineProofs ----------------------------
(***************************************************************************)
(* The engine's graph never serves a stale value, for every graph (cyclic  *)
(* or with unknown keys too), every compute function and every history of  *)
(* edits, cutoffs and recomputes.                                          *)
(*                                                                         *)
(* Fresh is not inductive: whether a cutoff is sound depends on what the   *)
(* node was computed from at an EARLIER revision.  CutoffSound says what   *)
(* the stamps remember of it, ValidatedBelow and StampsBounded why a       *)
(* change can never be stamped too early for a dependent to notice.        *)
(*                                                                         *)
(* WarmIsCold compares the values with a recursion over the graph.  That   *)
(* has at most one solution on a set without cycles (ValidatedOrdered),    *)
(* and the values of validated nodes are one (Fresh).                      *)
(***************************************************************************)
EXTENDS IncrementalGraph, TLAPS

(* Dependency lookups: a position of the deps vector is a member of DepSet. *)
LEMMA DepSetFacts ==
  ASSUME NEW k \in Derived
  PROVE  /\ DepSet(k) = {Deps[k][i] : i \in DOMAIN Deps[k]}
         /\ \A i \in DOMAIN Deps[k] : Deps[k][i] \in DepSet(k)
  BY DEF DepSet, DepsOf

(* Closures are applied to values only, so they return one. *)
LEMMA ComputeType ==
  ASSUME NEW k \in Derived, GraphTypeOK,
         \A d \in DepSet(k) : d \in Keys /\ value[d] # NoValue
  PROVE  Compute(k, DepValues(k)) \in Values
<1>1. DepValues(k) \in [DOMAIN Deps[k] -> Values]
  BY DepSetFacts DEF DepValues, GraphTypeOK
<1> QED BY <1>1, ComputeAssumption

(* Two graphs that agree on k's dependencies feed its closure the same. *)
LEMMA SameDepValues ==
  ASSUME NEW k \in Derived, \A d \in DepSet(k) : value'[d] = value[d]
  PROVE  DepValues(k)' = DepValues(k)
  BY DepSetFacts DEF DepValues

(* A graph fresh from configuration satisfies the invariant. *)
LEMMA InitFresh == GraphInit => FreshInv
<1> SUFFICES ASSUME GraphInit PROVE FreshInv
  OBVIOUS
<1> USE GraphAssumption DEF GraphInit, Keys
<1>1. GraphTypeOK BY DEF GraphTypeOK
<1>2. StampsBounded /\ InputsValued /\ DepsValued
  BY DEF StampsBounded, InputsValued, DepsValued
<1>3. ValidatedBelow /\ CutoffSound
  BY DEF ValidatedBelow, CutoffSound, Validated
<1> QED BY <1>1, <1>2, <1>3 DEF FreshInv

(* An edit: the clock moves, so no derived node stays validated, and the   *)
(* edited input is stamped ahead of everything computed from it.           *)
LEMMA SetInputFresh ==
  ASSUME FreshInv, NEW k \in Inputs, NEW v \in Values, SetInput(k, v)
  PROVE  FreshInv'
<1> USE GraphAssumption DEF FreshInv, SetInput, set_input, Keys
<1>1. GraphTypeOK' BY DEF GraphTypeOK
<1>2. StampsBounded' BY DEF GraphTypeOK, StampsBounded
<1>3. InputsValued' /\ DepsValued'
  BY DEF GraphTypeOK, InputsValued, DepsValued
<1>4. ValidatedBelow'
  BY DEF GraphTypeOK, StampsBounded, ValidatedBelow, Validated
<1>5. CutoffSound'
  <2> SUFFICES ASSUME NEW p \in Derived, value'[p] # NoValue, NoDepChanged(p)'
               PROVE  value'[p] = Compute(p, DepValues(p))'
    BY DEF CutoffSound
  <2>1. value'[p] = value[p] /\ verified_at'[p] = verified_at[p]
    BY DEF GraphTypeOK
  <2>2. \A d \in DepSet(p) : value'[d] = value[d] /\ changed_at'[d] = changed_at[d]
    <3> SUFFICES ASSUME NEW d \in DepSet(p)
                 PROVE  value'[d] = value[d] /\ changed_at'[d] = changed_at[d]
      OBVIOUS
    <3>1. d \in Keys BY <2>1 DEF DepsValued
    <3>2. CASE d = k /\ value[k] # v
      <4>1. changed_at'[d] = revision + 1 BY <3>2 DEF GraphTypeOK
      <4>2. changed_at'[d] <= verified_at[p] BY <2>1 DEF NoDepChanged
      <4> QED BY <4>1, <4>2 DEF StampsBounded, GraphTypeOK
    <3>3. CASE ~(d = k /\ value[k] # v)
      BY <3>1, <3>3 DEF GraphTypeOK
    <3> QED BY <3>2, <3>3
  <2>3. NoDepChanged(p) BY <2>1, <2>2 DEF NoDepChanged
  <2>4. value[p] = Compute(p, DepValues(p)) BY <2>1, <2>3 DEF CutoffSound
  <2> QED BY <2>1, <2>2, <2>4, SameDepValues
<1> QED BY <1>1, <1>2, <1>3, <1>4, <1>5

(* A cutoff moves one verified_at to the clock and nothing else. *)
LEMMA CutOffFresh ==
  ASSUME FreshInv, NEW k \in Keys, CutOff(k)
  PROVE  FreshInv'
<1> USE GraphAssumption DEF FreshInv, CutOff, Backdate, Keys
<1>1. GraphTypeOK' /\ StampsBounded' /\ InputsValued' /\ DepsValued'
  BY DEF GraphTypeOK, StampsBounded, InputsValued, DepsValued
<1>2. \A d \in Keys : Validated(d) => Validated(d)'
  BY DEF Validated, GraphTypeOK
<1>3. ValidatedBelow'
  BY <1>2 DEF ValidatedBelow, Validated, DepsValidated, GraphTypeOK
<1>4. CutoffSound'
  <2> SUFFICES ASSUME NEW p \in Derived, value'[p] # NoValue, NoDepChanged(p)'
               PROVE  value'[p] = Compute(p, DepValues(p))'
    BY DEF CutoffSound
  <2>1. DepValues(p)' = DepValues(p) BY SameDepValues
  <2>2. NoDepChanged(p)
    <3>1. CASE p # k
      BY <3>1 DEF NoDepChanged, GraphTypeOK
    <3>2. CASE p = k
      <4>1. verified_at[p] = revision \/ NoDepChanged(p)
        BY <3>2 DEF Cutoff
      <4>2. ASSUME verified_at[p] = revision PROVE NoDepChanged(p)
        BY <4>2 DEF NoDepChanged, DepsValued, StampsBounded
      <4> QED BY <4>1, <4>2
    <3> QED BY <3>1, <3>2
  <2> QED BY <2>1, <2>2 DEF CutoffSound
<1> QED BY <1>1, <1>3, <1>4

(* A recompute: no dependent of k was validated at this revision (k would  *)
(* have been, and would not be recomputed), so the new stamp is later than *)
(* every dependent's.                                                      *)
LEMMA RecomputeFresh ==
  ASSUME FreshInv, NEW k \in Derived, Recompute(k)
  PROVE  FreshInv'
<1> DEFINE v == Compute(k, DepValues(k))
<1> USE GraphAssumption DEF FreshInv, Recompute, Store, Keys
<1>0. v \in Values /\ v # NoValue
  BY ComputeType DEF DepsValidated, Validated
<1> HIDE DEF v
<1>a. Store(k, v) BY DEF v
<1>b. k \notin DepSet(k)
  BY DEF DepsValidated, Validated, Cutoff
<1>1. GraphTypeOK' BY <1>0, <1>a DEF GraphTypeOK
<1>2. StampsBounded' BY <1>a DEF GraphTypeOK, StampsBounded
<1>3. InputsValued' /\ DepsValued'
  <2>1. InputsValued' BY <1>0, <1>a DEF GraphTypeOK, InputsValued
  <2>2. DepsValued'
    BY <1>0, <1>a DEF GraphTypeOK, DepsValued, DepsValidated, Validated
  <2> QED BY <2>1, <2>2
<1>4. \A d \in Keys : Validated(d) => Validated(d)'
  BY <1>0, <1>a DEF Validated, GraphTypeOK
<1>5. ValidatedBelow'
  BY <1>a, <1>4 DEF ValidatedBelow, Validated, DepsValidated, GraphTypeOK
<1>6. CutoffSound'
  <2> SUFFICES ASSUME NEW p \in Derived, value'[p] # NoValue, NoDepChanged(p)'
               PROVE  value'[p] = Compute(p, DepValues(p))'
    BY DEF CutoffSound
  <2>1. CASE p = k
    <3>1. DepValues(k)' = DepValues(k)
      BY <1>a, <1>b, SameDepValues DEF GraphTypeOK
    <3>2. value'[k] = v BY <1>a DEF GraphTypeOK
    <3> QED BY <2>1, <3>1, <3>2 DEF v
  <2>2. CASE p # k
    <3>1. value'[p] = value[p] /\ verified_at'[p] = verified_at[p]
      BY <1>a, <2>2 DEF GraphTypeOK
    <3>2. \A d \in DepSet(p) : value'[d] = value[d] /\ changed_at'[d] = changed_at[d]
      <4> SUFFICES ASSUME NEW d \in DepSet(p)
                   PROVE  value'[d] = value[d] /\ changed_at'[d] = changed_at[d]
        OBVIOUS
      <4>1. d \in Keys BY <3>1 DEF DepsValued
      <4>2. CASE d = k /\ value[k] # v
        <5>1. changed_at'[d] = revision BY <1>a, <4>2 DEF GraphTypeOK
        <5>2. changed_at'[d] <= verified_at[p] BY <3>1 DEF NoDepChanged
        <5>3. verified_at[p] = revision
          BY <5>1, <5>2 DEF StampsBounded, GraphTypeOK
        <5>4. Validated(k)
          BY <3>1, <4>2, <5>3 DEF ValidatedBelow, Validated, DepsValidated
        <5> QED BY <5>4 DEF Validated, Cutoff
      <4>3. CASE ~(d = k /\ value[k] # v)
        BY <1>a, <4>1, <4>3 DEF GraphTypeOK
      <4> QED BY <4>2, <4>3
    <3>3. NoDepChanged(p) BY <3>1, <3>2 DEF NoDepChanged
    <3> QED BY <3>1, <3>2, <3>3, SameDepValues DEF CutoffSound
  <2> QED BY <2>1, <2>2
<1> QED BY <1>1, <1>2, <1>3, <1>5, <1>6

(* Every step of the graph keeps the invariant. *)
LEMMA FreshInvInductive == FreshInv /\ [Next]_graph => FreshInv'
<1> SUFFICES ASSUME FreshInv, [Next]_graph PROVE FreshInv'
  OBVIOUS
<1>1. CASE UNCHANGED graph
  BY <1>1 DEF graph, FreshInv, GraphTypeOK, StampsBounded, InputsValued, DepsValued,
              ValidatedBelow, CutoffSound, Validated, DepsValidated, NoDepChanged, DepValues
<1> QED BY <1>1, SetInputFresh, CutOffFresh, RecomputeFresh DEF Next

(* The invariant is strong enough: validated means no dependency changed   *)
(* since, and then the cutoff's soundness gives the value.                 *)
LEMMA FreshInvImpliesFresh == FreshInv => Fresh
<1> SUFFICES ASSUME FreshInv, NEW k \in Derived, Validated(k)
             PROVE  DepsValidated(k) /\ value[k] = Compute(k, DepValues(k))
  BY DEF Fresh
<1>1. DepsValidated(k) BY DEF FreshInv, ValidatedBelow
<1>2. NoDepChanged(k)
  BY <1>1 DEF NoDepChanged, DepsValidated, Validated, FreshInv, StampsBounded
<1> QED BY <1>1, <1>2 DEF FreshInv, CutoffSound, Validated

(* set_input, the cutoff and the recompute keep the stamps bounded, the    *)
(* dependencies validated first and every future cutoff sound.             *)
THEOREM FreshInvariant == Spec => []FreshInv
  BY InitFresh, FreshInvInductive, PTL DEF Spec

(* The graph never serves a stale value: every node validated at the       *)
(* current revision equals its closure applied to its dependencies' values.*)
THEOREM NeverStale == Spec => []Fresh
  BY FreshInvariant, FreshInvImpliesFresh, PTL

(* Every change of a value is stamped with the revision it happened at, so *)
(* that dependents see it, and values never disappear.                     *)
THEOREM ChangesStamped == Spec => ChangesAreStamped
<1>1. FreshInv /\ [Next]_graph =>
        [\A k \in Keys : value'[k] # value[k] =>
           value'[k] # NoValue /\ changed_at'[k] = revision']_graph
  <2> SUFFICES ASSUME FreshInv, Next, NEW k \in Keys, value'[k] # value[k]
               PROVE  value'[k] # NoValue /\ changed_at'[k] = revision'
    BY DEF graph
  <2> USE GraphAssumption DEF FreshInv, GraphTypeOK
  <2>1. ASSUME NEW i \in Inputs, NEW v \in Values, SetInput(i, v)
        PROVE  value'[k] # NoValue /\ changed_at'[k] = revision'
    BY <2>1 DEF SetInput, set_input, Keys
  <2>2. ASSUME NEW i \in Keys, CutOff(i) PROVE FALSE
    BY <2>2 DEF CutOff, Backdate
  <2>3. ASSUME NEW i \in Derived, Recompute(i)
        PROVE  value'[k] # NoValue /\ changed_at'[k] = revision'
    <3>1. Compute(i, DepValues(i)) \in Values
      BY <2>3, ComputeType DEF Recompute, DepsValidated, Validated
    <3> QED BY <2>3, <3>1 DEF Recompute, Store, Keys
  <2> QED BY <2>1, <2>2, <2>3 DEF Next
<1> QED BY <1>1, FreshInvariant, PTL DEF Spec, ChangesAreStamped
-----------------------------------------------------------------------------
(* Warm is cold. *)

(* What a request reaches is the least closed set that holds its target. *)
LEMMA ReachLeast ==
  ASSUME NEW k \in Named
  PROVE  /\ k \in ReachFrom(k) /\ ReachFrom(k) \subseteq Named /\ Closed(ReachFrom(k))
         /\ \A S : k \in S /\ Closed(S) => ReachFrom(k) \subseteq S
<1>1. ReachFrom(k) = {x \in Named : \A S \in SUBSET Named : k \in S /\ Closed(S) => x \in S}
  BY DEF ReachFrom, Reach
<1>2. Closed(Named)
  <2> SUFFICES ASSUME NEW x \in Named, NEW d \in DepSet(x) PROVE d \in Named
    BY DEF Closed
  <2>1. x \in Derived
    BY DEF DepSet, DepsOf
  <2> QED BY <2>1 DEF Named, Keys
<1>3. Closed(ReachFrom(k))
  <2> SUFFICES ASSUME NEW x \in ReachFrom(k), NEW d \in DepSet(x) PROVE d \in ReachFrom(k)
    BY DEF Closed
  <2>1. d \in Named
    BY <1>1, <1>2 DEF Closed
  <2>2. ASSUME NEW S \in SUBSET Named, k \in S, Closed(S) PROVE d \in S
    BY <1>1, <2>2 DEF Closed
  <2> QED BY <1>1, <2>1, <2>2
<1>4. ASSUME NEW S, k \in S, Closed(S) PROVE ReachFrom(k) \subseteq S
  <2>1. k \in S \cap Named /\ Closed(S \cap Named)
    BY <1>2, <1>4 DEF Closed
  <2> QED BY <1>1, <2>1
<1> QED BY <1>1, <1>3, <1>4

(* Beyond itself, a node reaches what its dependencies reach. *)
LEMMA ReachStep ==
  ASSUME NEW k \in Named, NEW x \in ReachFrom(k), x # k
  PROVE  \E d \in DepSet(k) : d \in Named /\ x \in ReachFrom(d)
<1> DEFINE C == {k} \cup UNION {ReachFrom(d) : d \in DepSet(k)}
<1>1. DepSet(k) \subseteq Named
  BY ReachLeast DEF Closed
<1>2. Closed(C)
  <2> SUFFICES ASSUME NEW y \in C, NEW e \in DepSet(y) PROVE e \in C
    BY DEF Closed
  <2>1. CASE y = k
    BY <1>1, <2>1, ReachLeast
  <2>2. ASSUME NEW d \in DepSet(k), y \in ReachFrom(d) PROVE e \in C
    <3>1. e \in ReachFrom(d)
      BY <1>1, <2>2, ReachLeast DEF Closed
    <3> QED BY <3>1
  <2> QED BY <2>1, <2>2
<1>3. x \in C
  BY <1>2, ReachLeast
<1> QED BY <1>1, <1>3

(* One more validated node keeps the order, if its dependencies were there *)
(* before it.                                                              *)
LEMMA OrderedKept ==
  ASSUME FreshInv, ValidatedOrdered, NEW k \in Keys,
         \A x \in Derived : Validated(x)' => Validated(x) \/ (x = k /\ DepsValidated(k))
  PROVE  ValidatedOrdered'
<1> DEFINE V == {x \in Derived : Validated(x)}
<1> SUFFICES ASSUME NEW S \in SUBSET {x \in Derived : Validated(x)'}, S # {}
             PROVE  \E x \in S : DepSet(x) \cap S = {}
  BY DEF ValidatedOrdered, DepSet, DepsOf
<1>1. CASE S \subseteq V
  BY <1>1 DEF ValidatedOrdered
<1>2. CASE ~(S \subseteq V)
  <2>1. k \in S /\ k \notin V /\ S \ {k} \subseteq V /\ DepsValidated(k) /\ k \in Derived
    BY <1>2
  <2>2. \A d \in DepSet(k) : Validated(d)
    BY <2>1 DEF DepsValidated
  <2>3. CASE S \ {k} = {}
    <3>1. k \notin DepSet(k)
      BY <2>1, <2>2
    <3> QED BY <2>1, <2>3, <3>1
  <2>4. CASE S \ {k} # {}
    <3>1. PICK x \in S \ {k} : DepSet(x) \cap (S \ {k}) = {}
      BY <2>1, <2>4 DEF ValidatedOrdered
    <3>2. \A d \in DepSet(x) : Validated(d)
      BY <2>1, <3>1 DEF FreshInv, ValidatedBelow, DepsValidated
    <3>3. k \notin DepSet(x)
      BY <2>1, <3>2
    <3> QED BY <3>1, <3>3
  <2> QED BY <2>3, <2>4
<1> QED BY <1>1, <1>2

(* Each step of the graph validates at most one node, after what it needs; *)
(* an edit leaves no derived node validated.                               *)
LEMMA OrderedInductive == FreshInv /\ ValidatedOrdered /\ [Next]_graph => ValidatedOrdered'
<1> SUFFICES ASSUME FreshInv, ValidatedOrdered, [Next]_graph PROVE ValidatedOrdered'
  OBVIOUS
<1>1. CASE UNCHANGED graph
  BY <1>1 DEF graph, ValidatedOrdered, Validated, DepSet, DepsOf
<1>2. ASSUME NEW k \in Inputs, NEW v \in Values, SetInput(k, v) PROVE ValidatedOrdered'
  <2>1. \A x \in Derived : ~Validated(x)'
    BY <1>2, GraphAssumption DEF SetInput, set_input, Validated, FreshInv, StampsBounded, GraphTypeOK, Keys
  <2> QED BY <2>1 DEF ValidatedOrdered
<1>3. ASSUME NEW k \in Keys, CutOff(k) PROVE ValidatedOrdered'
  <2>1. \A x \in Derived : Validated(x)' => Validated(x) \/ (x = k /\ DepsValidated(k))
    BY <1>3 DEF CutOff, Backdate, Validated, FreshInv, GraphTypeOK
  <2> QED BY <2>1, OrderedKept
<1>4. ASSUME NEW k \in Derived, Recompute(k) PROVE ValidatedOrdered'
  <2>1. \A x \in Derived : Validated(x)' => Validated(x) \/ (x = k /\ DepsValidated(k))
    BY <1>4 DEF Recompute, Store, Validated, FreshInv, GraphTypeOK
  <2> QED BY <2>1, OrderedKept DEF Keys
<1> QED BY <1>1, <1>2, <1>3, <1>4 DEF Next

(* A closed set of validated nodes meets no cycle. *)
LEMMA ValidatedAcyclic ==
  ASSUME FreshInv, ValidatedOrdered, NEW k \in Derived, Validated(k)
  PROVE  ~OnCycle(k)
<1> SUFFICES ASSUME NEW c \in DepSet(k), k \in ReachFrom(c) PROVE FALSE
  BY DEF OnCycle
<1> DEFINE V == {x \in Keys : Validated(x)}
           S == {y \in V : y \in Derived /\ k \in ReachFrom(y)}
<1>1. Closed(V) /\ V \subseteq Named
  <2>1. ASSUME NEW y \in V, NEW d \in DepSet(y) PROVE d \in V
    <3>1. y \in Derived
      BY <2>1 DEF DepSet, DepsOf
    <3> QED BY <2>1, <3>1 DEF FreshInv, ValidatedBelow, DepsValidated, Validated
  <2> QED BY <2>1 DEF Closed, Named
<1>2. k \in V /\ k \in S
  BY <1>1, ReachLeast DEF Keys
<1>3. ASSUME NEW y \in S PROVE DepSet(y) \cap S # {}
  <2>1. PICK d \in DepSet(y) : k \in ReachFrom(d)
    <3>1. CASE y = k
      BY <3>1
    <3>2. CASE y # k
      BY <1>1, <1>3, <3>2, ReachStep
    <3> QED BY <3>1, <3>2
  <2>2. d \in V
    BY <1>1, <1>3 DEF Closed
  <2>3. d \in Derived
    <3> SUFFICES ASSUME d \in Inputs PROVE FALSE
      BY <2>2 DEF Keys
    <3>1. DepSet(d) = {}
      BY GraphAssumption DEF DepSet, DepsOf
    <3>2. d \in Named /\ Closed({d})
      BY <1>1, <2>2, <3>1 DEF Closed
    <3>3. ReachFrom(d) \subseteq {d}
      BY <3>2, ReachLeast
    <3> QED BY <2>1, <3>3, GraphAssumption
  <2> QED BY <2>1, <2>2, <2>3
<1>4. S \subseteq {x \in Derived : Validated(x)}
  OBVIOUS
<1> QED BY <1>2, <1>3, <1>4 DEF ValidatedOrdered

(* The recursion that computes values from scratch has a solution on a     *)
(* closed set of validated nodes, the values they have, and only that one. *)
LEMMA ValuesAreCold ==
  ASSUME FreshInv, ValidatedOrdered, NEW S \in SUBSET {k \in Keys : Validated(k)}, Closed(S)
  PROVE  Cold(S) = [k \in S |-> value[k]]
<1> DEFINE Solves(c) == c = [k \in S |-> IF k \in Inputs THEN value[k]
                                         ELSE Compute(k, [i \in DOMAIN Deps[k] |-> c[Deps[k][i]]])]
           v == [k \in S |-> value[k]]
<1>1. \A k \in S \ Inputs : k \in Derived /\ \A i \in DOMAIN Deps[k] : Deps[k][i] \in DepSet(k) \cap S
  BY DepSetFacts DEF Closed, Keys
<1>2. Solves(v)
  <2>1. ASSUME NEW k \in S \ Inputs
        PROVE  value[k] = Compute(k, [i \in DOMAIN Deps[k] |-> v[Deps[k][i]]])
    <3>1. DepValues(k) = [i \in DOMAIN Deps[k] |-> v[Deps[k][i]]]
      BY <1>1, <2>1 DEF DepValues
    <3>2. value[k] = Compute(k, DepValues(k))
      BY <1>1, <2>1, FreshInvImpliesFresh DEF Fresh
    <3> QED BY <3>1, <3>2
  <2> QED BY <2>1
<1>3. ASSUME NEW c, Solves(c) PROVE c = v
  <2> DEFINE T == {k \in S : c[k] # v[k]}
  <2>1. DOMAIN c = S /\ c = [k \in S |-> c[k]]
    BY <1>3
  <2>2. ASSUME T # {} PROVE FALSE
    <3>1. T \subseteq {k \in Derived : Validated(k)}
      <4>1. \A k \in S \cap Inputs : c[k] = v[k]
        BY <1>3
      <4> QED BY <1>1, <4>1
    <3>2. PICK k \in T : DepSet(k) \cap T = {}
      BY <2>2, <3>1 DEF ValidatedOrdered
    <3>3. k \in S \ Inputs
      BY <3>1, <3>2, GraphAssumption
    <3>4. \A i \in DOMAIN Deps[k] : c[Deps[k][i]] = v[Deps[k][i]]
      BY <1>1, <3>2, <3>3
    <3>5. [i \in DOMAIN Deps[k] |-> c[Deps[k][i]]] = [i \in DOMAIN Deps[k] |-> v[Deps[k][i]]]
      BY <3>4
    <3>6. /\ c[k] = Compute(k, [i \in DOMAIN Deps[k] |-> c[Deps[k][i]]])
          /\ v[k] = Compute(k, [i \in DOMAIN Deps[k] |-> v[Deps[k][i]]])
      BY <1>2, <1>3, <3>3
    <3> QED BY <3>2, <3>5, <3>6
  <2> QED BY <2>1, <2>2
<1>4. Cold(S) = CHOOSE c : Solves(c)
  BY DEF Cold
<1> HIDE DEF Solves, v
<1>5. (CHOOSE c : Solves(c)) = v
  BY <1>2, <1>3
<1> QED BY <1>4, <1>5 DEF v

(* A node is validated only after its dependencies, so no chain of         *)
(* dependencies leads from a validated node back to it (request_inner).    *)
THEOREM AlwaysOrdered == Spec => []ValidatedOrdered
<1>1. GraphInit => ValidatedOrdered
  BY GraphAssumption DEF GraphInit, ValidatedOrdered, Validated, Keys
<1> QED BY <1>1, FreshInvariant, OrderedInductive, PTL DEF Spec

LEMMA OrderedIsCold == FreshInv /\ ValidatedOrdered => WarmIsCold
<1> SUFFICES ASSUME FreshInv, ValidatedOrdered, NEW t \in Keys, Validated(t)
             PROVE  \A k \in ReachFrom(t) :
                      k \in Keys /\ ~OnCycle(k) /\ value[k] = Cold(ReachFrom(t))[k]
  BY DEF WarmIsCold
<1> DEFINE V == {x \in Keys : Validated(x)}
<1>1. Closed(V) /\ t \in Named
  <2>1. ASSUME NEW y \in V, NEW d \in DepSet(y) PROVE d \in V
    <3>1. y \in Derived
      BY <2>1 DEF DepSet, DepsOf
    <3> QED BY <2>1, <3>1 DEF FreshInv, ValidatedBelow, DepsValidated, Validated
  <2> QED BY <2>1 DEF Closed, Named
<1>2. ReachFrom(t) \subseteq V /\ Closed(ReachFrom(t)) /\ t \in ReachFrom(t)
  BY <1>1, ReachLeast
<1>3. ASSUME NEW k \in ReachFrom(t) PROVE k \in Keys /\ ~OnCycle(k)
  <2>1. CASE k \in Derived
    BY <1>2, <2>1, ValidatedAcyclic
  <2>2. CASE k \in Inputs
    BY <1>2, <2>2, GraphAssumption DEF OnCycle, DepSet, DepsOf
  <2> QED BY <1>2, <2>1, <2>2 DEF Keys
<1>4. Cold(ReachFrom(t)) = [k \in ReachFrom(t) |-> value[k]]
  BY <1>2, ValuesAreCold
<1> QED BY <1>2, <1>3, <1>4

(* Whatever was edited, cut off, cancelled or failed before: a validated   *)
(* node has the value a build from scratch gives it from today's inputs,   *)
(* and nothing it can reach is unknown or on a cycle (request_inner).      *)
THEOREM AlwaysCold == Spec => []WarmIsCold
  BY AlwaysOrdered, FreshInvariant, OrderedIsCold, PTL
=============================================================================
