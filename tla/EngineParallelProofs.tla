------------------------ MODULE EngineParallelProofs ------------------------
(***************************************************************************)
(* The parallel request of the engine, for every finite graph, every       *)
(* number of workers and every interleaving of coordinator, workers and    *)
(* watcher: its books are exact, each of its steps is a step of            *)
(* IncrementalGraph or none, and so it never serves a stale value.         *)
(*                                                                         *)
(* What makes BooksTrue inductive: pending[k] = 0 exactly when k's         *)
(* dependencies are all in done, so whatever is ready, queued, running or  *)
(* answered has only validated dependencies; and since each key is in at   *)
(* most one of these places, no step changes what another job was computed *)
(* from.  SameAsSerial follows from how the graph differs from the one the *)
(* request found (SinceBefore).                                            *)
(***************************************************************************)
EXTENDS EngineParallel, SequenceTheorems, FiniteSetTheorems, TLAPS

-----------------------------------------------------------------------------
(* Deques. *)

LEMMA RangeIs ==
  ASSUME NEW S, NEW s \in Seq(S)
  PROVE  /\ Len(s) \in Nat /\ DOMAIN s = 1..Len(s)
         /\ Range(s) = {s[i] : i \in 1..Len(s)} /\ Range(s) \subseteq S
  BY LenProperties, ElementOfSeq DEF Range

(* Taking the head of a deque. *)
LEMMA Taken ==
  ASSUME NEW S, NEW s \in Seq(S), s # <<>>
  PROVE  /\ Head(s) = s[1] /\ Head(s) \in S
         /\ Len(s) \in Nat \ {0} /\ DOMAIN s = 1..Len(s)
         /\ Tail(s) \in Seq(S) /\ Len(Tail(s)) = Len(s) - 1 /\ DOMAIN Tail(s) = 1..(Len(s) - 1)
         /\ \A i \in DOMAIN Tail(s) : i + 1 \in DOMAIN s /\ Tail(s)[i] = s[i + 1]
         /\ 1 \in DOMAIN s /\ \A i \in DOMAIN Tail(s) : i + 1 # 1
         /\ Range(s) = Range(Tail(s)) \cup {Head(s)}
         /\ IsInjective(s) => IsInjective(Tail(s)) /\ Head(s) \notin Range(Tail(s))
<1> DEFINE n == Len(s)
           t == Tail(s)
<1>1. n \in Nat \ {0} /\ DOMAIN s = 1..n
  BY EmptySeq, LenProperties
<1>2. t \in Seq(S) /\ Len(t) = n - 1 /\ DOMAIN t = 1..(n - 1)
  BY HeadTailProperties, LenProperties
<1>3. \A i \in DOMAIN t : t[i] = s[i + 1]
  BY <1>2, HeadTailProperties
<1>4. Head(s) = s[1] /\ Head(s) \in S
  BY <1>1, HeadTailProperties
<1> HIDE DEF n, t
<1>5. /\ 1 \in DOMAIN s
      /\ \A i \in DOMAIN t : i + 1 \in DOMAIN s /\ i \in Nat /\ i + 1 # 1
      /\ \A i \in DOMAIN s : i = 1 \/ (i - 1 \in DOMAIN t /\ i = (i - 1) + 1)
  BY <1>1, <1>2
<1>6. Range(s) = Range(t) \cup {s[1]}
  <2>1. \A i \in DOMAIN t : t[i] \in Range(s) BY <1>3, <1>5 DEF Range
  <2>2. s[1] \in Range(s) BY <1>5 DEF Range
  <2>3. ASSUME NEW i \in DOMAIN s PROVE s[i] \in Range(t) \cup {s[1]}
    <3>1. CASE i = 1 BY <3>1
    <3>2. CASE i - 1 \in DOMAIN t /\ i = (i - 1) + 1
      <4>1. PICK j \in DOMAIN t : i = j + 1 BY <3>2
      <4>2. s[i] = t[j] BY <1>3, <4>1
      <4> QED BY <4>2 DEF Range
    <3> QED BY <1>5, <3>1, <3>2
  <2> QED BY <2>1, <2>2, <2>3 DEF Range
<1>7. ASSUME IsInjective(s) PROVE IsInjective(t) /\ s[1] \notin Range(t)
  <2>1. ASSUME NEW i \in DOMAIN t, NEW j \in DOMAIN t, t[i] = t[j] PROVE i = j
    <3>1. s[i + 1] = s[j + 1] BY <1>3, <2>1
    <3>2. i + 1 = j + 1 BY <1>5, <1>7, <3>1 DEF IsInjective
    <3> QED BY <1>5, <3>2
  <2>2. ASSUME NEW i \in DOMAIN t, t[i] = s[1] PROVE FALSE
    <3>1. s[i + 1] = s[1] BY <1>3, <2>2
    <3> QED BY <1>5, <1>7, <3>1 DEF IsInjective
  <2> QED BY <2>1, <2>2 DEF IsInjective, Range
<1> QED BY <1>1, <1>2, <1>3, <1>4, <1>5, <1>6, <1>7 DEF n, t

(* Adding one at the end. *)
LEMMA Added ==
  ASSUME NEW S, NEW s \in Seq(S), NEW e \in S
  PROVE  /\ Append(s, e) \in Seq(S) /\ Len(Append(s, e)) = Len(s) + 1
         /\ Len(s) \in Nat /\ DOMAIN s = 1..Len(s)
         /\ \A i \in DOMAIN Append(s, e) :
              \/ i \in DOMAIN s /\ Append(s, e)[i] = s[i]
              \/ i = Len(s) + 1 /\ Append(s, e)[i] = e
         /\ Range(Append(s, e)) = Range(s) \cup {e}
         /\ IsInjective(s) /\ e \notin Range(s) => IsInjective(Append(s, e))
<1> DEFINE n == Len(s)
           t == Append(s, e)
<1>1. /\ n \in Nat /\ DOMAIN s = 1..n
      /\ t \in Seq(S) /\ Len(t) = n + 1 /\ DOMAIN t = 1..(n + 1)
      /\ \A i \in 1..n : t[i] = s[i]
      /\ t[n + 1] = e
  BY LenProperties, AppendProperties
<1> HIDE DEF n, t
<1>2. /\ \A i \in DOMAIN t : i \in DOMAIN s \/ i = n + 1
      /\ DOMAIN s \subseteq DOMAIN t /\ n + 1 \in DOMAIN t
  BY <1>1
<1>3. Range(t) = Range(s) \cup {e}
  BY <1>1, <1>2 DEF Range
<1>4. ASSUME IsInjective(s), e \notin Range(s) PROVE IsInjective(t)
  BY <1>1, <1>2, <1>4 DEF IsInjective, Range
<1> QED BY <1>1, <1>2, <1>3, <1>4 DEF n, t

(* Joining two deques. *)
LEMMA Joined ==
  ASSUME NEW S, NEW s \in Seq(S), NEW t \in Seq(S)
  PROVE  /\ s \o t \in Seq(S) /\ Range(s \o t) = Range(s) \cup Range(t)
         /\ IsInjective(s) /\ IsInjective(t) /\ Range(s) \cap Range(t) = {} => IsInjective(s \o t)
<1> DEFINE n == Len(s)
           m == Len(t)
           u == s \o t
<1>1. /\ n \in Nat /\ DOMAIN s = 1..n /\ m \in Nat /\ DOMAIN t = 1..m
      /\ u \in Seq(S) /\ DOMAIN u = 1..(n + m)
      /\ \A i \in 1..(n + m) : u[i] = IF i <= n THEN s[i] ELSE t[i - n]
  BY LenProperties, ConcatProperties
<1>2. Range(u) = Range(s) \cup Range(t)
  BY RangeConcatenation
<1> HIDE DEF n, m, u
<1>3. ASSUME NEW i \in DOMAIN u
      PROVE  \/ i \in DOMAIN s /\ u[i] = s[i]
             \/ i - n \in DOMAIN t /\ u[i] = t[i - n] /\ i \in Nat
  BY <1>1
<1>4. ASSUME IsInjective(s), IsInjective(t), Range(s) \cap Range(t) = {} PROVE IsInjective(u)
  <2> SUFFICES ASSUME NEW i \in DOMAIN u, NEW j \in DOMAIN u, u[i] = u[j] PROVE i = j
    BY DEF IsInjective
  <2>1. CASE i \in DOMAIN s /\ u[i] = s[i] /\ j \in DOMAIN s /\ u[j] = s[j]
    BY <1>4, <2>1 DEF IsInjective
  <2>2. CASE i \in DOMAIN s /\ u[i] = s[i] /\ j - n \in DOMAIN t /\ u[j] = t[j - n]
    BY <1>4, <2>2 DEF Range
  <2>3. CASE j \in DOMAIN s /\ u[j] = s[j] /\ i - n \in DOMAIN t /\ u[i] = t[i - n]
    BY <1>4, <2>3 DEF Range
  <2>4. CASE /\ i - n \in DOMAIN t /\ u[i] = t[i - n] /\ i \in Nat
             /\ j - n \in DOMAIN t /\ u[j] = t[j - n] /\ j \in Nat
    <3>1. i - n = j - n BY <1>4, <2>4 DEF IsInjective
    <3> QED BY <1>1, <2>4, <3>1
  <2> QED BY <1>3, <2>1, <2>2, <2>3, <2>4
<1> QED BY <1>1, <1>2, <1>4 DEF n, m, u

(* The nodes that become ready together, in whatever order the map yields. *)
LEMMA AnyOrder ==
  ASSUME NEW S, NEW T, T \subseteq S, IsFiniteSet(T), NEW s \in SetToSeqs(T)
  PROVE  s \in Seq(S) /\ IsInjective(s) /\ Range(s) \subseteq T
<1>1. PICK n \in Nat : n = Cardinality(T)
  BY FS_CardinalityType
<1>2. s \in [1..n -> T] /\ \A i, j \in 1..n : i # j => s[i] # s[j]
  BY <1>1 DEF SetToSeqs
<1>3. s \in [1..n -> S]
  BY <1>2
<1>4. s \in Seq(S)
  BY <1>3, SeqDef
<1> QED BY <1>2, <1>4 DEF IsInjective, Range

-----------------------------------------------------------------------------
(* Counting edges. *)

Waiting(r, D) == {i \in DOMAIN DepsOf(r) : DepsOf(r)[i] \notin D}

LEMMA DepsFinite ==
  ASSUME NEW r, NEW I, I \subseteq DOMAIN DepsOf(r)
  PROVE  IsFiniteSet(I) /\ Cardinality(I) \in Nat /\ (Cardinality(I) = 0 <=> I = {})
<1>1. IsFiniteSet(DOMAIN DepsOf(r))
  <2>1. CASE r \in Derived
    <3>1. PICK n \in Nat : DOMAIN DepsOf(r) = 1..n
      BY <2>1, GraphAssumption DEF DepsOf
    <3> QED BY <3>1, FS_Interval
  <2>2. CASE r \notin Derived
    <3>1. DepsOf(r) = <<>> BY <2>2 DEF DepsOf
    <3>2. DOMAIN DepsOf(r) = {} BY <3>1
    <3> QED BY <3>2, FS_EmptySet
  <2> QED BY <2>1, <2>2
<1>2. IsFiniteSet(I)
  BY <1>1, FS_Subset
<1> QED BY <1>2, FS_CardinalityType, FS_EmptySet

(* Validating k takes exactly its edges out of a node's count. *)
LEMMA EdgesLeave ==
  ASSUME NEW r, NEW D, NEW k, k \notin D
  PROVE  /\ Edges(k, r) \in Nat /\ Cardinality(Waiting(r, D)) \in Nat
         /\ Cardinality(Waiting(r, D \cup {k})) = Cardinality(Waiting(r, D)) - Edges(k, r)
         /\ Edges(k, r) > 0 => Cardinality(Waiting(r, D)) > 0
<1> DEFINE E == {i \in DOMAIN DepsOf(r) : DepsOf(r)[i] = k}
           W == Waiting(r, D)
<1>1. W \subseteq DOMAIN DepsOf(r) /\ E \subseteq W /\ E \subseteq DOMAIN DepsOf(r)
  BY DEF Waiting
<1>2. /\ IsFiniteSet(W) /\ Cardinality(W) \in Nat /\ (Cardinality(W) = 0 <=> W = {})
      /\ Cardinality(E) \in Nat /\ (Cardinality(E) = 0 <=> E = {})
  BY <1>1, DepsFinite
<1>3. Waiting(r, D \cup {k}) = W \ E /\ W \cap E = E
  BY DEF Waiting
<1>4. Cardinality(W \ E) = Cardinality(W) - Cardinality(W \cap E)
  BY <1>2, FS_Difference
<1>5. Edges(k, r) = Cardinality(E)
  BY DEF Edges
<1>6. Cardinality(E) > 0 => Cardinality(W) > 0
  BY <1>1, <1>2
<1> QED BY <1>2, <1>3, <1>4, <1>5, <1>6

(* A node whose count is zero has all its dependencies in done. *)
LEMMA ZeroMeansDone ==
  ASSUME NEW r, Cardinality(Waiting(r, done)) = 0
  PROVE  DepSet(r) \subseteq done
<1>1. Waiting(r, done) = {}
  BY DepsFinite DEF Waiting
<1> QED BY <1>1 DEF Waiting, DepSet

(* So whatever has been scheduled can be computed. *)
LEMMA ScheduledReady ==
  ASSUME BooksTrue, cpc # "idle", NEW k \in Range(ready) \cup Range(recomputed) \cup done
  PROVE  /\ k \in Keys /\ k \in DOMAIN pending /\ pending[k] = 0
         /\ DepSet(k) \subseteq done /\ DepsValidated(k)
         /\ k \in Derived => /\ DepValues(k) \in Seq(Values)
                             /\ Compute(k, DepValues(k)) \in Values
<1>1. k \in Keys /\ k \in DOMAIN pending /\ pending[k] = 0
  BY DEF BooksTrue, TypeOK, Unblocked
<1>2. DepSet(k) \subseteq done
  BY <1>1, ZeroMeansDone DEF BooksTrue, PendingExact, Waiting
<1>3. DepsValidated(k)
  BY <1>2 DEF DepsValidated, BooksTrue, Unblocked
<1>4. ASSUME k \in Derived
      PROVE  DepValues(k) \in Seq(Values) /\ Compute(k, DepValues(k)) \in Values
  <2>1. \A i \in DOMAIN Deps[k] : Validated(Deps[k][i])
    BY <1>3, <1>4 DEF DepsValidated, DepSet, DepsOf
  <2>2. \A i \in DOMAIN Deps[k] : value[Deps[k][i]] \in Values
    BY <2>1 DEF Validated, BooksTrue, TypeOK, GraphTypeOK
  <2>3. DepValues(k) \in [DOMAIN Deps[k] -> Values]
    BY <2>2 DEF DepValues
  <2>4. PICK n \in Nat : DOMAIN Deps[k] = 1..n
    BY <1>4, GraphAssumption
  <2> QED BY <1>4, <2>3, <2>4, ComputeAssumption, SeqDef
<1> QED BY <1>1, <1>2, <1>3, <1>4

-----------------------------------------------------------------------------
(* What a step of the graph leaves of the books. *)

(* A step that validates k. *)
Validates(k, v) == (value[k] # NoValue /\ Backdate(k)) \/ Store(k, v)

LEMMA GraphKept ==
  ASSUME GraphTypeOK, InputsValued, NEW k \in Keys, NEW v \in Values, Validates(k, v)
  PROVE  /\ GraphTypeOK' /\ InputsValued' /\ revision' = revision
         /\ Validated(k)' /\ \A d : Validated(d) => Validated(d)'
         /\ \A d \in Keys \ {k} : /\ value'[d] = value[d]
                                  /\ verified_at'[d] = verified_at[d]
                                  /\ changed_at'[d] = changed_at[d]
<1> USE DEF Validates
<1>1. GraphTypeOK' /\ revision' = revision
  BY DEF GraphTypeOK, Backdate, Store
<1>2. \A d \in Keys \ {k} : /\ value'[d] = value[d]
                            /\ verified_at'[d] = verified_at[d]
                            /\ changed_at'[d] = changed_at[d]
  BY DEF GraphTypeOK, Backdate, Store
<1>3. value'[k] # NoValue /\ verified_at'[k] = revision
  BY GraphAssumption DEF GraphTypeOK, Backdate, Store
<1>4. InputsValued'
  BY <1>2, <1>3 DEF InputsValued, Keys
<1>5. Validated(k)'
  BY <1>1, <1>3 DEF Validated
<1>6. ASSUME NEW d, Validated(d) PROVE Validated(d)'
  BY <1>1, <1>2, <1>5, <1>6 DEF Validated
<1> QED BY <1>1, <1>2, <1>4, <1>5, <1>6

LEMMA JobsTyped ==
  ASSUME TypeOK, JobsTrue
  PROVE  /\ DOMAIN tasks = 1..Len(tasks) /\ \A i \in DOMAIN tasks : tasks[i] \in Task
         /\ DOMAIN results = 1..Len(results) /\ \A i \in DOMAIN results : results[i] \in Result
         /\ \A w \in Running : wtask[w] \in Task
<1>1. /\ DOMAIN tasks = 1..Len(tasks) /\ \A i \in DOMAIN tasks : tasks[i] \in Task
      /\ DOMAIN results = 1..Len(results) /\ \A i \in DOMAIN results : results[i] \in Result
  BY RangeIs, ElementOfSeq DEF TypeOK
<1>2. ASSUME NEW w \in Running PROVE wtask[w] \in Task
  <2>1. wtask[w] \in Task \/ wtask[w] = NoTask BY DEF TypeOK, Running
  <2>2. wtask[w].key \in Range(recomputed) BY DEF JobsTrue, TaskTrue, Open
  <2>3. wtask[w].key \in Derived BY <2>2, RangeIs DEF TypeOK
  <2>4. NoTask.key \in Derived => NoTask \in Task BY EmptySeq DEF NoTask, Task
  <2> QED BY <2>1, <2>3, <2>4
<1> QED BY <1>1, <1>2

(* Another job keeps its inputs and its reason to run. *)
LEMMA OthersKept ==
  ASSUME BooksTrue, cpc # "idle",
         NEW k \in Keys \ done, NEW v \in Values, Validates(k, v),
         done' = done \cup {k}, UNCHANGED recomputed
  PROVE  /\ \A t \in Task : t.key # k /\ TaskTrue(t) => TaskTrue(t)'
         /\ \A r \in Result : r.key # k /\ ResultTrue(r) => ResultTrue(r)'
<1>1. /\ revision' = revision
      /\ \A d \in Keys \ {k} : /\ value'[d] = value[d]
                               /\ verified_at'[d] = verified_at[d]
                               /\ changed_at'[d] = changed_at[d]
  BY GraphKept DEF BooksTrue, TypeOK
<1>2. ASSUME NEW j \in Derived, j # k, Open(j)
      PROVE  Open(j)' /\ DepValues(j)' = DepValues(j)
  <2>1. j \in Range(recomputed)
    BY <1>2 DEF Open
  <2>2. DepSet(j) \subseteq Keys \ {k} /\ j \in Keys \ {k}
    BY <1>2, <2>1, ScheduledReady DEF BooksTrue, TypeOK
  <2>3. \A i \in DOMAIN Deps[j] : Deps[j][i] \in DepSet(j)
    BY <1>2 DEF DepSet, DepsOf
  <2>4. DepValues(j)' = DepValues(j)
    BY <1>1, <2>2, <2>3 DEF DepValues
  <2>5. Cutoff(j)' <=> Cutoff(j)
    BY <1>1, <2>2 DEF Cutoff, NoDepChanged
  <2> QED BY <1>2, <2>4, <2>5 DEF Open
<1>3. ASSUME NEW t \in Task, t.key # k, TaskTrue(t) PROVE TaskTrue(t)'
  <2>1. t.key \in Derived BY DEF Task
  <2> QED BY <1>2, <1>3, <2>1 DEF TaskTrue
<1>4. ASSUME NEW r \in Result, r.key # k, ResultTrue(r) PROVE ResultTrue(r)'
  <2>1. r.key \in Derived BY DEF Result
  <2> QED BY <1>2, <1>4, <2>1 DEF ResultTrue
<1> QED BY <1>3, <1>4

(* A step that leaves graph and tables alone leaves the books on them. *)
LEMMA TablesKept ==
  ASSUME UNCHANGED <<graph, pending, ready, done, recomputed>>
  PROVE  /\ GraphTypeOK => GraphTypeOK'
         /\ InputsValued => InputsValued'
         /\ PendingExact => PendingExact'
         /\ Unblocked => Unblocked'
         /\ ReadyOnce => ReadyOnce'
         /\ \A t : TaskTrue(t) => TaskTrue(t)'
         /\ \A r : ResultTrue(r) => ResultTrue(r)'
<1>1. /\ value' = value /\ verified_at' = verified_at /\ changed_at' = changed_at
      /\ revision' = revision
      /\ pending' = pending /\ ready' = ready /\ done' = done /\ recomputed' = recomputed
  BY DEF graph
<1>2. \A k : Open(k)' <=> Open(k)
  BY <1>1 DEF Open, Cutoff, NoDepChanged
<1>3. \A k : DepValues(k)' = DepValues(k)
  BY <1>1 DEF DepValues
<1>4. \A k : Validated(k)' <=> Validated(k)
  BY <1>1 DEF Validated
<1>5. /\ \A t : TaskTrue(t) => TaskTrue(t)'
      /\ \A r : ResultTrue(r) => ResultTrue(r)'
  BY <1>2, <1>3 DEF TaskTrue, ResultTrue
<1> QED BY <1>1, <1>4, <1>5 DEF GraphTypeOK, InputsValued, PendingExact, Unblocked, ReadyOnce

-----------------------------------------------------------------------------
(* Validating a scheduled node: relax_dependents. *)

(* The counts stay exact, and the nodes that join the deque are new to it. *)
LEMMA Relaxed ==
  ASSUME BooksTrue, cpc # "idle",
         NEW k \in Keys \ done, NEW v \in Values, Validates(k, v),
         k \in DOMAIN pending, pending[k] = 0,
         NEW rest \in Seq(Keys), IsInjective(rest), Range(rest) \subseteq Range(ready) \ {k},
         relax_dependents(k, rest), UNCHANGED recomputed
  PROVE  /\ DOMAIN pending' = DOMAIN pending /\ done' = done \cup {k}
         /\ ready' \in Seq(Keys) /\ done' \subseteq Keys
         /\ PendingExact' /\ Unblocked' /\ ReadyOnce'
<1> DEFINE now == [r \in DOMAIN pending |-> pending[r] - Edges(k, r)]
           new == {r \in DOMAIN pending : now[r] = 0 /\ Edges(k, r) > 0}
<1>1. /\ done' = done \cup {k} /\ pending' = now
      /\ \E s \in SetToSeqs(new) : ready' = rest \o s
  BY DEF relax_dependents
<1>2. PICK s \in SetToSeqs(new) : ready' = rest \o s
  BY <1>1
<1>3. PendingExact /\ Unblocked /\ ReadyOnce /\ TypeOK
  BY DEF BooksTrue
<1>4. DOMAIN pending' = DOMAIN pending
  BY <1>1
<1>5. ASSUME NEW r \in DOMAIN pending
      PROVE  /\ pending[r] \in Nat /\ Edges(k, r) \in Nat
             /\ pending'[r] = pending[r] - Edges(k, r)
             /\ pending'[r] = Cardinality(Waiting(r, done'))
             /\ Edges(k, r) > 0 => pending[r] > 0
  <2>1. pending[r] = Cardinality(Waiting(r, done))
    BY <1>3 DEF PendingExact, Waiting
  <2> QED BY <1>1, <2>1, EdgesLeave
<1>6. PendingExact'
  BY <1>4, <1>5 DEF PendingExact, Waiting
<1>7. IsFiniteSet(new) /\ new \subseteq Keys
  <2>1. new \subseteq Keys BY <1>3 DEF TypeOK
  <2>2. IsFiniteSet(Keys) BY FiniteAssumption, FS_Union DEF Keys
  <2> QED BY <2>1, <2>2, FS_Subset
<1>8. s \in Seq(Keys) /\ IsInjective(s) /\ Range(s) \subseteq new
  BY <1>7, AnyOrder
<1>9. \A r \in Range(ready) \cup Range(recomputed) \cup done \cup {k} :
        /\ r \notin new
        /\ r \in DOMAIN pending' /\ pending'[r] = 0
  <2>1. ASSUME NEW r \in Range(ready) \cup Range(recomputed) \cup done \cup {k}
        PROVE  /\ r \notin new
               /\ r \in DOMAIN pending' /\ pending'[r] = 0
    <3>1. r \in DOMAIN pending /\ pending[r] = 0
      BY <1>3 DEF Unblocked
    <3>2. /\ pending[r] \in Nat /\ Edges(k, r) \in Nat
          /\ pending'[r] = pending[r] - Edges(k, r)
          /\ Edges(k, r) > 0 => pending[r] > 0
      BY <1>5, <3>1
    <3> QED BY <1>4, <3>1, <3>2
  <2> QED BY <2>1
<1>10. ready' \in Seq(Keys) /\ Range(ready') = Range(rest) \cup Range(s) /\ IsInjective(ready')
  <2>1. Range(rest) \cap Range(s) = {}
    BY <1>8, <1>9
  <2>2. /\ rest \o s \in Seq(Keys) /\ Range(rest \o s) = Range(rest) \cup Range(s)
        /\ IsInjective(rest \o s)
    BY <1>8, <2>1, Joined
  <2> QED BY <1>2, <2>2
<1>11. ReadyOnce'
  BY <1>1, <1>3, <1>8, <1>9, <1>10 DEF ReadyOnce
<1>12. Unblocked'
  <2>1. \A r \in new : r \in DOMAIN pending' /\ pending'[r] = 0
    BY <1>1
  <2>2. \A r \in Range(ready') \cup Range(recomputed') \cup done' :
          r \in DOMAIN pending' /\ pending'[r] = 0
    BY <1>1, <1>8, <1>9, <1>10, <2>1
  <2>3. \A d \in done' : Validated(d)'
    BY <1>1, <1>3, GraphKept DEF Unblocked, TypeOK
  <2> QED BY <2>2, <2>3 DEF Unblocked
<1>13. done' \subseteq Keys
  BY <1>1, <1>3 DEF TypeOK
<1> QED BY <1>1, <1>4, <1>6, <1>10, <1>11, <1>12, <1>13

(* An input or a cutoff, validated by the coordinator itself. *)
LEMMA DispatchInlineKeeps ==
  ASSUME BooksTrue, DispatchInline
  PROVE  BooksTrue'
<1>1. /\ cpc = "dispatch" /\ ready # <<>> /\ Cutoff(Head(ready)) /\ Backdate(Head(ready))
      /\ relax_dependents(Head(ready), Tail(ready))
      /\ UNCHANGED <<pool, cpc, target, in_flight, err, recomputed, cancel, outcome, before>>
  BY DEF DispatchInline
<1>2. PICK k : k = Head(ready) OBVIOUS
<1>3. PICK rest : rest = Tail(ready) OBVIOUS
<1>4. /\ TypeOK /\ PendingExact /\ Unblocked /\ ReadyOnce /\ JobsTrue /\ JobsOnce
  BY <1>1 DEF BooksTrue
<1>5. /\ rest \in Seq(Keys) /\ IsInjective(rest) /\ k \in Keys
      /\ Range(ready) = Range(rest) \cup {k} /\ k \notin Range(rest)
  BY <1>1, <1>2, <1>3, <1>4, Taken DEF TypeOK, ReadyOnce
<1>6. /\ k \in Keys \ done /\ k \notin Range(recomputed) /\ k \in DOMAIN pending /\ pending[k] = 0
  BY <1>4, <1>5 DEF ReadyOnce, Unblocked
<1>7. PICK v \in Values : value[k] = v
  BY <1>1, <1>2, <1>4, <1>5 DEF Cutoff, InputsValued, TypeOK, GraphTypeOK
<1>8. Validates(k, v)
  BY <1>1, <1>2, <1>7, GraphAssumption DEF Validates
<1>9. /\ DOMAIN pending' = DOMAIN pending /\ done' = done \cup {k}
      /\ ready' \in Seq(Keys) /\ done' \subseteq Keys
      /\ PendingExact' /\ Unblocked' /\ ReadyOnce'
  BY <1>1, <1>2, <1>3, <1>5, <1>6, <1>8, Relaxed
<1>10. GraphTypeOK' /\ InputsValued'
  BY <1>4, <1>6, <1>8, GraphKept DEF TypeOK
<1>11. TypeOK'
  BY <1>1, <1>4, <1>9, <1>10 DEF TypeOK, pool
<1>12. JobsTrue'
  <2>1. /\ \A t \in Task : TaskTrue(t) => TaskTrue(t)'
        /\ \A r \in Result : ResultTrue(r) => ResultTrue(r)'
    BY <1>1, <1>6, <1>8, <1>9, OthersKept DEF TaskTrue, ResultTrue, Open
  <2> QED BY <1>1, <1>4, <2>1, JobsTyped DEF JobsTrue, Running, pool
<1>13. JobsOnce'
  BY <1>1, <1>4 DEF JobsOnce, Running, KeysOnce, pool
<1>14. InFlightExact' /\ ReturnsQuiescent'
  BY <1>1 DEF BooksTrue, InFlightExact, ReturnsQuiescent, Running, pool
<1> QED BY <1>9, <1>11, <1>12, <1>13, <1>14 DEF BooksTrue

-----------------------------------------------------------------------------
(* Answers come in. *)

LEMMA PoolFinite ==
  ASSUME TypeOK
  PROVE  /\ Jobs \in Nat /\ IsFiniteSet(Running) /\ Cardinality(Running) \in Nat
         /\ Len(tasks) \in Nat /\ Len(results) \in Nat
<1>1. Running \subseteq Workers BY DEF Running
<1>2. IsFiniteSet(Running) BY <1>1, FiniteAssumption, FS_Subset
<1> QED BY <1>2, FiniteAssumption, FS_CardinalityType, RangeIs DEF Jobs, TypeOK

(* Receiving an answer takes one job off the books. *)
LEMMA Received ==
  ASSUME BooksTrue, cpc = "recv", results # <<>>, results' = Tail(results),
         UNCHANGED <<tasks, wpc, wtask>>, in_flight' = in_flight - 1
  PROVE  /\ Head(results) \in Result /\ ResultTrue(Head(results))
         /\ results' \in Seq(Result) /\ Running' = Running /\ JobsOnce'
         /\ in_flight' \in 0..Jobs
         /\ in_flight' = Len(tasks') + Cardinality(Running') + Len(results')
         /\ \A i \in DOMAIN tasks : tasks[i].key # Head(results).key
         /\ \A w \in Running : wtask[w].key # Head(results).key
         /\ \A i \in DOMAIN results' : \E j \in DOMAIN results :
              results'[i] = results[j] /\ results[j].key # Head(results).key
<1>1. TypeOK /\ JobsTrue /\ JobsOnce /\ InFlightExact
  BY DEF BooksTrue
<1>2. /\ Head(results) = results[1] /\ Head(results) \in Result /\ 1 \in DOMAIN results
      /\ results' \in Seq(Result) /\ Len(results') = Len(results) - 1
      /\ Len(results) \in Nat \ {0} /\ DOMAIN results' = 1..(Len(results) - 1)
      /\ \A i \in DOMAIN results' :
           i + 1 \in DOMAIN results /\ results'[i] = results[i + 1] /\ i + 1 # 1
  BY <1>1, Taken DEF TypeOK
<1>3. ResultTrue(Head(results))
  BY <1>1, <1>2 DEF JobsTrue
<1>4. Running' = Running
  BY DEF Running
<1>5. /\ Jobs \in Nat /\ Cardinality(Running) \in Nat /\ Len(tasks) \in Nat
      /\ in_flight \in 0..Jobs /\ in_flight = Len(tasks) + Cardinality(Running) + Len(results)
  BY <1>1, PoolFinite DEF InFlightExact, TypeOK
<1>6. /\ in_flight' \in 0..Jobs
      /\ in_flight' = Len(tasks') + Cardinality(Running') + Len(results')
  BY <1>2, <1>4, <1>5
<1>7. \A i \in DOMAIN results' : \E j \in DOMAIN results :
        results'[i] = results[j] /\ results[j].key # Head(results).key
  BY <1>1, <1>2 DEF JobsOnce, KeysOnce
<1>8. JobsOnce'
  <2>1. ASSUME NEW i \in DOMAIN results', NEW j \in DOMAIN results',
               results'[i].key = results'[j].key
        PROVE  i = j
    <3>1. i + 1 = j + 1 BY <1>1, <1>2, <2>1 DEF JobsOnce, KeysOnce
    <3>2. i \in Nat /\ j \in Nat BY <1>2
    <3> QED BY <3>1, <3>2
  <2>2. \A i \in DOMAIN results' : \E j \in DOMAIN results : results'[i] = results[j]
    BY <1>7
  <2>3. KeysOnce(results)'
    BY <2>1 DEF KeysOnce
  <2>4. /\ KeysOnce(tasks)'
        /\ \A v, w \in Running' : wtask'[v].key = wtask'[w].key => v = w
        /\ \A i \in DOMAIN tasks', w \in Running' : tasks'[i].key # wtask'[w].key
    BY <1>1, <1>4 DEF JobsOnce, KeysOnce
  <2>5. /\ \A i \in DOMAIN tasks', j \in DOMAIN results' : tasks'[i].key # results'[j].key
        /\ \A w \in Running', j \in DOMAIN results' : wtask'[w].key # results'[j].key
    BY <1>1, <1>4, <2>2 DEF JobsOnce
  <2> QED BY <2>3, <2>4, <2>5 DEF JobsOnce
<1>9. /\ \A i \in DOMAIN tasks : tasks[i].key # Head(results).key
      /\ \A w \in Running : wtask[w].key # Head(results).key
  BY <1>1, <1>2 DEF JobsOnce
<1> QED BY <1>2, <1>3, <1>4, <1>6, <1>7, <1>8, <1>9

(* What an answer stores is what the graph would compute now. *)
LEMMA AnswerFacts ==
  ASSUME BooksTrue, RecvOk, NEW k, k = Head(results).key
  PROVE  /\ k \in Derived /\ k \in Keys \ done /\ k \in DOMAIN pending /\ pending[k] = 0
         /\ k \notin Range(ready) /\ DepsValidated(k) /\ ~Cutoff(k)
         /\ Compute(k, DepValues(k)) \in Values /\ Head(results).val = Compute(k, DepValues(k))
<1>1. Head(results) \in Result /\ ResultTrue(Head(results))
  BY Received DEF RecvOk
<1>2. k \in Derived /\ k \in Range(recomputed) /\ k \notin done /\ ~Cutoff(k)
  BY <1>1 DEF Result, ResultTrue, Open
<1>3. Head(results).val = Compute(k, DepValues(k))
  BY <1>1 DEF ResultTrue, RecvOk
<1>4. cpc # "idle" BY DEF RecvOk
<1>5. k \notin Range(ready)
  BY <1>2, <1>4 DEF BooksTrue, ReadyOnce
<1> QED BY <1>2, <1>3, <1>4, <1>5, ScheduledReady

LEMMA RecvOkKeeps ==
  ASSUME BooksTrue, RecvOk
  PROVE  BooksTrue'
<1>1. /\ cpc = "recv" /\ results # <<>> /\ results' = Tail(results) /\ in_flight' = in_flight - 1
      /\ Store(Head(results).key, Head(results).val)
      /\ relax_dependents(Head(results).key, ready)
      /\ cpc' = "loop"
      /\ UNCHANGED <<tasks, stopped, wpc, wtask, target, err, recomputed, cancel, outcome, before>>
  BY DEF RecvOk
<1>2. PICK k : k = Head(results).key OBVIOUS
<1>3. /\ k \in Derived /\ k \in Keys \ done /\ k \in DOMAIN pending /\ pending[k] = 0
      /\ k \notin Range(ready)
      /\ Compute(k, DepValues(k)) \in Values /\ Head(results).val = Compute(k, DepValues(k))
  BY <1>2, AnswerFacts
<1>4. PICK v \in Values : v = Head(results).val
  BY <1>3
<1>5. Validates(k, v)
  BY <1>1, <1>2, <1>4 DEF Validates
<1>6. /\ TypeOK /\ PendingExact /\ Unblocked /\ ReadyOnce /\ JobsTrue /\ JobsOnce
  BY <1>1 DEF BooksTrue
<1>7. /\ DOMAIN pending' = DOMAIN pending /\ done' = done \cup {k}
      /\ ready' \in Seq(Keys) /\ done' \subseteq Keys
      /\ PendingExact' /\ Unblocked' /\ ReadyOnce'
  <2>1. ready \in Seq(Keys) /\ IsInjective(ready) /\ Range(ready) \subseteq Range(ready) \ {k}
    BY <1>3, <1>6 DEF TypeOK, ReadyOnce
  <2> QED BY <1>1, <1>2, <1>3, <1>5, <2>1, Relaxed
<1>8. GraphTypeOK' /\ InputsValued'
  BY <1>3, <1>5, <1>6, GraphKept DEF TypeOK
<1>9. /\ results' \in Seq(Result) /\ Running' = Running /\ JobsOnce'
      /\ in_flight' \in 0..Jobs
      /\ in_flight' = Len(tasks') + Cardinality(Running') + Len(results')
      /\ \A i \in DOMAIN tasks : tasks[i].key # k
      /\ \A w \in Running : wtask[w].key # k
      /\ \A i \in DOMAIN results' : \E j \in DOMAIN results :
           results'[i] = results[j] /\ results[j].key # k
  BY <1>1, <1>2, Received
<1>10. TypeOK'
  BY <1>1, <1>6, <1>7, <1>8, <1>9 DEF TypeOK
<1>11. JobsTrue'
  <2>1. /\ \A t \in Task : t.key # k /\ TaskTrue(t) => TaskTrue(t)'
        /\ \A r \in Result : r.key # k /\ ResultTrue(r) => ResultTrue(r)'
    BY <1>1, <1>3, <1>5, <1>7, OthersKept
  <2>2. \A i \in DOMAIN tasks' : TaskTrue(tasks[i])'
    BY <1>1, <1>6, <1>9, <2>1, JobsTyped DEF JobsTrue
  <2>3. \A w \in Running' : TaskTrue(wtask[w])'
    BY <1>1, <1>6, <1>9, <2>1, JobsTyped DEF JobsTrue
  <2>4. \A i \in DOMAIN results' : ResultTrue(results[i])'
    BY <1>1, <1>6, <1>9, <2>1, JobsTyped DEF JobsTrue
  <2> QED BY <2>2, <2>3, <2>4 DEF JobsTrue
<1>12. InFlightExact' /\ ReturnsQuiescent'
  BY <1>1, <1>9 DEF InFlightExact, ReturnsQuiescent
<1> QED BY <1>7, <1>9, <1>10, <1>11, <1>12 DEF BooksTrue

LEMMA RecvErrKeeps ==
  ASSUME BooksTrue, RecvErr
  PROVE  BooksTrue'
<1>1. /\ cpc = "recv" /\ results # <<>> /\ results' = Tail(results) /\ in_flight' = in_flight - 1
      /\ cpc' = "stop"
      /\ UNCHANGED <<graph, tasks, stopped, wpc, wtask, target, pending, ready, done,
                     recomputed, cancel, outcome, before>>
  BY DEF RecvErr
<1>2. /\ TypeOK /\ PendingExact /\ Unblocked /\ ReadyOnce /\ JobsTrue /\ JobsOnce
  BY <1>1 DEF BooksTrue
<1>3. /\ GraphTypeOK' /\ InputsValued' /\ PendingExact' /\ Unblocked' /\ ReadyOnce'
      /\ \A t : TaskTrue(t) => TaskTrue(t)'
      /\ \A r : ResultTrue(r) => ResultTrue(r)'
  BY <1>1, <1>2, TablesKept DEF TypeOK
<1>4. /\ results' \in Seq(Result) /\ Running' = Running /\ JobsOnce'
      /\ in_flight' \in 0..Jobs
      /\ \A i \in DOMAIN results' : \E j \in DOMAIN results : results'[i] = results[j]
  BY <1>1, Received
<1>5. TypeOK'
  BY <1>1, <1>2, <1>3, <1>4 DEF TypeOK
<1>6. JobsTrue'
  BY <1>1, <1>2, <1>3, <1>4 DEF JobsTrue
<1>7. InFlightExact' /\ ReturnsQuiescent'
  BY <1>1 DEF InFlightExact, ReturnsQuiescent
<1> QED BY <1>3, <1>4, <1>5, <1>6, <1>7 DEF BooksTrue

-----------------------------------------------------------------------------
(* A task is handed out. *)

LEMMA DispatchTaskKeeps ==
  ASSUME BooksTrue, DispatchTask
  PROVE  BooksTrue'
<1>1. PICK k : k = Head(ready) OBVIOUS
<1>2. PICK t : t = [key |-> k, dvs |-> DepValues(k)] OBVIOUS
<1>3. /\ cpc = "dispatch" /\ in_flight < Jobs /\ ready # <<>> /\ ~Cutoff(k)
      /\ recomputed' = Append(recomputed, k) /\ tasks' = Append(tasks, t)
      /\ notify_one /\ ready' = Tail(ready) /\ in_flight' = in_flight + 1
      /\ UNCHANGED <<graph, stopped, results, wtask, cpc, target, pending, done, err,
                     cancel, outcome, before>>
  BY <1>1, <1>2 DEF DispatchTask
<1>4. /\ TypeOK /\ PendingExact /\ Unblocked /\ ReadyOnce /\ JobsTrue /\ JobsOnce /\ InFlightExact
  BY <1>3 DEF BooksTrue
<1>5. /\ ready' \in Seq(Keys) /\ IsInjective(ready') /\ k \in Keys
      /\ Range(ready) = Range(ready') \cup {k} /\ k \notin Range(ready')
  BY <1>1, <1>3, <1>4, Taken DEF TypeOK, ReadyOnce
<1>6. k \in Derived /\ k \notin done /\ k \notin Range(recomputed)
  BY <1>3, <1>4, <1>5 DEF Cutoff, Keys, ReadyOnce
<1>7. t \in Task /\ t.key = k /\ t.dvs = DepValues(k)
  BY <1>2, <1>3, <1>5, <1>6, ScheduledReady DEF Task
<1>8. /\ recomputed' \in Seq(Derived) /\ Range(recomputed') = Range(recomputed) \cup {k}
      /\ IsInjective(recomputed')
  BY <1>3, <1>4, <1>6, Added DEF TypeOK, ReadyOnce
<1>9. /\ tasks' \in Seq(Task) /\ Len(tasks') = Len(tasks) + 1 /\ Len(tasks) \in Nat
      /\ DOMAIN tasks = 1..Len(tasks)
      /\ \A i \in DOMAIN tasks' : \/ i \in DOMAIN tasks /\ tasks'[i] = tasks[i]
                                  \/ i = Len(tasks) + 1 /\ tasks'[i] = t
  BY <1>3, <1>4, <1>7, Added DEF TypeOK
<1>10. wpc' \in [Workers -> {"off", "check", "parked", "run", "exited"}] /\ Running' = Running
  BY <1>3, <1>4 DEF notify_one, Running, TypeOK
<1>11. GraphTypeOK' /\ InputsValued' /\ PendingExact'
  BY <1>3, <1>4 DEF TypeOK, GraphTypeOK, InputsValued, PendingExact, graph
<1>12. in_flight' \in 0..Jobs
  BY <1>3, <1>4, PoolFinite DEF TypeOK
<1>13. TypeOK'
  BY <1>3, <1>4, <1>5, <1>8, <1>9, <1>10, <1>11, <1>12 DEF TypeOK
<1>14. Unblocked'
  <2>1. \A d : Validated(d)' <=> Validated(d)
    BY <1>3 DEF Validated, graph
  <2> QED BY <1>3, <1>4, <1>5, <1>8, <2>1 DEF Unblocked
<1>15. ReadyOnce'
  BY <1>3, <1>4, <1>5, <1>6, <1>8 DEF ReadyOnce
<1>16. /\ \A j : Open(j) => Open(j)'
       /\ \A j : DepValues(j)' = DepValues(j)
       /\ Open(k)'
  <2>1. \A j : Cutoff(j)' <=> Cutoff(j)
    BY <1>3 DEF Cutoff, NoDepChanged, graph
  <2>2. \A j : DepValues(j)' = DepValues(j)
    BY <1>3 DEF DepValues, graph
  <2> QED BY <1>3, <1>6, <1>8, <2>1, <2>2 DEF Open
<1>17. JobsTrue'
  <2>1. \A u : TaskTrue(u) => TaskTrue(u)'
    BY <1>16 DEF TaskTrue
  <2>2. \A r : ResultTrue(r) => ResultTrue(r)'
    BY <1>16 DEF ResultTrue
  <2>3. TaskTrue(t)'
    BY <1>3, <1>6, <1>7, <1>8, <1>16 DEF TaskTrue
  <2>4. \A i \in DOMAIN tasks' : TaskTrue(tasks[i])'
    BY <1>4, <1>9, <2>1, <2>3 DEF JobsTrue
  <2> QED BY <1>3, <1>4, <1>10, <2>1, <2>2, <2>4 DEF JobsTrue
<1>18. JobsOnce'
  <2>1. /\ \A i \in DOMAIN tasks : tasks[i].key # k
        /\ \A w \in Running : wtask[w].key # k
        /\ \A i \in DOMAIN results : results[i].key # k
    BY <1>4, <1>6 DEF JobsTrue, TaskTrue, ResultTrue, Open
  <2>2. KeysOnce(tasks)'
    BY <1>4, <1>7, <1>9, <2>1 DEF JobsOnce, KeysOnce
  <2>3. /\ \A i \in DOMAIN tasks', w \in Running' : tasks'[i].key # wtask'[w].key
        /\ \A i \in DOMAIN tasks', j \in DOMAIN results' : tasks'[i].key # results'[j].key
    BY <1>3, <1>4, <1>7, <1>9, <1>10, <2>1 DEF JobsOnce
  <2> QED BY <1>3, <1>4, <1>10, <2>2, <2>3 DEF JobsOnce, KeysOnce
<1>19. InFlightExact' /\ ReturnsQuiescent'
  <2>1. in_flight = Len(tasks) + Cardinality(Running) + Len(results)
    BY <1>3, <1>4 DEF InFlightExact
  <2>2. in_flight' = Len(tasks') + Cardinality(Running') + Len(results')
    BY <1>3, <1>4, <1>9, <1>10, <2>1, PoolFinite
  <2> QED BY <1>3, <2>2 DEF InFlightExact, ReturnsQuiescent
<1> QED BY <1>11, <1>13, <1>14, <1>15, <1>17, <1>18, <1>19 DEF BooksTrue

-----------------------------------------------------------------------------
(* Between requests, and the start of one. *)

LEMMA InitBooks == Init => BooksTrue
<1> SUFFICES ASSUME Init PROVE BooksTrue
  OBVIOUS
<1> USE DEF Init
<1>1. GraphTypeOK /\ InputsValued
  BY GraphAssumption DEF GraphInit, GraphTypeOK, InputsValued, Keys
<1>2. Jobs \in Nat
  BY FiniteAssumption, FS_CardinalityType DEF Jobs
<1>3. TypeOK
  <2>1. /\ <<>> \in Seq(Keys) /\ <<>> \in Seq(Derived) /\ <<>> \in Seq(Task)
        /\ <<>> \in Seq(Result) /\ DOMAIN <<>> = {}
    BY EmptySeq
  <2>2. wpc \in [Workers -> {"off", "check", "parked", "run", "exited"}]
        /\ wtask \in [Workers -> Task \cup {NoTask}]
    OBVIOUS
  <2>3. 0 \in 0..Jobs BY <1>2
  <2> QED BY <1>1, <2>1, <2>2, <2>3 DEF TypeOK
<1>4. InFlightExact /\ ReturnsQuiescent
  BY DEF InFlightExact, ReturnsQuiescent
<1> QED BY <1>3, <1>4 DEF BooksTrue

(* Nothing is running between requests: an edit, or a refused request. *)
LEMMA IdleKeeps ==
  ASSUME BooksTrue,
         \/ \E k \in Inputs, v \in Values : SetInput(k, v)
         \/ \E t \in Targets : StartRefused(t)
  PROVE  BooksTrue'
<1>1. /\ cpc = "idle" /\ cpc' = "idle" /\ target' \in Targets
      /\ UNCHANGED <<pool, pending, ready, done, in_flight>>
      /\ recomputed' \in Seq(Derived) /\ cancel' \in BOOLEAN
  BY EmptySeq DEF SetInput, StartRefused, coord, BooksTrue, TypeOK
<1>2. GraphTypeOK' /\ InputsValued'
  <2>1. ASSUME NEW k \in Inputs, NEW v \in Values, SetInput(k, v)
        PROVE  GraphTypeOK' /\ InputsValued'
    BY <2>1, GraphAssumption DEF SetInput, set_input, BooksTrue, TypeOK, GraphTypeOK, InputsValued, Keys
  <2>2. ASSUME NEW t \in Targets, StartRefused(t)
        PROVE  GraphTypeOK' /\ InputsValued'
    BY <2>2 DEF StartRefused, graph, BooksTrue, TypeOK, GraphTypeOK, InputsValued
  <2> QED BY <2>1, <2>2
<1>3. TypeOK'
  BY <1>1, <1>2 DEF BooksTrue, TypeOK, pool
<1>4. InFlightExact' /\ ReturnsQuiescent'
  BY <1>1 DEF BooksTrue, InFlightExact, ReturnsQuiescent, pool
<1> QED BY <1>1, <1>3, <1>4 DEF BooksTrue

(* Collecting the sub-DAG: every node counts all its edges, the leaves are *)
(* ready.                                                                  *)
LEMMA StartKeeps ==
  ASSUME BooksTrue, NEW t \in Targets, Start(t)
  PROVE  BooksTrue'
<1>1. /\ CollectErrors(t) = {} /\ target' = t
      /\ pending' = [k \in ReachFrom(t) |-> Len(DepsOf(k))]
      /\ ready' \in SetToSeqs({k \in ReachFrom(t) : DepsOf(k) = <<>>})
      /\ done' = {} /\ in_flight' = 0 /\ recomputed' = <<>>
      /\ tasks' = <<>> /\ stopped' = FALSE /\ results' = <<>>
      /\ wpc' = [w \in Workers |-> "check"] /\ wtask' = [w \in Workers |-> NoTask]
      /\ cancel' = FALSE /\ cpc' = "loop" /\ UNCHANGED graph
  BY DEF Start
<1>2. ReachFrom(t) \subseteq Keys
  BY <1>1 DEF CollectErrors
<1> DEFINE leaves == {k \in ReachFrom(t) : DepsOf(k) = <<>>}
<1>3. ready' \in Seq(Keys) /\ IsInjective(ready') /\ Range(ready') \subseteq leaves
  <2>1. IsFiniteSet(leaves)
    <3>1. IsFiniteSet(Keys) BY FiniteAssumption, FS_Union DEF Keys
    <3> QED BY <1>2, <3>1, FS_Subset
  <2> QED BY <1>1, <1>2, <2>1, AnyOrder
<1>4. GraphTypeOK' /\ InputsValued'
  BY <1>1 DEF BooksTrue, TypeOK, GraphTypeOK, InputsValued, graph
<1>5. Jobs \in Nat
  BY FiniteAssumption, FS_CardinalityType DEF Jobs
<1>6. /\ DOMAIN tasks' = {} /\ Len(tasks') = 0 /\ DOMAIN results' = {} /\ Len(results') = 0
      /\ DOMAIN recomputed' = {}
  BY <1>1
<1>7. Running' = {}
  BY <1>1 DEF Running
<1>8. TypeOK'
  <2>1. <<>> \in Seq(Derived) /\ <<>> \in Seq(Task) /\ <<>> \in Seq(Result)
    BY EmptySeq
  <2>2. /\ wpc' \in [Workers -> {"off", "check", "parked", "run", "exited"}]
        /\ wtask' \in [Workers -> Task \cup {NoTask}]
    BY <1>1
  <2>3. 0 \in 0..Jobs BY <1>5
  <2> QED BY <1>1, <1>2, <1>3, <1>4, <2>1, <2>2, <2>3 DEF TypeOK
<1>9. PendingExact'
  <2>1. ASSUME NEW k \in ReachFrom(t)
        PROVE  Len(DepsOf(k)) = Cardinality({i \in DOMAIN DepsOf(k) : DepsOf(k)[i] \notin {}})
    <3>1. PICK n \in Nat : n = Len(DepsOf(k)) /\ DOMAIN DepsOf(k) = 1..n
      <4>1. CASE k \in Derived BY <4>1, GraphAssumption DEF DepsOf
      <4>2. CASE k \notin Derived
        <5>1. DepsOf(k) = <<>> BY <4>2 DEF DepsOf
        <5> QED BY <5>1
      <4> QED BY <4>1, <4>2
    <3>2. {i \in DOMAIN DepsOf(k) : DepsOf(k)[i] \notin {}} = 1..n
      BY <3>1
    <3>3. Cardinality(1..n) = n
      BY FS_Interval
    <3> QED BY <3>1, <3>2, <3>3
  <2> QED BY <1>1, <2>1 DEF PendingExact
<1>10. Unblocked'
  <2>1. Range(recomputed') = {} BY <1>6 DEF Range
  <2>2. \A k \in leaves : pending'[k] = 0 BY <1>1
  <2> QED BY <1>1, <1>3, <2>1, <2>2 DEF Unblocked
<1>11. ReadyOnce'
  BY <1>1, <1>3, <1>6 DEF ReadyOnce, IsInjective, Range
<1>12. JobsTrue' /\ JobsOnce'
  BY <1>6, <1>7 DEF JobsTrue, JobsOnce, KeysOnce
<1>13. InFlightExact' /\ ReturnsQuiescent'
  BY <1>1, <1>6, <1>7, FS_EmptySet DEF InFlightExact, ReturnsQuiescent
<1> QED BY <1>8, <1>9, <1>10, <1>11, <1>12, <1>13 DEF BooksTrue

-----------------------------------------------------------------------------
(* Steps that move no job. *)

(* The coordinator goes on or gives up, a worker parks, wakes or exits,    *)
(* the watcher raises the flag, the pool is stopped or joined.             *)
LEMMA MoveKeeps ==
  ASSUME BooksTrue,
         \/ LoopTop \/ DispatchEnd \/ StopPool \/ Join
         \/ \E w \in Workers : Park(w) \/ ExitWorker(w) \/ SpuriousWakeup(w)
         \/ RaiseCancel \/ UNCHANGED vars
  PROVE  BooksTrue'
<1>1. /\ UNCHANGED <<graph, pending, ready, done, recomputed>>
      /\ UNCHANGED <<target, in_flight, results, wtask>>
      /\ tasks' = tasks \/ tasks' = <<>>
      /\ cancel' \in BOOLEAN /\ stopped' \in BOOLEAN
  BY DEF LoopTop, DispatchEnd, StopPool, Join, Park, ExitWorker, SpuriousWakeup, RaiseCancel,
     vars, coord, pool, BooksTrue, TypeOK
<1>2. /\ wpc' \in [Workers -> {"off", "check", "parked", "run", "exited"}]
      /\ Running' = Running \/ cpc' = "idle"
  <2>1. CASE LoopTop \/ DispatchEnd \/ RaiseCancel \/ UNCHANGED vars
    BY <2>1 DEF LoopTop, DispatchEnd, RaiseCancel, vars, coord, pool, BooksTrue, TypeOK, Running
  <2>2. CASE StopPool
    BY <2>2 DEF StopPool, BooksTrue, TypeOK, Running
  <2>3. CASE Join
    BY <2>3 DEF Join, BooksTrue, TypeOK
  <2>4. ASSUME NEW w \in Workers, Park(w) \/ ExitWorker(w) \/ SpuriousWakeup(w)
        PROVE  /\ wpc' \in [Workers -> {"off", "check", "parked", "run", "exited"}]
               /\ Running' = Running
    BY <2>4 DEF Park, ExitWorker, SpuriousWakeup, BooksTrue, TypeOK, Running
  <2> QED BY <2>1, <2>2, <2>3, <2>4
<1>3. /\ cpc' \in {"idle", "loop", "dispatch", "recv", "stop", "join"}
      /\ cpc' # "idle" => cpc # "idle"
      /\ cpc' \in {"loop", "dispatch", "recv"} => cpc \in {"loop", "dispatch", "recv"} /\ tasks' = tasks
      /\ cpc' \in {"join", "idle"} => tasks' = <<>>
      /\ cpc' = "idle" => \A w \in Workers : wpc'[w] = "off"
  <2>1. CASE LoopTop \/ DispatchEnd \/ StopPool \/ Join \/ RaiseCancel \/ UNCHANGED vars
    BY <2>1 DEF LoopTop, DispatchEnd, StopPool, Join, RaiseCancel, vars, coord, pool,
       BooksTrue, TypeOK, ReturnsQuiescent
  <2>2. ASSUME NEW w \in Workers, Park(w) \/ ExitWorker(w) \/ SpuriousWakeup(w)
        PROVE  cpc' = cpc /\ tasks' = tasks /\ cpc # "idle"
    BY <2>2 DEF Park, ExitWorker, SpuriousWakeup, coord, BooksTrue, ReturnsQuiescent
  <2> QED BY <2>1, <2>2 DEF BooksTrue, TypeOK, ReturnsQuiescent
<1>4. /\ GraphTypeOK' /\ InputsValued'
      /\ PendingExact => PendingExact'
      /\ Unblocked => Unblocked'
      /\ ReadyOnce => ReadyOnce'
      /\ \A t : TaskTrue(t) => TaskTrue(t)'
      /\ \A r : ResultTrue(r) => ResultTrue(r)'
  BY <1>1, TablesKept DEF BooksTrue, TypeOK
<1>5. TypeOK'
  BY <1>1, <1>2, <1>3, <1>4, EmptySeq DEF BooksTrue, TypeOK
<1>6. ASSUME cpc' # "idle"
      PROVE  PendingExact' /\ Unblocked' /\ ReadyOnce' /\ JobsTrue' /\ JobsOnce'
  <2>1. PendingExact /\ Unblocked /\ ReadyOnce /\ JobsTrue /\ JobsOnce
    BY <1>3, <1>6 DEF BooksTrue
  <2>2. Running' = Running BY <1>2, <1>6
  <2>3. \A i \in DOMAIN tasks' : i \in DOMAIN tasks /\ tasks'[i] = tasks[i]
    BY <1>1
  <2>4. JobsTrue'
    BY <1>1, <1>4, <2>1, <2>2, <2>3 DEF JobsTrue
  <2>5. JobsOnce'
    BY <1>1, <2>1, <2>2, <2>3 DEF JobsOnce, KeysOnce
  <2> QED BY <1>4, <2>1, <2>4, <2>5
<1>7. InFlightExact'
  BY <1>1, <1>2, <1>3 DEF BooksTrue, InFlightExact
<1>8. ReturnsQuiescent'
  BY <1>3 DEF ReturnsQuiescent
<1> QED BY <1>5, <1>6, <1>7, <1>8 DEF BooksTrue

-----------------------------------------------------------------------------
(* A worker. *)

(* A worker takes the first task: the job changes places. *)
LEMMA TakeTaskKeeps ==
  ASSUME BooksTrue, NEW w \in Workers, TakeTask(w)
  PROVE  BooksTrue'
<1>1. /\ wpc[w] = "check" /\ tasks # <<>>
      /\ wtask' = [wtask EXCEPT ![w] = Head(tasks)] /\ tasks' = Tail(tasks)
      /\ wpc' = [wpc EXCEPT ![w] = "run"]
      /\ UNCHANGED <<graph, pending, ready, done, recomputed>>
      /\ UNCHANGED <<coord, stopped, results, cancel, outcome, before>>
  BY DEF TakeTask, coord
<1>2. cpc # "idle" /\ cpc # "join"
  BY <1>1 DEF BooksTrue, ReturnsQuiescent
<1>3. /\ TypeOK /\ PendingExact /\ Unblocked /\ ReadyOnce /\ JobsTrue /\ JobsOnce
      /\ InFlightExact
  BY <1>2 DEF BooksTrue
<1>4. /\ GraphTypeOK' /\ InputsValued' /\ PendingExact' /\ Unblocked' /\ ReadyOnce'
      /\ \A t : TaskTrue(t) => TaskTrue(t)'
      /\ \A r : ResultTrue(r) => ResultTrue(r)'
  BY <1>1, <1>3, TablesKept DEF TypeOK
<1>5. PICK h : h = Head(tasks) OBVIOUS
<1>6. /\ h = tasks[1] /\ h \in Task /\ 1 \in DOMAIN tasks
      /\ tasks' \in Seq(Task) /\ Len(tasks') = Len(tasks) - 1
      /\ Len(tasks) \in Nat \ {0} /\ DOMAIN tasks' = 1..(Len(tasks) - 1)
      /\ \A i \in DOMAIN tasks' : i + 1 \in DOMAIN tasks /\ tasks'[i] = tasks[i + 1] /\ i + 1 # 1
  BY <1>1, <1>3, <1>5, Taken DEF TypeOK
<1>7. /\ Running' = Running \cup {w} /\ w \notin Running
      /\ wtask'[w] = h /\ \A v \in Running : wtask'[v] = wtask[v]
  BY <1>1, <1>3, <1>5 DEF Running, TypeOK
<1>8. TypeOK'
  BY <1>1, <1>3, <1>4, <1>5, <1>6 DEF TypeOK, coord
<1>9. JobsTrue'
  <2>1. TaskTrue(h) BY <1>3, <1>6 DEF JobsTrue
  <2>2. \A i \in DOMAIN tasks' : TaskTrue(tasks[i])'
    BY <1>3, <1>4, <1>6 DEF JobsTrue
  <2>3. \A v \in Running' : TaskTrue(wtask[v])'
    BY <1>3, <1>4, <1>7, <2>1 DEF JobsTrue
  <2> QED BY <1>1, <1>3, <1>4, <2>2, <2>3 DEF JobsTrue
<1>10. JobsOnce'
  <2>1. \A i \in DOMAIN tasks' : \E j \in DOMAIN tasks : tasks'[i] = tasks[j] /\ tasks[j].key # h.key
    BY <1>3, <1>6 DEF JobsOnce, KeysOnce
  <2>2. ASSUME NEW i \in DOMAIN tasks', NEW j \in DOMAIN tasks', tasks'[i].key = tasks'[j].key
        PROVE  i = j
    <3>1. i + 1 = j + 1 BY <1>3, <1>6, <2>2 DEF JobsOnce, KeysOnce
    <3>2. i \in Nat /\ j \in Nat BY <1>6
    <3> QED BY <3>1, <3>2
  <2>3. /\ \A v \in Running : wtask[v].key # h.key
        /\ \A j \in DOMAIN results : h.key # results[j].key
    BY <1>3, <1>6 DEF JobsOnce
  <2>4. KeysOnce(tasks)' /\ KeysOnce(results)'
    BY <1>1, <1>3, <2>2 DEF JobsOnce, KeysOnce
  <2>5. \A u, v \in Running' : wtask'[u].key = wtask'[v].key => u = v
    BY <1>3, <1>7, <2>3 DEF JobsOnce
  <2>6. \A i \in DOMAIN tasks', v \in Running' : tasks'[i].key # wtask'[v].key
    BY <1>3, <1>7, <2>1 DEF JobsOnce
  <2>7. /\ \A i \in DOMAIN tasks', j \in DOMAIN results' : tasks'[i].key # results'[j].key
        /\ \A v \in Running', j \in DOMAIN results' : wtask'[v].key # results'[j].key
    BY <1>1, <1>3, <1>7, <2>1, <2>3 DEF JobsOnce
  <2> QED BY <2>4, <2>5, <2>6, <2>7 DEF JobsOnce
<1>11. InFlightExact'
  <2>1. Cardinality(Running') = Cardinality(Running) + 1 /\ Cardinality(Running) \in Nat
    BY <1>3, <1>7, PoolFinite, FS_AddElement
  <2> QED BY <1>1, <1>3, <1>6, <2>1, PoolFinite DEF InFlightExact, coord
<1>12. ReturnsQuiescent'
  BY <1>1, <1>2 DEF ReturnsQuiescent, coord
<1> QED BY <1>4, <1>8, <1>9, <1>10, <1>11, <1>12 DEF BooksTrue

(* A worker answers, with a value or an Err: the job changes places. *)
LEMMA RunTaskKeeps ==
  ASSUME BooksTrue, NEW w \in Workers, RunTask(w)
  PROVE  BooksTrue'
<1>1. PICK ok \in CanReturn(wtask[w].key) :
        results' = Append(results,
          [key |-> wtask[w].key, ok |-> ok,
           val |-> IF ok THEN Compute(wtask[w].key, wtask[w].dvs) ELSE NoValue])
  BY DEF RunTask
<1>2. /\ wpc[w] = "run" /\ w \in Running
      /\ wtask' = [wtask EXCEPT ![w] = NoTask] /\ wpc' = [wpc EXCEPT ![w] = "check"]
      /\ UNCHANGED <<graph, pending, ready, done, recomputed>>
      /\ UNCHANGED <<coord, tasks, stopped, cancel, outcome, before>>
  BY DEF RunTask, coord, Running
<1>3. cpc # "idle"
  BY <1>2 DEF BooksTrue, ReturnsQuiescent
<1>4. /\ TypeOK /\ PendingExact /\ Unblocked /\ ReadyOnce /\ JobsTrue /\ JobsOnce
      /\ InFlightExact
  BY <1>3 DEF BooksTrue
<1>5. /\ GraphTypeOK' /\ InputsValued' /\ PendingExact' /\ Unblocked' /\ ReadyOnce'
      /\ \A t : TaskTrue(t) => TaskTrue(t)'
      /\ \A r : ResultTrue(r) => ResultTrue(r)'
  BY <1>2, <1>4, TablesKept DEF TypeOK
<1>6. PICK t \in Task : t = wtask[w] /\ TaskTrue(t)
  BY <1>2, <1>4, JobsTyped DEF JobsTrue
<1>7. /\ t.key \in Derived /\ Open(t.key) /\ t.dvs = DepValues(t.key)
      /\ Compute(t.key, t.dvs) \in Values
  <2>1. t.key \in Derived /\ Open(t.key) /\ t.dvs = DepValues(t.key)
    BY <1>6 DEF Task, TaskTrue
  <2>2. t.key \in Range(recomputed) BY <2>1 DEF Open
  <2> QED BY <1>3, <2>1, <2>2, ScheduledReady
<1>8. PICK r : r = [key |-> t.key, ok |-> ok,
                    val |-> IF ok THEN Compute(t.key, t.dvs) ELSE NoValue]
  OBVIOUS
<1>9. ok \in BOOLEAN
  BY <1>1 DEF CanReturn
<1>10. r \in Result /\ r.key = t.key /\ ResultTrue(r) /\ results' = Append(results, r)
  BY <1>1, <1>6, <1>7, <1>8, <1>9 DEF Result, ResultTrue
<1>11. /\ results' \in Seq(Result) /\ Len(results') = Len(results) + 1
       /\ Len(results) \in Nat /\ DOMAIN results = 1..Len(results)
       /\ \A i \in DOMAIN results' : \/ i \in DOMAIN results /\ results'[i] = results[i]
                                     \/ i = Len(results) + 1 /\ results'[i] = r
  BY <1>4, <1>10, Added DEF TypeOK
<1>12. /\ Running' = Running \ {w}
       /\ \A v \in Running' : wtask'[v] = wtask[v]
  BY <1>2, <1>4 DEF Running, TypeOK
<1>13. TypeOK'
  BY <1>2, <1>4, <1>5, <1>11 DEF TypeOK, coord
<1>14. JobsTrue'
  <2>1. \A i \in DOMAIN results' : ResultTrue(results[i])'
    BY <1>4, <1>5, <1>10, <1>11 DEF JobsTrue
  <2>2. \A v \in Running' : TaskTrue(wtask[v])'
    BY <1>4, <1>5, <1>12 DEF JobsTrue
  <2> QED BY <1>2, <1>4, <1>5, <2>1, <2>2 DEF JobsTrue
<1>15. JobsOnce'
  <2>1. /\ \A i \in DOMAIN tasks : tasks[i].key # r.key
        /\ \A v \in Running' : wtask[v].key # r.key
        /\ \A j \in DOMAIN results : results[j].key # r.key
    BY <1>2, <1>4, <1>6, <1>10, <1>12 DEF JobsOnce
  <2>2. KeysOnce(results)'
    BY <1>4, <1>11, <2>1 DEF JobsOnce, KeysOnce
  <2>3. /\ KeysOnce(tasks)'
        /\ \A u, v \in Running' : wtask'[u].key = wtask'[v].key => u = v
        /\ \A i \in DOMAIN tasks', v \in Running' : tasks'[i].key # wtask'[v].key
    BY <1>2, <1>4, <1>12 DEF JobsOnce, KeysOnce
  <2>4. /\ \A i \in DOMAIN tasks', j \in DOMAIN results' : tasks'[i].key # results'[j].key
        /\ \A v \in Running', j \in DOMAIN results' : wtask'[v].key # results'[j].key
    BY <1>2, <1>4, <1>11, <1>12, <2>1 DEF JobsOnce
  <2> QED BY <2>2, <2>3, <2>4 DEF JobsOnce
<1>16. InFlightExact'
  <2>1. Cardinality(Running') = Cardinality(Running) - 1 /\ Cardinality(Running) \in Nat
    BY <1>2, <1>4, <1>12, PoolFinite, FS_RemoveElement
  <2>2. Len(tasks) \in Nat
    BY <1>4, PoolFinite
  <2>3. ASSUME in_flight = Len(tasks) + Cardinality(Running) + Len(results)
        PROVE  in_flight' = Len(tasks') + Cardinality(Running') + Len(results')
    <3>1. in_flight' = in_flight /\ tasks' = tasks BY <1>2 DEF coord
    <3>2. PICK a \in Nat, b \in Nat, c \in Nat :
            a = Len(tasks) /\ b = Cardinality(Running) /\ c = Len(results)
      BY <1>11, <2>1, <2>2
    <3>3. Cardinality(Running') = b - 1 /\ Len(results') = c + 1
      BY <1>11, <2>1, <3>2
    <3>4. a + b + c = a + (b - 1) + (c + 1)
      OBVIOUS
    <3> QED BY <2>3, <3>1, <3>2, <3>3, <3>4
  <2>4. cpc' = cpc BY <1>2 DEF coord
  <2> QED BY <1>4, <2>3, <2>4 DEF InFlightExact
<1>17. ReturnsQuiescent'
  BY <1>2, <1>3 DEF BooksTrue, ReturnsQuiescent, coord
<1> QED BY <1>5, <1>13, <1>14, <1>15, <1>16, <1>17 DEF BooksTrue

(* Whatever the threads overlap, and whatever fails or is cancelled: the   *)
(* dependency counts never go wrong, no node is ready or handed out twice, *)
(* recv() is called only when an answer will come, what a worker computes  *)
(* from is still what the graph holds when its answer is stored, and no    *)
(* closure runs once request_parallel has returned.                        *)
THEOREM BooksInvariant == Spec => []BooksTrue
<1>1. BooksTrue /\ [Next]_vars => BooksTrue'
  BY IdleKeeps, StartKeeps, MoveKeeps, DispatchInlineKeeps, DispatchTaskKeeps, RecvOkKeeps,
     RecvErrKeeps, TakeTaskKeeps, RunTaskKeeps DEF Next, Coordinator, Worker
<1> QED BY InitBooks, <1>1, PTL DEF Spec

-----------------------------------------------------------------------------
(* The pool implements the graph that validates one node at a time. *)

LEMMA InlineRefines ==
  ASSUME BooksTrue, DispatchInline
  PROVE  Abs!Next
<1>1. PICK k : k = Head(ready) OBVIOUS
<1>2. cpc # "idle" /\ ready # <<>> /\ Cutoff(k) /\ Backdate(k)
  BY <1>1 DEF DispatchInline
<1>3. k \in Range(ready)
  BY <1>1, <1>2, Taken DEF BooksTrue, TypeOK
<1>4. k \in Keys /\ DepsValidated(k)
  BY <1>2, <1>3, ScheduledReady
<1>5. Abs!CutOff(k)
  BY <1>2, <1>4 DEF Abs!CutOff, Abs!DepsValidated, DepsValidated, Abs!DepSet, DepSet, Abs!DepsOf, DepsOf,
     Abs!Validated, Validated, Abs!Cutoff, Cutoff, Abs!NoDepChanged, NoDepChanged, Abs!Backdate, Backdate,
     Abs!Keys, Keys
<1> QED BY <1>4, <1>5 DEF Abs!Next, Abs!Keys, Keys

LEMMA AnswerRefines ==
  ASSUME BooksTrue, RecvOk
  PROVE  Abs!Next
<1>1. PICK k : k = Head(results).key OBVIOUS
<1>2. k \in Derived /\ DepsValidated(k) /\ ~Cutoff(k) /\ Head(results).val = Compute(k, DepValues(k))
  BY <1>1, AnswerFacts
<1>3. Store(k, Compute(k, DepValues(k)))
  BY <1>1, <1>2 DEF RecvOk
<1>4. Abs!Recompute(k)
  BY <1>2, <1>3 DEF Abs!Recompute, Abs!DepsValidated, DepsValidated, Abs!DepSet, DepSet, Abs!DepsOf, DepsOf,
     Abs!Validated, Validated, Abs!Cutoff, Cutoff, Abs!NoDepChanged, NoDepChanged, Abs!Store, Store,
     Abs!DepValues, DepValues, Abs!Keys, Keys
<1> QED BY <1>2, <1>4 DEF Abs!Next

(* Every step of the coordinator, of a worker or of the watcher is a step  *)
(* of IncrementalGraph, or leaves its variables alone: an answer that      *)
(* comes after any delay still stores what the graph computes then.        *)
THEOREM ParallelRefines == Spec => Refines
<1>1. Init => Abs!GraphInit
  BY DEF Init, GraphInit, Abs!GraphInit, Keys, Abs!Keys
<1>2. ASSUME BooksTrue, [Next]_vars PROVE [Abs!Next]_(Abs!graph)
  <2>1. ASSUME NEW k \in Inputs, NEW v \in Values, SetInput(k, v) PROVE Abs!Next
    <3>1. Abs!SetInput(k, v)
      BY <2>1 DEF SetInput, set_input, Abs!SetInput, Abs!set_input
    <3> QED BY <3>1 DEF Abs!Next
  <2>2. ASSUME \/ \E t \in Targets : StartRefused(t) \/ Start(t)
               \/ LoopTop \/ DispatchTask \/ DispatchEnd \/ RecvErr \/ StopPool \/ Join
               \/ \E w \in Workers : Worker(w) \/ SpuriousWakeup(w)
               \/ RaiseCancel \/ UNCHANGED vars
        PROVE  UNCHANGED Abs!graph
    <3>1. UNCHANGED graph
      BY <2>2 DEF StartRefused, Start, LoopTop, DispatchTask, DispatchEnd, RecvErr, StopPool, Join,
         Worker, TakeTask, Park, ExitWorker, RunTask, SpuriousWakeup, RaiseCancel, vars
    <3> QED BY <3>1 DEF graph, Abs!graph
  <2> QED BY <1>2, <2>1, <2>2, InlineRefines, AnswerRefines DEF Next, Coordinator
<1> QED BY <1>1, <1>2, BooksInvariant, PTL DEF Spec, Refines, Abs!Spec

-----------------------------------------------------------------------------
(* What is proved of IncrementalGraph holds of the pool. *)
G == INSTANCE EngineProofs WITH
       revision <- revision, value <- value, changed_at <- changed_at, verified_at <- verified_at

(* An instance unfolds to the graph itself. *)
LEMMA ParallelIsGraph == Spec => G!Spec
<1> USE DEF Keys, Abs!Keys, G!Keys, Abs!DepSet, G!DepSet, Abs!DepsOf, G!DepsOf, Abs!graph, G!graph
<1>1. Abs!GraphInit => G!GraphInit
  BY DEF Abs!GraphInit, G!GraphInit
<1>2. ASSUME [Abs!Next]_(Abs!graph) PROVE [G!Next]_(G!graph)
  <2>1. ASSUME NEW k \in Inputs, NEW v \in Values, Abs!SetInput(k, v) PROVE G!Next
    <3>1. G!SetInput(k, v)
      BY <2>1 DEF Abs!SetInput, G!SetInput, Abs!set_input, G!set_input
    <3> QED BY <3>1 DEF G!Next
  <2>2. ASSUME NEW k \in Keys, Abs!CutOff(k) PROVE G!Next
    <3>1. G!CutOff(k)
      BY <2>2 DEF Abs!CutOff, G!CutOff, Abs!DepsValidated, G!DepsValidated, Abs!Validated, G!Validated,
         Abs!Cutoff, G!Cutoff, Abs!NoDepChanged, G!NoDepChanged, Abs!Backdate, G!Backdate
    <3> QED BY <3>1 DEF G!Next
  <2>3. ASSUME NEW k \in Derived, Abs!Recompute(k) PROVE G!Next
    <3>1. G!Recompute(k)
      BY <2>3 DEF Abs!Recompute, G!Recompute, Abs!DepsValidated, G!DepsValidated, Abs!Validated, G!Validated,
         Abs!Cutoff, G!Cutoff, Abs!NoDepChanged, G!NoDepChanged, Abs!Store, G!Store,
         Abs!DepValues, G!DepValues
    <3> QED BY <3>1 DEF G!Next
  <2> QED BY <1>2, <2>1, <2>2, <2>3 DEF Abs!Next
<1> QED BY ParallelRefines, <1>1, <1>2, PTL DEF Refines, Abs!Spec, G!Spec

(* A node that request_parallel has validated holds what its closure       *)
(* computes from its dependencies' current values, for any number of       *)
(* workers, whatever was cut off, cancelled, failed or panicked before.    *)
THEOREM ParallelFresh == Spec => []Fresh
<1>1. G!Fresh => Fresh
  BY DEF G!Fresh, Fresh, G!Validated, Validated, G!DepsValidated, DepsValidated, G!Keys, Keys,
     G!DepSet, DepSet, G!DepsOf, DepsOf, G!DepValues, DepValues
<1>2. G!Spec => []G!Fresh
  BY G!NeverStale, GraphAssumption, ComputeAssumption
<1> QED BY ParallelIsGraph, <1>1, <1>2, PTL

-----------------------------------------------------------------------------
(* The same work as the serial request. *)

(* Whether the serial request would cut k off, the stamps of k's           *)
(* dependencies being what they are now.                                   *)
CutBefore(k) ==
  \/ k \in Inputs
  \/ /\ before.value[k] # NoValue
     /\ \/ before.verified_at[k] = before.revision
        \/ \A d \in DepSet(k) : changed_at[d] <= before.verified_at[k]

(* How the graph differs from the one the request found: only in what is   *)
(* done, and there as the serial request would have left it.               *)
SinceBefore ==
  /\ before.changed_at \in [Keys -> Nat] /\ before.verified_at \in [Keys -> Nat]
  /\ revision = before.revision
  /\ DOMAIN pending = ReachFrom(target) /\ done \cup Range(recomputed) \subseteq ReachFrom(target)
  /\ \A k \in done \cup Range(recomputed) : DepSet(k) \subseteq done
  /\ \A k \in Keys \ done : /\ value[k] = before.value[k]
                            /\ verified_at[k] = before.verified_at[k]
                            /\ changed_at[k] = before.changed_at[k]
  /\ \A k \in Range(recomputed) : ~CutBefore(k)
  /\ \A k \in done :
       /\ k \in Range(recomputed) \/ CutBefore(k)
       /\ changed_at[k] = IF CutBefore(k) \/ value[k] = before.value[k] THEN before.changed_at[k]
                          ELSE before.revision

(* A request that succeeds has validated its target.                       *)
EndsTrue ==
  /\ err \in {NoErr, "cancelled", "cycle"} \cup Derived
  /\ cpc \in {"loop", "dispatch", "recv"} => err = NoErr
  /\ cpc \in {"stop", "join"} /\ err = NoErr => target \in done
  /\ cpc = "idle" /\ outcome = "ok" => target \in done /\ \A k \in done : Validated(k)

RunTrue == EndsTrue /\ (cpc # "idle" \/ outcome = "ok" => SinceBefore)

(* A step that leaves the graph and the tables alone. *)
LEMMA TablesSince ==
  ASSUME SinceBefore, UNCHANGED <<graph, target, pending, done, recomputed, before>>
  PROVE  SinceBefore'
<1>1. /\ value' = value /\ verified_at' = verified_at /\ changed_at' = changed_at
      /\ revision' = revision /\ target' = target /\ pending' = pending /\ done' = done
      /\ recomputed' = recomputed /\ before' = before
  BY DEF graph
<1>2. \A k : CutBefore(k)' <=> CutBefore(k)
  BY <1>1 DEF CutBefore
<1> QED BY <1>1, <1>2 DEF SinceBefore

(* A node that is scheduled and not done is as the request found it, so    *)
(* the coordinator's cutoff is the serial one.                             *)
LEMMA SameCutoff ==
  ASSUME BooksTrue, cpc # "idle", SinceBefore, NEW k \in Range(ready) \cup Range(recomputed), k \notin done
  PROVE  /\ k \in Keys /\ DepSet(k) \subseteq done /\ k \in ReachFrom(target)
         /\ Cutoff(k) <=> CutBefore(k)
<1>1. k \in Keys /\ k \in DOMAIN pending /\ DepSet(k) \subseteq done
  BY ScheduledReady
<1>2. /\ value[k] = before.value[k] /\ verified_at[k] = before.verified_at[k]
      /\ revision = before.revision
  BY <1>1 DEF SinceBefore
<1>3. Cutoff(k) <=> CutBefore(k)
  BY <1>2 DEF Cutoff, NoDepChanged, CutBefore
<1> QED BY <1>1, <1>3 DEF SinceBefore

(* Validating a scheduled node changes no stamp that another scheduled or  *)
(* validated node was judged by.                                           *)
LEMMA ValidatedSince ==
  ASSUME BooksTrue, cpc # "idle", SinceBefore, NEW k \in Keys \ done, NEW v \in Values,
         k \in Range(ready) \cup Range(recomputed),
         \/ value[k] = v /\ Cutoff(k) /\ Backdate(k)
         \/ k \in Range(recomputed) /\ Store(k, v),
         done' = done \cup {k}, DOMAIN pending' = DOMAIN pending,
         UNCHANGED <<target, recomputed, before>>
  PROVE  SinceBefore'
<1>1. Validates(k, v)
  BY GraphAssumption DEF Validates
<1>2. /\ revision' = revision
      /\ \A d \in Keys \ {k} : /\ value'[d] = value[d]
                               /\ verified_at'[d] = verified_at[d]
                               /\ changed_at'[d] = changed_at[d]
  BY <1>1, GraphKept DEF BooksTrue, TypeOK
<1>3. DepSet(k) \subseteq done /\ k \in ReachFrom(target) /\ (Cutoff(k) <=> CutBefore(k))
  BY SameCutoff
<1>4. done \subseteq Keys
  BY DEF BooksTrue, TypeOK
<1>5. ASSUME NEW x, DepSet(x) \subseteq done PROVE CutBefore(x)' <=> CutBefore(x)
  <2>1. \A d \in DepSet(x) : changed_at'[d] = changed_at[d]
    BY <1>2, <1>4, <1>5
  <2> QED BY <2>1 DEF CutBefore, DepSet, DepsOf
<1>6. /\ k \in Range(recomputed) \/ CutBefore(k)
      /\ changed_at'[k] = IF CutBefore(k) \/ value'[k] = before.value[k] THEN before.changed_at[k]
                          ELSE before.revision
  <2>1. /\ value[k] = before.value[k] /\ changed_at[k] = before.changed_at[k]
        /\ revision = before.revision
    BY DEF SinceBefore
  <2>2. CASE Cutoff(k) /\ Backdate(k)
    BY <1>3, <2>1, <2>2 DEF Backdate
  <2>3. CASE k \in Range(recomputed) /\ Store(k, v)
    <3>1. ~CutBefore(k)
      BY <2>3 DEF SinceBefore
    <3>2. value'[k] = v /\ changed_at'[k] = IF value[k] # v THEN revision ELSE changed_at[k]
      BY <2>3 DEF Store, BooksTrue, TypeOK, GraphTypeOK
    <3> QED BY <2>1, <2>3, <3>1, <3>2
  <2> QED BY <2>2, <2>3
<1>7. \A x \in done : /\ x \in Range(recomputed) \/ CutBefore(x)'
                      /\ changed_at'[x] = IF CutBefore(x)' \/ value'[x] = before.value[x]
                                          THEN before.changed_at[x] ELSE before.revision
  BY <1>2, <1>4, <1>5 DEF SinceBefore
<1>8. \A x \in Range(recomputed) : ~CutBefore(x)'
  BY <1>5 DEF SinceBefore
<1>9. CutBefore(k)' <=> CutBefore(k)
  BY <1>3, <1>5
<1> QED BY <1>2, <1>3, <1>6, <1>7, <1>8, <1>9 DEF SinceBefore

(* The request begins with nothing done. *)
LEMMA StartSince ==
  ASSUME BooksTrue, NEW t \in Targets, Start(t)
  PROVE  SinceBefore'
<1>1. /\ target' = t /\ pending' = [k \in ReachFrom(t) |-> Len(DepsOf(k))]
      /\ done' = {} /\ recomputed' = <<>> /\ before' = Graph /\ UNCHANGED graph
  BY DEF Start
<1>2. Range(recomputed') = {}
  BY <1>1 DEF Range
<1>3. ReachFrom(target)' = ReachFrom(t)
  BY <1>1 DEF ReachFrom, Reach, Named, Closed, DepSet, DepsOf, Keys
<1> QED BY <1>1, <1>2, <1>3 DEF SinceBefore, Graph, graph, BooksTrue, TypeOK, GraphTypeOK

(* Dispatching a task: the serial request would recompute it too. *)
LEMMA TaskSince ==
  ASSUME BooksTrue, SinceBefore, DispatchTask
  PROVE  SinceBefore'
<1>1. /\ cpc = "dispatch" /\ ready # <<>> /\ ~Cutoff(Head(ready))
      /\ recomputed' = Append(recomputed, Head(ready))
      /\ UNCHANGED <<graph, target, pending, done, before>>
  BY DEF DispatchTask
<1>2. PICK k : k = Head(ready) OBVIOUS
<1>3. k \in Range(ready) /\ k \in Keys /\ k \notin done
  BY <1>1, <1>2, Taken DEF BooksTrue, TypeOK, ReadyOnce
<1>4. DepSet(k) \subseteq done /\ k \in ReachFrom(target) /\ ~CutBefore(k)
  BY <1>1, <1>2, <1>3, SameCutoff
<1>5. Range(recomputed') = Range(recomputed) \cup {k}
  <2>1. k \in Derived /\ recomputed \in Seq(Derived)
    BY <1>1, <1>2, <1>3 DEF Cutoff, Keys, BooksTrue, TypeOK
  <2> QED BY <1>1, <1>2, <2>1, RangeIs, Added
<1>6. \A x : CutBefore(x)' <=> CutBefore(x)
  BY <1>1 DEF CutBefore, graph
<1> QED BY <1>1, <1>4, <1>5, <1>6 DEF SinceBefore, graph

LEMMA RunInductive == BooksTrue /\ RunTrue /\ [Next]_vars => RunTrue'
<1> SUFFICES ASSUME BooksTrue, RunTrue, [Next]_vars PROVE RunTrue'
  OBVIOUS
<1> USE DEF RunTrue
<1>1. ASSUME NEW k \in Inputs, NEW v \in Values, SetInput(k, v) PROVE RunTrue'
  BY <1>1 DEF SetInput, EndsTrue, coord, NoErr
<1>2. ASSUME NEW t \in Targets, StartRefused(t) PROVE RunTrue'
  BY <1>2 DEF StartRefused, CollectErrors, EndsTrue
<1>3. ASSUME NEW t \in Targets, Start(t) PROVE RunTrue'
  BY <1>3, StartSince DEF Start, EndsTrue
<1>4. CASE LoopTop
  BY <1>4, TablesSince DEF LoopTop, EndsTrue, NoErr
<1>5. CASE DispatchInline
  <2>1. /\ cpc = "dispatch" /\ ready # <<>> /\ Cutoff(Head(ready)) /\ Backdate(Head(ready))
        /\ relax_dependents(Head(ready), Tail(ready))
        /\ UNCHANGED <<cpc, target, err, recomputed, outcome, before>>
    BY <1>5 DEF DispatchInline
  <2>2. PICK k : k = Head(ready) OBVIOUS
  <2>3. k \in Range(ready) /\ k \in Keys \ done
    BY <2>1, <2>2, Taken DEF BooksTrue, TypeOK, ReadyOnce
  <2>4. PICK v \in Values : value[k] = v
    BY <2>1, <2>2, <2>3 DEF Cutoff, InputsValued, BooksTrue, TypeOK, GraphTypeOK
  <2>5. done' = done \cup {k} /\ DOMAIN pending' = DOMAIN pending
    BY <2>1, <2>2 DEF relax_dependents
  <2>6. SinceBefore'
    BY <2>1, <2>2, <2>3, <2>4, <2>5, ValidatedSince
  <2> QED BY <2>1, <2>6 DEF EndsTrue
<1>6. CASE DispatchTask
  BY <1>6, TaskSince DEF DispatchTask, EndsTrue
<1>7. CASE DispatchEnd
  BY <1>7, TablesSince DEF DispatchEnd, EndsTrue, NoErr
<1>8. CASE RecvOk
  <2>1. /\ cpc = "recv" /\ cpc' = "loop" /\ Store(Head(results).key, Head(results).val)
        /\ relax_dependents(Head(results).key, ready)
        /\ UNCHANGED <<target, err, recomputed, outcome, before>>
    BY <1>8 DEF RecvOk
  <2>2. PICK k : k = Head(results).key OBVIOUS
  <2>3. k \in Keys \ done /\ Head(results).val \in Values
    BY <1>8, <2>2, AnswerFacts
  <2>4. k \in Range(recomputed)
    BY <1>8, <2>1, <2>2, Received DEF RecvOk, ResultTrue, Open
  <2>5. done' = done \cup {k} /\ DOMAIN pending' = DOMAIN pending
    BY <2>1, <2>2 DEF relax_dependents
  <2>6. SinceBefore'
    BY <2>1, <2>2, <2>3, <2>4, <2>5, ValidatedSince
  <2> QED BY <2>1, <2>6 DEF EndsTrue
<1>9. CASE RecvErr
  <2>1. Head(results).key \in Derived /\ Head(results).key # NoErr
    BY <1>9, Received, NamesAssumption DEF RecvErr, Result
  <2> QED BY <1>9, <2>1, TablesSince DEF RecvErr, EndsTrue
<1>10. CASE StopPool
  BY <1>10, TablesSince DEF StopPool, EndsTrue
<1>11. CASE Join
  <2>1. /\ cpc = "join" /\ cpc' = "idle" /\ outcome' = IF err = NoErr THEN "ok" ELSE err
        /\ UNCHANGED <<graph, target, pending, done, err, recomputed, before>>
    BY <1>11 DEF Join
  <2>2. SinceBefore'
    BY <2>1, TablesSince
  <2>3. outcome' = "ok" => err = NoErr
    BY <2>1, NamesAssumption DEF EndsTrue
  <2>4. \A k \in done : Validated(k)
    BY <2>1 DEF BooksTrue, Unblocked
  <2>5. \A k : Validated(k)' <=> Validated(k)
    BY <2>1 DEF Validated, graph
  <2> QED BY <2>1, <2>2, <2>3, <2>4, <2>5 DEF EndsTrue
<1>12. ASSUME \/ \E w \in Workers : Worker(w) \/ SpuriousWakeup(w)
              \/ RaiseCancel \/ UNCHANGED vars
       PROVE  RunTrue'
  <2>1. UNCHANGED <<graph, cpc, target, pending, done, err, recomputed, outcome, before>>
    BY <1>12 DEF Worker, TakeTask, Park, ExitWorker, RunTask, SpuriousWakeup, RaiseCancel, vars, coord
  <2>2. SinceBefore => SinceBefore'
    BY <2>1, TablesSince
  <2>3. \A k : Validated(k)' <=> Validated(k)
    BY <2>1 DEF Validated, graph
  <2> QED BY <2>1, <2>2, <2>3 DEF EndsTrue
<1> QED BY <1>1, <1>2, <1>3, <1>4, <1>5, <1>6, <1>7, <1>8, <1>9, <1>10, <1>11, <1>12
        DEF Next, Coordinator

(* The stamps that the serial request would leave are those that are       *)
(* there: they solve its recursion, which has one solution where nothing   *)
(* is on a cycle.                                                          *)
LEMMA StampsAreSerial ==
  ASSUME BooksTrue, SinceBefore, Closed(done), done = ReachFrom(target),
         \A k \in done : value[k] = Cold(ReachFrom(target))[k],
         \A S \in SUBSET (done \cap Derived) : S # {} => \E k \in S : DepSet(k) \cap S = {}
  PROVE  SerialChangedAt = [k \in done |-> changed_at[k]]
<1> DEFINE b == before
           cold == Cold(ReachFrom(target))
           Leaves(c, k) ==
             IF k \in Inputs THEN b.changed_at[k]
             ELSE IF b.value[k] # NoValue
                      /\ \/ b.verified_at[k] = b.revision
                         \/ \A d \in DepSet(k) : c[d] <= b.verified_at[k]
                  THEN b.changed_at[k]
                  ELSE IF cold[k] # b.value[k] THEN b.revision ELSE b.changed_at[k]
           Solves(c) == c = [k \in ReachFrom(target) |-> Leaves(c, k)]
           v == [k \in done |-> changed_at[k]]
<1>1. done \subseteq Keys
  BY DEF BooksTrue, TypeOK
<1>2. Solves(v)
  <2>1. ASSUME NEW k \in done PROVE changed_at[k] = Leaves(v, k)
    <3>1. \A d \in DepSet(k) : v[d] = changed_at[d]
      BY DEF Closed
    <3>2. CutBefore(k) <=> \/ k \in Inputs
                           \/ /\ b.value[k] # NoValue
                              /\ \/ b.verified_at[k] = b.revision
                                 \/ \A d \in DepSet(k) : v[d] <= b.verified_at[k]
      BY <3>1 DEF CutBefore
    <3>3. changed_at[k] = IF CutBefore(k) \/ cold[k] = b.value[k] THEN b.changed_at[k] ELSE b.revision
      BY DEF SinceBefore
    <3> QED BY <3>2, <3>3
  <2> QED BY <2>1
<1>3. ASSUME NEW c, Solves(c) PROVE c = v
  <2> DEFINE T == {k \in done : c[k] # v[k]}
  <2>1. DOMAIN c = done /\ c = [k \in done |-> c[k]]
    BY <1>3
  <2>2. ASSUME T # {} PROVE FALSE
    <3>1. \A k \in done : c[k] = Leaves(c, k) /\ v[k] = Leaves(v, k)
      BY <1>2, <1>3
    <3>2. T \subseteq done \cap Derived
      BY <1>1, <3>1 DEF Keys
    <3>3. PICK k \in T : DepSet(k) \cap T = {}
      BY <2>2, <3>2
    <3>4. \A d \in DepSet(k) : c[d] = v[d]
      BY <3>3 DEF Closed
    <3>5. Leaves(c, k) = Leaves(v, k)
      BY <3>4
    <3> QED BY <3>1, <3>3, <3>5
  <2> QED BY <2>1, <2>2
<1>4. SerialChangedAt = CHOOSE c : Solves(c)
  BY DEF SerialChangedAt
<1> HIDE DEF Solves, v
<1>5. (CHOOSE c : Solves(c)) = v
  BY <1>2, <1>3
<1> QED BY <1>4, <1>5 DEF v

LEMMA RunIsSerial ==
  ASSUME BooksTrue, RunTrue, G!WarmIsCold, G!ValidatedOrdered, cpc = "idle", outcome = "ok"
  PROVE  Range(recomputed) = SerialWork /\ value[target] = Cold(ReachFrom(target))[target]
<1>1. SinceBefore /\ target \in done /\ Validated(target)
  BY DEF RunTrue, EndsTrue
<1>2. done \subseteq Keys /\ target \in Keys /\ Closed(done)
  BY <1>1 DEF BooksTrue, TypeOK, SinceBefore, Closed
<1>3. G!Reach = Reach /\ G!Named = Named
  BY DEF G!Reach, Reach, G!Named, Named, G!Closed, Closed, G!Keys, Keys, G!DepSet, DepSet, G!DepsOf, DepsOf
<1>4. \A k : G!ReachFrom(k) = ReachFrom(k)
  BY <1>3 DEF G!ReachFrom, ReachFrom
<1>5. ReachFrom(target) \subseteq done /\ target \in ReachFrom(target)
  <2>1. target \in G!Named /\ G!Closed(done)
    BY <1>2, <1>3 DEF Named, G!Closed, Closed, G!DepSet, DepSet, G!DepsOf, DepsOf
  <2> QED BY <1>1, <1>4, <2>1, G!ReachLeast, GraphAssumption, ComputeAssumption
<1>6. done = ReachFrom(target)
  BY <1>1, <1>5 DEF SinceBefore
<1>7. \A k \in done : value[k] = Cold(ReachFrom(target))[k]
  <2>1. G!Cold(ReachFrom(target)) = Cold(ReachFrom(target))
    BY DEF G!Cold, Cold
  <2>2. target \in G!Keys /\ G!Validated(target)
    BY <1>1, <1>2 DEF G!Validated, Validated, G!Keys, Keys
  <2> QED BY <1>4, <1>6, <2>1, <2>2 DEF G!WarmIsCold
<1>8. \A k \in done : Validated(k)
  BY <1>1 DEF EndsTrue, RunTrue
<1>9. \A S \in SUBSET (done \cap Derived) : S # {} => \E k \in S : DepSet(k) \cap S = {}
  BY <1>8 DEF G!ValidatedOrdered, G!Validated, Validated, G!Keys, Keys, G!DepSet, DepSet, G!DepsOf, DepsOf
<1>10. SerialChangedAt = [k \in done |-> changed_at[k]]
  BY <1>1, <1>2, <1>6, <1>7, <1>9, StampsAreSerial
<1>11. ASSUME NEW k \in Derived \cap done
       PROVE  ~CutBefore(k) <=> \/ before.value[k] = NoValue
                                \/ /\ before.verified_at[k] # before.revision
                                   /\ \E d \in DepSet(k) : SerialChangedAt[d] > before.verified_at[k]
  <2>1. \A d \in DepSet(k) : SerialChangedAt[d] = changed_at[d] /\ changed_at[d] \in Nat
    BY <1>2, <1>10 DEF Closed, BooksTrue, TypeOK, GraphTypeOK
  <2>2. before.verified_at[k] \in Nat /\ k \notin Inputs
    BY <1>1, <1>2, GraphAssumption DEF SinceBefore
  <2>3. \A d \in DepSet(k) : ~(changed_at[d] <= before.verified_at[k])
                             <=> SerialChangedAt[d] > before.verified_at[k]
    BY <2>1, <2>2
  <2> QED BY <2>2, <2>3 DEF CutBefore
<1>12. Range(recomputed) \subseteq Derived \cap done
  BY <1>1, <1>6, RangeIs DEF SinceBefore, BooksTrue, TypeOK
<1>13. SerialWork = {k \in Derived \cap done : ~CutBefore(k)}
  BY <1>6, <1>11 DEF SerialWork
<1>14. Range(recomputed) = {k \in Derived \cap done : ~CutBefore(k)}
  BY <1>1, <1>12 DEF SinceBefore
<1> QED BY <1>5, <1>6, <1>7, <1>13, <1>14

(* A request_parallel that succeeds ran exactly the actions the serial     *)
(* request would have run from the same graph, each once, and returns what *)
(* a build from scratch would, however the workers overlapped and whatever *)
(* was edited, cancelled or failed before.                                 *)
THEOREM ParallelSame == Spec => []SameAsSerial
<1>1. Init => RunTrue
  BY DEF Init, RunTrue, EndsTrue, NoErr
<1>2. Spec => []RunTrue
  BY <1>1, BooksInvariant, RunInductive, PTL DEF Spec
<1>3. BooksTrue /\ RunTrue /\ G!WarmIsCold /\ G!ValidatedOrdered => SameAsSerial
  BY RunIsSerial DEF SameAsSerial
<1>4. G!Spec => []G!WarmIsCold /\ []G!ValidatedOrdered
  BY G!AlwaysCold, G!AlwaysOrdered, GraphAssumption, ComputeAssumption
<1> QED BY ParallelIsGraph, BooksInvariant, <1>2, <1>3, <1>4, PTL
=============================================================================
