------------------------- MODULE EngineSerialProofs -------------------------
(***************************************************************************)
(* The recursive request of the engine, for every graph, every set of      *)
(* targets and of failing actions and every moment of cancellation: its    *)
(* call stack, marks and snapshots stay true, each of its steps is a step  *)
(* of IncrementalGraph or none, and so it never serves a stale value.      *)
(*                                                                         *)
(* What makes StackTrue inductive: while a frame is suspended its node is  *)
(* not validated and no other frame has its key, so nobody else stores     *)
(* it; and what it has read is validated, so nobody stores that either.    *)
(***************************************************************************)
EXTENDS EngineSerial, SequenceTheorems, TLAPS

-----------------------------------------------------------------------------
(* The call stack as a sequence. *)

(* The running frame and the frames below it. *)
LEMMA TopFacts ==
  ASSUME stack \in Seq(FrameType), stack # <<>>
  PROVE  /\ Len(stack) \in Nat \ {0} /\ DOMAIN stack = 1..Len(stack)
         /\ Top \in FrameType /\ Top \in Frames
         /\ Below \in Seq(FrameType) /\ Len(Below) = Len(stack) - 1
         /\ \A i \in 1..(Len(stack) - 1) : Below[i] = stack[i]
<1>1. Len(stack) \in Nat \ {0} /\ DOMAIN stack = 1..Len(stack)
  BY EmptySeq, LenProperties
<1>2. Top \in FrameType /\ Top \in Frames
  BY <1>1, ElementOfSeq DEF Top, Frames
<1>3. \A i \in 1..(Len(stack) - 1) : stack[i] \in FrameType
  BY <1>1, ElementOfSeq
<1>4. /\ Below \in Seq(FrameType)
      /\ Len(Below) = IF 1 <= Len(stack) - 1 THEN (Len(stack) - 1) - 1 + 1 ELSE 0
      /\ \A i \in 1..((Len(stack) - 1) - 1 + 1) : Below[i] = stack[1 + i - 1]
  BY <1>1, <1>3, SubSeqProperties DEF Below
<1>5. Len(Below) = Len(stack) - 1
  <2>1. PICK n \in Nat \ {0} : n = Len(stack) BY <1>1
  <2>2. Len(Below) = IF 1 <= n - 1 THEN (n - 1) - 1 + 1 ELSE 0 BY <1>4, <2>1
  <2>3. Len(Below) = n - 1 BY <2>2
  <2> QED BY <2>1, <2>3
<1>6. ASSUME NEW i \in 1..(Len(stack) - 1) PROVE Below[i] = stack[i]
  <2>1. i \in 1..((Len(stack) - 1) - 1 + 1) /\ 1 + i - 1 = i
    BY <1>1
  <2> QED BY <1>4, <2>1
<1> QED BY <1>1, <1>2, <1>4, <1>5, <1>6

(* A call adds a frame. *)
LEMMA Pushed ==
  ASSUME stack \in Seq(FrameType), NEW f \in FrameType, stack' = Append(stack, f)
  PROVE  /\ stack' \in Seq(FrameType) /\ stack' # <<>>
         /\ Len(stack) \in Nat /\ Len(stack') = Len(stack) + 1
         /\ DOMAIN stack = 1..Len(stack) /\ DOMAIN stack' = 1..Len(stack')
         /\ \A i \in 1..Len(stack) : stack'[i] = stack[i]
         /\ stack'[Len(stack')] = f
         /\ Frames' = Frames \cup {f}
<1>1. /\ stack' \in Seq(FrameType) /\ Len(stack') = Len(stack) + 1 /\ Len(stack) \in Nat
      /\ \A i \in 1..Len(stack) : stack'[i] = stack[i]
      /\ stack'[Len(stack')] = f
  BY AppendProperties, LenProperties
<1>2. DOMAIN stack = 1..Len(stack) /\ DOMAIN stack' = 1..Len(stack')
  BY <1>1, LenProperties
<1>3. Frames' = Frames \cup {f}
  BY <1>1, <1>2 DEF Frames
<1>4. stack' # <<>>
  BY <1>1
<1> QED BY <1>1, <1>2, <1>3, <1>4

(* A return removes the running frame. *)
LEMMA Popped ==
  ASSUME stack \in Seq(FrameType), stack # <<>>, InProgressIsStack, stack' = Below
  PROVE  /\ stack' \in Seq(FrameType)
         /\ Len(stack') = Len(stack) - 1 /\ DOMAIN stack' = 1..(Len(stack) - 1)
         /\ \A i \in 1..(Len(stack) - 1) : stack'[i] = stack[i]
         /\ Frames' = Frames \ {Top}
         /\ \A f \in Frames' : f.key # Top.key
<1> DEFINE n == Len(stack)
<1>1. /\ n \in Nat \ {0} /\ DOMAIN stack = 1..n
      /\ stack' \in Seq(FrameType) /\ Len(stack') = n - 1
      /\ \A i \in 1..(n - 1) : stack'[i] = stack[i]
  BY TopFacts
<1>2. DOMAIN stack' = 1..(n - 1)
  BY <1>1, LenProperties
<1>3. \A i \in 1..(n - 1) : stack[i].key # Top.key
  BY <1>1 DEF InProgressIsStack, Top
<1>4. \A f \in Frames' : f.key # Top.key /\ f \in Frames
  <2> SUFFICES ASSUME NEW i \in 1..(n - 1)
               PROVE  stack'[i].key # Top.key /\ stack'[i] \in Frames
    BY <1>2 DEF Frames
  <2> QED BY <1>1, <1>3 DEF Frames
<1>5. \A f \in Frames : f = Top \/ f \in Frames'
  <2> SUFFICES ASSUME NEW i \in 1..n, stack[i] # Top
               PROVE  stack[i] \in Frames'
    BY <1>1 DEF Frames
  <2>1. i \in 1..(n - 1) BY <1>1 DEF Top
  <2> QED BY <1>1, <1>2, <2>1 DEF Frames
<1> QED BY <1>1, <1>2, <1>4, <1>5

(* The running frame moves on: it is replaced by a later state of itself. *)
LEMMA Replaced ==
  ASSUME stack \in Seq(FrameType), stack # <<>>, InProgressIsStack,
         NEW f \in FrameType, f.key = Top.key, stack' = Append(Below, f)
  PROVE  /\ stack' \in Seq(FrameType) /\ stack' # <<>>
         /\ Len(stack') = Len(stack) /\ DOMAIN stack' = 1..Len(stack)
         /\ \A i \in 1..(Len(stack) - 1) : stack'[i] = stack[i]
         /\ stack'[Len(stack)] = f
         /\ Frames' \subseteq Frames \cup {f}
         /\ {g.key : g \in Frames'} = {g.key : g \in Frames}
<1> DEFINE n == Len(stack)
<1>1. /\ n \in Nat \ {0} /\ DOMAIN stack = 1..n
      /\ Below \in Seq(FrameType) /\ Len(Below) = n - 1
      /\ \A i \in 1..(n - 1) : Below[i] = stack[i]
  BY TopFacts
<1>2. /\ stack' \in Seq(FrameType) /\ Len(stack') = n /\ stack'[n] = f
      /\ \A i \in 1..(n - 1) : stack'[i] = stack[i]
  <2>1. /\ Append(Below, f) \in Seq(FrameType)
        /\ Len(Append(Below, f)) = Len(Below) + 1
        /\ \A i \in 1..Len(Below) : Append(Below, f)[i] = Below[i]
        /\ Append(Below, f)[Len(Below) + 1] = f
    <3>1. PICK b : b = Below OBVIOUS
    <3>2. b \in Seq(FrameType) BY <1>1, <3>1
    <3> QED BY <3>1, <3>2, AppendProperties
  <2> QED BY <1>1, <2>1
<1>3. DOMAIN stack' = 1..n
  BY <1>1, <1>2, LenProperties
<1>4. stack' # <<>>
  BY <1>1, <1>2
<1>5. Frames' \subseteq Frames \cup {f}
  <2> SUFFICES ASSUME NEW i \in 1..n PROVE stack'[i] \in Frames \cup {f}
    BY <1>3 DEF Frames
  <2>1. n \in Nat BY <1>1
  <2>2. i = n \/ i \in 1..(n - 1) BY <2>1
  <2>3. CASE i = n BY <1>2, <2>3
  <2>4. CASE i \in 1..(n - 1) BY <1>1, <1>2, <2>4 DEF Frames
  <2> QED BY <2>2, <2>3, <2>4
<1>6. \A i \in 1..n : stack'[i].key = stack[i].key
  BY <1>1, <1>2 DEF Top
<1>7. {g.key : g \in Frames'} = {g.key : g \in Frames}
  <2>1. Frames' = {stack'[i] : i \in 1..n} /\ Frames = {stack[i] : i \in 1..n}
    BY <1>1, <1>3 DEF Frames
  <2>2. \A x : (\E i \in 1..n : x = stack'[i].key) <=> (\E i \in 1..n : x = stack[i].key)
    BY <1>6
  <2>3. /\ {g.key : g \in Frames'} = {stack'[i].key : i \in 1..n}
        /\ {g.key : g \in Frames} = {stack[i].key : i \in 1..n}
    BY <2>1
  <2> QED BY <2>2, <2>3
<1> QED BY <1>1, <1>2, <1>3, <1>4, <1>5, <1>7

-----------------------------------------------------------------------------
(* What a step of the graph leaves of a frame's snapshot. *)

(* Validating k, by a cutoff or with a value, touches no node validated    *)
(* before it.                                                              *)
LEMMA ValidatedKept ==
  ASSUME GraphTypeOK, NEW k \in Keys, ~Validated(k), NEW v \in Values, Backdate(k) \/ Store(k, v)
  PROVE  /\ GraphTypeOK' /\ revision' = revision
         /\ InputsValued => InputsValued'
         /\ \A d \in Keys : d # k => /\ value'[d] = value[d]
                                     /\ verified_at'[d] = verified_at[d]
                                     /\ changed_at'[d] = changed_at[d]
         /\ \A d : Validated(d) => /\ Validated(d)' /\ d # k /\ d \in Keys
                                   /\ value'[d] = value[d] /\ changed_at'[d] = changed_at[d]
<1>1. GraphTypeOK' /\ revision' = revision
  BY DEF GraphTypeOK, Backdate, Store
<1>2. \A d \in Keys : d # k => /\ value'[d] = value[d]
                               /\ verified_at'[d] = verified_at[d]
                               /\ changed_at'[d] = changed_at[d]
  BY DEF GraphTypeOK, Backdate, Store
<1>3. ASSUME NEW d, Validated(d)
      PROVE  /\ Validated(d)' /\ d # k /\ d \in Keys
             /\ value'[d] = value[d] /\ changed_at'[d] = changed_at[d]
  <2>1. d # k /\ d \in Keys BY <1>3 DEF Validated
  <2> QED BY <1>1, <1>2, <1>3, <2>1 DEF Validated
<1>4. InputsValued => InputsValued'
  BY GraphAssumption DEF GraphTypeOK, InputsValued, Backdate, Store, Keys
<1> QED BY <1>1, <1>2, <1>3, <1>4

(* A frame's snapshot survives the validation of another key. *)
LEMMA OthersKept ==
  ASSUME GraphTypeOK, NEW f \in FrameType, FrameTrue(f),
         NEW k \in Keys, f.key # k, ~Validated(k), NEW v \in Values, Backdate(k) \/ Store(k, v)
  PROVE  FrameTrue(f)'
<1> SUFFICES ASSUME f.phase = "deps" PROVE FrameTrue(f)'
  BY DEF FrameTrue
<1>1. /\ f.key \in Derived /\ ~Validated(f.key)
      /\ f.value = value[f.key] /\ f.verified_at = verified_at[f.key]
      /\ Len(f.dvs) <= Len(Deps[f.key])
      /\ \A j \in DOMAIN f.dvs : /\ Validated(Deps[f.key][j]) /\ f.dvs[j] = value[Deps[f.key][j]]
                                 /\ changed_at[Deps[f.key][j]] <= f.max
      /\ f.max = 0 \/ \E j \in DOMAIN f.dvs : f.max = changed_at[Deps[f.key][j]]
  BY DEF FrameTrue
<1>2. f.key \in Keys BY <1>1 DEF Keys
<1>3. f.value = value'[f.key] /\ f.verified_at = verified_at'[f.key] /\ ~Validated(f.key)'
  BY <1>1, <1>2, ValidatedKept DEF Validated
<1>4. \A j \in DOMAIN f.dvs : /\ Validated(Deps[f.key][j])' /\ f.dvs[j] = value'[Deps[f.key][j]]
                              /\ changed_at'[Deps[f.key][j]] = changed_at[Deps[f.key][j]]
  BY <1>1, ValidatedKept
<1> QED BY <1>1, <1>3, <1>4 DEF FrameTrue

(* Nor does a step that leaves the graph alone touch it. *)
LEMMA GraphUnchanged ==
  ASSUME UNCHANGED graph
  PROVE  /\ GraphTypeOK => GraphTypeOK'
         /\ InputsValued => InputsValued'
         /\ \A d : Validated(d)' <=> Validated(d)
         /\ \A f \in FrameType : FrameTrue(f) => FrameTrue(f)'
<1>1. value' = value /\ verified_at' = verified_at /\ changed_at' = changed_at /\ revision' = revision
  BY DEF graph
<1>2. \A d : Validated(d)' <=> Validated(d)
  BY <1>1 DEF Validated
<1> QED BY <1>1, <1>2 DEF GraphTypeOK, InputsValued, FrameTrue

-----------------------------------------------------------------------------
(* The three moves of the recursion. *)

(* Return: the frame leaves the stack, and the one below it gets the       *)
(* Result of exactly the dependency it asked for.                          *)
LEMMA ReturnKeeps ==
  ASSUME StackTrue, stack # <<>>, NEW r, IsResult(r), r # NoRet, Return(r),
         GraphTypeOK', InputsValued', \A f \in Frames : f.key # Top.key => FrameTrue(f)',
         NEW k, k = Top.key, r.tag = "ok" => Validated(k)' /\ r.val = value'[k],
         target' = target, recomputed' \subseteq Derived, cancel' = cancel, outcome' = outcome
  PROVE  StackTrue'
<1> USE DEF StackTrue
<1>1. stack \in Seq(FrameType) BY DEF TypeOK
<1> DEFINE n == Len(stack)
<1>2. /\ n \in Nat \ {0} /\ DOMAIN stack = 1..n
      /\ Top \in FrameType /\ Top \in Frames
  BY <1>1, TopFacts
<1>3. /\ stack' \in Seq(FrameType) /\ Len(stack') = n - 1 /\ DOMAIN stack' = 1..(n - 1)
      /\ \A i \in 1..(n - 1) : stack'[i] = stack[i]
      /\ Frames' = Frames \ {Top}
      /\ \A f \in Frames' : f.key # Top.key
  BY <1>1, Popped DEF Return
<1>4. ret' = r /\ in_progress' = in_progress \ {Top.key}
  BY DEF Return
<1>5. TypeOK'
  BY <1>3, <1>4 DEF TypeOK
<1>6. InProgressIsStack'
  <2>1. in_progress' = {f.key : f \in Frames'}
    BY <1>2, <1>3, <1>4 DEF InProgressIsStack
  <2>2. ASSUME NEW i \in DOMAIN stack', NEW j \in DOMAIN stack', stack'[i].key = stack'[j].key
        PROVE  i = j
    <3>1. n \in Nat BY <1>2
    <3>2. i \in 1..n /\ j \in 1..n /\ i \in 1..(n - 1) /\ j \in 1..(n - 1) BY <1>3, <3>1
    <3> QED BY <1>2, <1>3, <2>2, <3>2 DEF InProgressIsStack
  <2> QED BY <2>1, <2>2 DEF InProgressIsStack
<1>7. SnapshotCurrent'
  BY <1>3 DEF SnapshotCurrent
<1>8. n = 1 => stack' = <<>> /\ Top.key = target
  <2> SUFFICES ASSUME n = 1 PROVE stack' = <<>> /\ Top.key = target
    OBVIOUS
  <2>1. Len(stack') = 0 BY <1>3
  <2>2. stack' = <<>> BY <1>3, <2>1, EmptySeq
  <2>3. Top = stack[1] BY DEF Top
  <2> QED BY <2>2, <2>3 DEF CallsLinked
<1>9. n # 1 => /\ stack' # <<>> /\ stack'[1] = stack[1]
               /\ Top' = stack[n - 1] /\ Suspended(Top)' /\ NextDep(Top)' = Top.key
  <2> SUFFICES ASSUME n # 1
               PROVE  /\ stack' # <<>> /\ stack'[1] = stack[1]
                      /\ Top' = stack[n - 1] /\ Suspended(Top)' /\ NextDep(Top)' = Top.key
    OBVIOUS
  <2>1. n - 1 \in 1..(n - 1) /\ 1 \in 1..(n - 1) /\ n - 1 \in 1..n /\ n - 1 < n /\ n - 1 + 1 = n
    <3>1. n \in Nat \ {0} BY <1>2
    <3> HIDE DEF n
    <3> QED BY <3>1
  <2>2. Top' = stack[n - 1] BY <1>3, <2>1 DEF Top
  <2>3. Suspended(stack[n - 1]) /\ stack[n].key = NextDep(stack[n - 1])
    BY <1>2, <2>1 DEF CallsLinked
  <2>4. stack' # <<>> BY <1>3, <2>1, EmptySeq
  <2> QED BY <1>3, <2>1, <2>2, <2>3, <2>4 DEF Top, Suspended, NextDep
<1>10. CallsLinked'
  <2>1. target # NoKey BY DEF CallsLinked
  <2>2. stack' # <<>> => stack'[1].key = target'
    BY <1>8, <1>9 DEF CallsLinked
  <2>3. ASSUME NEW i \in DOMAIN stack', i < Len(stack')
        PROVE  Suspended(stack'[i]) /\ stack'[i + 1].key = NextDep(stack'[i])
    <3>1. i \in 1..n /\ i < n /\ i \in 1..(n - 1) /\ i + 1 \in 1..(n - 1)
      <4>1. n \in Nat \ {0} /\ i \in 1..(n - 1) /\ i < n - 1 BY <1>2, <1>3, <2>3
      <4> HIDE DEF n
      <4> QED BY <4>1
    <3> QED BY <1>2, <1>3, <3>1 DEF CallsLinked
  <2>4. stack' # <<>> => Suspended(Top)'
    BY <1>8, <1>9
  <2> QED BY <2>1, <2>2, <2>3, <2>4 DEF CallsLinked, Suspended, NextDep
<1>11. ReturnCurrent'
  <2> SUFFICES ASSUME r.tag = "ok" PROVE Validated(Awaited)' /\ r.val = value'[Awaited']
    BY <1>4 DEF ReturnCurrent
  <2>1. Awaited' = k
    BY <1>8, <1>9 DEF Awaited
  <2> QED BY <2>1 DEF Validated
<1> QED BY <1>5, <1>6, <1>7, <1>10, <1>11

(* Call: the key is refused as a cycle, or a frame for it is put on top of *)
(* the one that asked for it.                                              *)
LEMMA CallKeeps ==
  ASSUME StackTrue, ret = NoRet, NEW k \in AnyKey, Call(k, stack), UNCHANGED graph,
         stack = <<>> => target' = k,
         stack # <<>> => target' = target /\ Suspended(Top) /\ k = NextDep(Top),
         target' \in Targets, recomputed' \subseteq Derived,
         cancel' \in BOOLEAN, IsResult(outcome)'
  PROVE  StackTrue'
<1> USE DEF StackTrue
<1>1. stack \in Seq(FrameType) /\ Len(stack) \in Nat /\ DOMAIN stack = 1..Len(stack)
  BY LenProperties DEF TypeOK
<1>2. target' # NoKey
  BY TargetsAssumption
<1>3. /\ GraphTypeOK' /\ InputsValued'
      /\ \A f \in FrameType : FrameTrue(f) => FrameTrue(f)'
  BY GraphUnchanged DEF TypeOK
<1>4. \A f \in Frames : f \in FrameType
  BY <1>1, ElementOfSeq DEF Frames
<1>5. CASE k \in in_progress
  <2>1. stack' = stack /\ in_progress' = in_progress /\ ret' = Err("cycle")
    BY <1>5 DEF Call
  <2>2. TypeOK'
    BY <1>1, <1>3, <2>1 DEF TypeOK, IsResult, Err
  <2>3. Frames' = Frames BY <2>1 DEF Frames
  <2>4. InProgressIsStack' BY <2>1, <2>3 DEF InProgressIsStack
  <2>5. CallsLinked'
    <3>1. stack # <<>>
      BY <1>5, EmptySeq DEF InProgressIsStack, Frames
    <3> QED BY <1>2, <2>1, <3>1 DEF CallsLinked, Suspended, NextDep, Top
  <2>6. SnapshotCurrent' BY <1>3, <1>4, <2>3 DEF SnapshotCurrent
  <2>7. ReturnCurrent' BY <2>1 DEF ReturnCurrent, Err
  <2> QED BY <2>2, <2>4, <2>5, <2>6, <2>7
<1>6. CASE k \notin in_progress
  <2>1. /\ in_progress' = in_progress \cup {k} /\ ret' = NoRet
        /\ stack' = Append(stack, Frame(k))
    BY <1>6 DEF Call
  <2>2. /\ Frame(k) \in FrameType /\ Frame(k).key = k /\ Frame(k).phase = "enter"
        /\ Frame(k).dvs = <<>> /\ Frame(k).max = 0
    BY EmptySeq DEF Frame, FrameType
  <2>3. PICK f \in FrameType : f = Frame(k)
    BY <2>2
  <2>4. f.key = k /\ f.phase = "enter" /\ stack' = Append(stack, f)
    BY <2>1, <2>2, <2>3
  <2> DEFINE n == Len(stack)
  <2>5. /\ stack' \in Seq(FrameType) /\ stack' # <<>> /\ n \in Nat
        /\ Len(stack') = n + 1 /\ DOMAIN stack = 1..n /\ DOMAIN stack' = 1..(n + 1)
        /\ \A i \in 1..n : stack'[i] = stack[i]
        /\ stack'[n + 1] = f
        /\ Frames' = Frames \cup {f}
    BY <1>1, <2>4, Pushed
  <2>6. TypeOK'
    BY <1>3, <2>1, <2>5 DEF TypeOK, IsResult
  <2>7. \A i \in 1..n : stack[i].key # k
    BY <1>6, <2>5 DEF InProgressIsStack, Frames
  <2>8. InProgressIsStack'
    <3>1. in_progress' = {g.key : g \in Frames'}
      BY <2>1, <2>4, <2>5 DEF InProgressIsStack
    <3>2. ASSUME NEW i \in DOMAIN stack', NEW j \in DOMAIN stack', stack'[i].key = stack'[j].key
          PROVE  i = j
      <4>1. (i \in 1..n \/ i = n + 1) /\ (j \in 1..n \/ j = n + 1)
        <5>1. n \in Nat /\ i \in 1..(n + 1) /\ j \in 1..(n + 1) BY <2>5
        <5> HIDE DEF n
        <5> QED BY <5>1
      <4>2. i \in 1..n /\ j \in 1..n => i = j
        BY <2>5, <3>2 DEF InProgressIsStack
      <4> QED BY <2>4, <2>5, <2>7, <3>2, <4>1, <4>2
    <3> QED BY <3>1, <3>2 DEF InProgressIsStack
  <2>9. CallsLinked'
    <3>1. stack'[1].key = target'
      <4>1. CASE n = 0
        <5>1. stack = <<>> BY <1>1, <4>1, EmptySeq
        <5> QED BY <2>4, <2>5, <4>1, <5>1
      <4>2. CASE n # 0
        <5>1. stack # <<>> BY <1>1, <4>2, EmptySeq
        <5>2. 1 \in 1..n
          <6>1. n \in Nat BY <2>5
          <6> HIDE DEF n
          <6> QED BY <4>2, <6>1
        <5> QED BY <2>5, <5>1, <5>2 DEF CallsLinked
      <4> QED BY <4>1, <4>2
    <3>2. ASSUME NEW i \in DOMAIN stack', i < Len(stack')
          PROVE  Suspended(stack'[i]) /\ stack'[i + 1].key = NextDep(stack'[i])
      <4>1. i \in 1..n /\ (i = n \/ (i < n /\ i + 1 \in 1..n))
        <5>1. n \in Nat /\ i \in 1..(n + 1) /\ i < n + 1 BY <2>5, <3>2
        <5> HIDE DEF n
        <5> QED BY <5>1
      <4>2. CASE i = n
        <5>1. stack # <<>> BY <1>1, <4>1
        <5> QED BY <2>4, <2>5, <4>1, <4>2, <5>1 DEF Top
      <4>3. CASE i < n /\ i + 1 \in 1..n
        BY <2>5, <4>1, <4>3 DEF CallsLinked
      <4> QED BY <4>1, <4>2, <4>3
    <3> QED BY <1>2, <2>1, <2>5, <3>1, <3>2 DEF CallsLinked, Suspended, NextDep
  <2>10. SnapshotCurrent'
    <3>1. FrameTrue(f)' BY <2>2, <2>3, <2>4 DEF FrameTrue
    <3> QED BY <1>3, <1>4, <2>5, <3>1 DEF SnapshotCurrent
  <2>11. ReturnCurrent' BY <2>1 DEF ReturnCurrent, NoRet
  <2> QED BY <2>6, <2>8, <2>9, <2>10, <2>11
<1> QED BY <1>5, <1>6

(* The running frame moves on. *)
LEMMA ReplaceKeeps ==
  ASSUME StackTrue, stack # <<>>, NEW f \in FrameType, f.key = Top.key,
         stack' = Append(Below, f), ret' = NoRet, FrameTrue(f),
         UNCHANGED <<graph, in_progress, target, recomputed, cancel, outcome>>
  PROVE  StackTrue'
<1> USE DEF StackTrue
<1>1. stack \in Seq(FrameType) BY DEF TypeOK
<1> DEFINE n == Len(stack)
<1>2. n \in Nat \ {0} /\ DOMAIN stack = 1..n
  BY <1>1, TopFacts
<1>3. /\ stack' \in Seq(FrameType) /\ stack' # <<>>
      /\ Len(stack') = n /\ DOMAIN stack' = 1..n
      /\ \A i \in 1..(n - 1) : stack'[i] = stack[i]
      /\ stack'[n] = f
      /\ Frames' \subseteq Frames \cup {f}
      /\ {g.key : g \in Frames'} = {g.key : g \in Frames}
  BY <1>1, Replaced
<1>4. ASSUME NEW i \in 1..n PROVE stack'[i].key = stack[i].key
  <2>1. i = n \/ i \in 1..(n - 1)
    <3>1. n \in Nat BY <1>2
    <3> HIDE DEF n
    <3> QED BY <3>1
  <2> QED BY <1>3, <2>1 DEF Top
<1>5. /\ GraphTypeOK' /\ InputsValued'
      /\ \A g \in FrameType : FrameTrue(g) => FrameTrue(g)'
  BY GraphUnchanged DEF TypeOK
<1>6. TypeOK'
  BY <1>3, <1>5 DEF TypeOK, IsResult
<1>7. InProgressIsStack'
  <2>1. in_progress' = {g.key : g \in Frames'}
    BY <1>3 DEF InProgressIsStack
  <2>2. \A i, j \in DOMAIN stack' : stack'[i].key = stack'[j].key => i = j
    BY <1>2, <1>3, <1>4 DEF InProgressIsStack
  <2> QED BY <2>1, <2>2 DEF InProgressIsStack
<1>8. CallsLinked'
  <2>1. stack'[1].key = target'
    BY <1>2, <1>4 DEF CallsLinked
  <2>2. target' # NoKey
    BY DEF CallsLinked
  <2>3. ASSUME NEW i \in DOMAIN stack', i < Len(stack')
        PROVE  Suspended(stack'[i]) /\ stack'[i + 1].key = NextDep(stack'[i])
    <3>1. i \in 1..n /\ i < n /\ i \in 1..(n - 1) /\ i + 1 \in 1..n
      <4>1. n \in Nat \ {0} /\ i \in 1..n /\ i < n BY <1>2, <1>3, <2>3
      <4> HIDE DEF n
      <4> QED BY <4>1
    <3> QED BY <1>2, <1>3, <1>4, <3>1 DEF CallsLinked
  <2> QED BY <1>3, <2>1, <2>2, <2>3 DEF CallsLinked, Suspended, NextDep
<1>9. SnapshotCurrent'
  <2>1. \A g \in Frames : g \in FrameType
    BY <1>1, <1>2, ElementOfSeq DEF Frames
  <2> QED BY <1>3, <1>5, <2>1 DEF SnapshotCurrent
<1>10. ReturnCurrent' BY DEF ReturnCurrent, NoRet
<1> QED BY <1>6, <1>7, <1>8, <1>9, <1>10

-----------------------------------------------------------------------------
(* The returns of request_inner. *)

LEMMA FramesTyped ==
  ASSUME TypeOK
  PROVE  \A f \in Frames : f \in FrameType
<1>1. DOMAIN stack = 1..Len(stack)
  BY LenProperties DEF TypeOK
<1> QED BY <1>1, ElementOfSeq DEF TypeOK, Frames

(* A return that changes no node: an error, or a node already validated. *)
LEMMA ReturnQuiet ==
  ASSUME StackTrue, stack # <<>>, NEW r, IsResult(r), r # NoRet, Return(r),
         NEW k, k = Top.key, r.tag = "ok" => Validated(k) /\ r.val = value[k],
         UNCHANGED <<graph, target, cancel, outcome>>, recomputed' \subseteq Derived
  PROVE  StackTrue'
<1>1. /\ GraphTypeOK' /\ InputsValued'
      /\ Validated(k)' <=> Validated(k)
      /\ \A f \in FrameType : FrameTrue(f) => FrameTrue(f)'
  BY GraphUnchanged DEF StackTrue, TypeOK
<1>2. \A f \in Frames : FrameTrue(f)'
  BY <1>1, FramesTyped DEF StackTrue, SnapshotCurrent
<1>3. value' = value
  BY DEF graph
<1> QED BY <1>1, <1>2, <1>3, ReturnKeeps

(* A return that validates the frame's own node, by a cutoff or a value. *)
LEMMA ReturnValidated ==
  ASSUME StackTrue, stack # <<>>, NEW k \in Keys, k = Top.key, ~Validated(k),
         NEW v \in Values, Return(Ok(v)), (Backdate(k) /\ value[k] = v) \/ Store(k, v),
         UNCHANGED <<target, cancel, outcome>>, recomputed' \subseteq Derived
  PROVE  StackTrue'
<1>1. GraphTypeOK /\ InputsValued
  BY DEF StackTrue, TypeOK
<1>2. GraphTypeOK' /\ InputsValued'
  BY <1>1, ValidatedKept
<1>3. \A f \in Frames : f.key # k => FrameTrue(f)'
  BY <1>1, OthersKept, FramesTyped DEF StackTrue, SnapshotCurrent
<1>4. Validated(k)' /\ value'[k] = v
  BY <1>1, GraphAssumption DEF Validated, GraphTypeOK, Backdate, Store
<1>5. IsResult(Ok(v)) /\ Ok(v) # NoRet /\ Ok(v).val = v
  BY DEF IsResult, Ok, NoRet
<1>6. PICK r : r = Ok(v) OBVIOUS
<1>7. IsResult(r) /\ r # NoRet /\ Return(r) /\ r.val = v
  BY <1>5, <1>6
<1> QED BY <1>2, <1>3, <1>4, <1>7, ReturnKeeps

-----------------------------------------------------------------------------
(* One lemma per action. *)

LEMMA InitTrue == Init => StackTrue
<1> SUFFICES ASSUME Init PROVE StackTrue
  OBVIOUS
<1> USE DEF Init
<1>1. Frames = {} /\ DOMAIN stack = {} /\ stack \in Seq(FrameType)
  BY EmptySeq DEF Frames
<1>2. GraphTypeOK /\ InputsValued
  BY GraphAssumption DEF GraphInit, GraphTypeOK, InputsValued, Keys
<1>3. TypeOK
  BY <1>1, <1>2 DEF TypeOK, IsResult
<1>4. InProgressIsStack BY <1>1 DEF InProgressIsStack
<1>5. CallsLinked BY <1>1 DEF CallsLinked
<1>6. SnapshotCurrent BY <1>1 DEF SnapshotCurrent
<1>7. ReturnCurrent BY DEF ReturnCurrent, NoRet
<1> QED BY <1>3, <1>4, <1>5, <1>6, <1>7 DEF StackTrue

(* Edits come between requests, when there is no frame to invalidate. *)
LEMMA SetInputKeeps ==
  ASSUME StackTrue, NEW k \in Inputs, NEW v \in Values, SetInput(k, v)
  PROVE  StackTrue'
<1> USE DEF StackTrue
<1>1. stack' = stack /\ stack = <<>> /\ ret' = ret /\ ret = NoRet /\ target' = target
      /\ in_progress' = in_progress /\ recomputed' = recomputed
      /\ cancel' = cancel /\ outcome' = NoRet
  BY DEF SetInput, control, CallsLinked
<1>2. GraphTypeOK' /\ InputsValued'
  BY GraphAssumption DEF SetInput, set_input, TypeOK, GraphTypeOK, InputsValued, Keys
<1>3. Frames' = Frames /\ Frames = {} BY <1>1, EmptySeq DEF Frames
<1>4. TypeOK' BY <1>1, <1>2 DEF TypeOK, IsResult
<1>5. InProgressIsStack' BY <1>1, <1>3 DEF InProgressIsStack
<1>6. CallsLinked' BY <1>1, EmptySeq DEF CallsLinked
<1>7. SnapshotCurrent' BY <1>3 DEF SnapshotCurrent
<1>8. ReturnCurrent' BY <1>1 DEF ReturnCurrent, NoRet
<1> QED BY <1>4, <1>5, <1>6, <1>7, <1>8

LEMMA RequestKeeps ==
  ASSUME StackTrue, NEW t \in Targets, Request(t)
  PROVE  StackTrue'
<1>1. stack = <<>> /\ ret = NoRet
  BY DEF StackTrue, CallsLinked, Request
<1>2. t \in AnyKey BY DEF AnyKey
<1>3. IsResult(outcome)' BY DEF Request, IsResult
<1> QED BY <1>1, <1>2, <1>3, CallKeeps DEF Request

LEMMA EnterKeeps ==
  ASSUME StackTrue, Enter
  PROVE  StackTrue'
<1>1. stack # <<>> /\ ret = NoRet /\ Top.phase = "enter"
      /\ UNCHANGED <<recomputed, target, cancel, outcome>> /\ recomputed' \subseteq Derived
  BY DEF Enter, Running, StackTrue, TypeOK
<1>2. Top \in FrameType /\ Top \in Frames
  BY <1>1, TopFacts DEF StackTrue, TypeOK
<1>3. PICK k : k = Top.key OBVIOUS
<1>4. GraphTypeOK /\ InputsValued BY DEF StackTrue, TypeOK
<1>5. ASSUME NEW e, Return(Err(e)), UNCHANGED graph PROVE StackTrue'
  <2>1. PICK r : r = Err(e) OBVIOUS
  <2>2. IsResult(r) /\ r # NoRet /\ r.tag # "ok" BY <2>1 DEF IsResult, Err, NoRet
  <2> QED BY <1>1, <1>3, <1>5, <2>1, <2>2, ReturnQuiet
<1>6. ASSUME Validated(k), Return(Ok(value[k])), UNCHANGED graph PROVE StackTrue'
  <2>1. PICK r : r = Ok(value[k]) OBVIOUS
  <2>2. IsResult(r) /\ r # NoRet /\ r.val = value[k]
    BY <1>4, <1>6, <2>1 DEF IsResult, Ok, NoRet, Validated, GraphTypeOK
  <2> QED BY <1>1, <1>3, <1>6, <2>1, <2>2, ReturnQuiet
<1>7. ASSUME k \in Inputs, ~Validated(k), Backdate(k), Return(Ok(value[k])) PROVE StackTrue'
  <2>1. k \in Keys /\ value[k] \in Values
    BY <1>4, <1>7 DEF Keys, GraphTypeOK, InputsValued
  <2>2. PICK v \in Values : v = value[k] BY <2>1
  <2> QED BY <1>1, <1>3, <1>7, <2>1, <2>2, ReturnValidated
<1>8. ASSUME k \in Derived, ~Validated(k),
             stack' = Append(Below, [Top EXCEPT !.phase = "deps",
                        !.verified_at = verified_at[k], !.value = value[k]]),
             UNCHANGED <<ret, in_progress, graph>>
      PROVE  StackTrue'
  <2>1. PICK f : f = [Top EXCEPT !.phase = "deps",
                        !.verified_at = verified_at[k], !.value = value[k]]
    OBVIOUS
  <2>2. k \in Keys BY <1>8 DEF Keys
  <2>3. /\ f \in FrameType /\ f.key = k /\ f.phase = "deps" /\ f.dvs = Top.dvs /\ f.max = Top.max
        /\ f.verified_at = verified_at[k] /\ f.value = value[k]
    BY <1>2, <1>3, <1>4, <2>1, <2>2 DEF FrameType, GraphTypeOK
  <2>4. Top.dvs = <<>> /\ Top.max = 0
    BY <1>1, <1>2 DEF StackTrue, SnapshotCurrent, FrameTrue
  <2>5. FrameTrue(f)
    BY <1>8, <2>3, <2>4, GraphAssumption, EmptySeq DEF FrameTrue
  <2> QED BY <1>1, <1>3, <1>8, <2>1, <2>3, <2>5, ReplaceKeeps
<1> QED BY <1>1, <1>3, <1>5, <1>6, <1>7, <1>8 DEF Enter

LEMMA RequestDepKeeps ==
  ASSUME StackTrue, RequestDep
  PROVE  StackTrue'
<1>1. /\ stack # <<>> /\ ret = NoRet /\ Suspended(Top)
      /\ Call(NextDep(Top), stack)
      /\ UNCHANGED <<graph, recomputed, target, cancel, outcome>>
  BY DEF RequestDep, Running, Suspended, NextDep
<1>2. Top \in FrameType /\ Top \in Frames
  BY <1>1, TopFacts DEF StackTrue, TypeOK
<1>3. Top.key \in Derived /\ Len(Top.dvs) \in Nat
  BY <1>1, <1>2, LenProperties DEF StackTrue, SnapshotCurrent, FrameTrue, Suspended, FrameType
<1>4. NextDep(Top) \in DepSet(Top.key)
  BY <1>1, <1>3, GraphAssumption DEF NextDep, DepSet, DepsOf, Suspended
<1>5. PICK k \in AnyKey : k = NextDep(Top)
  BY <1>3, <1>4 DEF AnyKey
<1>6. target' \in Targets /\ recomputed' \subseteq Derived /\ cancel' \in BOOLEAN /\ IsResult(outcome)'
  BY <1>1 DEF StackTrue, TypeOK, CallsLinked, IsResult
<1> QED BY <1>1, <1>5, <1>6, CallKeeps

LEMMA DepReturnedKeeps ==
  ASSUME StackTrue, DepReturned
  PROVE  StackTrue'
<1>1. /\ stack # <<>> /\ ret # NoRet
      /\ UNCHANGED <<graph, recomputed, target, cancel, outcome>>
      /\ recomputed' \subseteq Derived
  BY DEF DepReturned, StackTrue, TypeOK
<1>2. Top \in FrameType /\ Top \in Frames /\ Suspended(Top)
  BY <1>1, TopFacts DEF StackTrue, TypeOK, CallsLinked
<1>3. CASE ret.tag = "err"
  <2>1. PICK r : r = ret OBVIOUS
  <2>2. IsResult(r) /\ r # NoRet /\ r.tag # "ok" /\ Return(r)
    BY <1>1, <1>3, <2>1 DEF StackTrue, TypeOK, DepReturned
  <2> QED BY <1>1, <2>2, ReturnQuiet
<1>4. CASE ret.tag # "err"
  <2>1. PICK v \in Values : ret = Ok(v)
    BY <1>1, <1>4 DEF StackTrue, TypeOK, IsResult
  <2>2. PICK d : d = NextDep(Top) OBVIOUS
  <2>3. Validated(d) /\ v = value[d]
    BY <1>1, <2>1, <2>2 DEF StackTrue, ReturnCurrent, Awaited, Ok
  <2>4. changed_at[d] \in Nat
    BY <2>3 DEF StackTrue, TypeOK, GraphTypeOK, Validated
  <2>5. PICK f : f = [Top EXCEPT !.dvs = Append(@, v),
                                 !.max = IF changed_at[d] > @ THEN changed_at[d] ELSE @]
    OBVIOUS
  <2>6. stack' = Append(Below, f) /\ ret' = NoRet /\ in_progress' = in_progress
    BY <1>4, <2>1, <2>2, <2>5 DEF DepReturned, NextDep, Ok
  <2>7. PICK s \in Seq(Values), n \in Nat : s = Top.dvs /\ n = Len(s) /\ DOMAIN s = 1..n
    BY <1>2, LenProperties DEF FrameType
  <2>8. /\ Append(s, v) \in Seq(Values) /\ Len(Append(s, v)) = n + 1
        /\ DOMAIN Append(s, v) = 1..(n + 1)
        /\ \A j \in 1..n : Append(s, v)[j] = s[j]
        /\ Append(s, v)[n + 1] = v
    BY <2>7, AppendProperties, LenProperties
  <2>9. PICK m \in Nat : m = Top.max
    BY <1>2 DEF FrameType
  <2>10. /\ f \in FrameType /\ f.key = Top.key /\ f.phase = Top.phase
         /\ f.value = Top.value /\ f.verified_at = Top.verified_at
         /\ f.dvs = Append(s, v)
         /\ f.max = IF changed_at[d] > m THEN changed_at[d] ELSE m
    BY <1>2, <2>4, <2>5, <2>7, <2>8, <2>9 DEF FrameType
  <2>11. d = Deps[Top.key][n + 1] /\ n < Len(Deps[Top.key]) /\ Top.phase = "deps"
    BY <1>2, <2>2, <2>7 DEF NextDep, Suspended
  <2>12. PICK k : k = Top.key OBVIOUS
  <2>13. /\ k \in Derived /\ ~Validated(k)
         /\ Top.value = value[k] /\ Top.verified_at = verified_at[k]
         /\ \A j \in 1..n : /\ Validated(Deps[k][j]) /\ s[j] = value[Deps[k][j]]
                            /\ changed_at[Deps[k][j]] <= m
         /\ m = 0 \/ \E j \in 1..n : m = changed_at[Deps[k][j]]
    BY <1>2, <2>7, <2>9, <2>11, <2>12 DEF StackTrue, SnapshotCurrent, FrameTrue
  <2>14. \A j \in 1..n : changed_at[Deps[k][j]] \in Nat
    BY <2>13 DEF StackTrue, TypeOK, GraphTypeOK, Validated
  <2>15. \A j \in 1..(n + 1) :
           /\ Validated(Deps[k][j]) /\ f.dvs[j] = value[Deps[k][j]]
           /\ changed_at[Deps[k][j]] <= f.max
    <3>1. ASSUME NEW j \in 1..n PROVE Validated(Deps[k][j]) /\ f.dvs[j] = value[Deps[k][j]]
      BY <2>8, <2>10, <2>13
    <3>2. ASSUME NEW j \in 1..n PROVE changed_at[Deps[k][j]] <= f.max
      <4>1. PICK c \in Nat : c = changed_at[Deps[k][j]] /\ c <= m BY <2>13, <2>14
      <4>2. PICK e \in Nat : e = changed_at[d] BY <2>4
      <4>3. f.max = IF e > m THEN e ELSE m BY <2>10, <4>2
      <4> QED BY <4>1, <4>3
    <3>3. /\ Validated(Deps[k][n + 1]) /\ f.dvs[n + 1] = value[Deps[k][n + 1]]
          /\ changed_at[Deps[k][n + 1]] <= f.max
      <4>1. Deps[k][n + 1] = d BY <2>11, <2>12
      <4>2. changed_at[d] <= f.max BY <2>4, <2>10
      <4> QED BY <2>3, <2>8, <2>10, <4>1, <4>2
    <3> QED BY <3>1, <3>2, <3>3
  <2>16. f.max = 0 \/ \E j \in 1..(n + 1) : f.max = changed_at[Deps[k][j]]
    <3>1. n + 1 \in 1..(n + 1) /\ \A j \in 1..n : j \in 1..(n + 1)
      OBVIOUS
    <3>2. Deps[k][n + 1] = d BY <2>11, <2>12
    <3>3. f.max = changed_at[d] \/ f.max = m BY <2>10
    <3> QED BY <2>13, <3>1, <3>2, <3>3
  <2>17. Len(f.dvs) <= Len(Deps[k]) /\ DOMAIN f.dvs = 1..(n + 1)
    BY <2>8, <2>10, <2>11, <2>12, <2>13, GraphAssumption
  <2>18. FrameTrue(f)
    BY <2>10, <2>11, <2>12, <2>13, <2>15, <2>16, <2>17 DEF FrameTrue
  <2> QED BY <1>1, <2>6, <2>10, <2>18, ReplaceKeeps
<1> QED BY <1>3, <1>4

(* When its last dependency has answered, a frame's test of max against    *)
(* verified_at decides exactly the graph's Cutoff, and its dvs are the     *)
(* dependencies' values now.                                               *)
LEMMA ConcludeFacts ==
  ASSUME StackTrue, Running("deps"), Len(Top.dvs) = Len(Deps[Top.key]), NEW k, k = Top.key
  PROVE  /\ k \in Derived /\ k \in Keys /\ ~Validated(k) /\ Top.value = value[k]
         /\ DepsValidated(k)
         /\ Top.dvs = DepValues(k) /\ Compute(k, Top.dvs) \in Values
         /\ (Top.value # NoValue /\ Top.max <= Top.verified_at) <=> Cutoff(k)
<1>1. Top \in FrameType /\ Top \in Frames /\ Top.phase = "deps"
  BY TopFacts DEF StackTrue, TypeOK, Running
<1>2. PICK f \in FrameType : f = Top
  BY <1>1
<1>3. /\ f.key = k /\ k \in Derived /\ k \in Keys /\ ~Validated(k)
      /\ f.value = value[k] /\ f.verified_at = verified_at[k]
      /\ \A j \in DOMAIN f.dvs : /\ Validated(Deps[k][j]) /\ f.dvs[j] = value[Deps[k][j]]
                                 /\ changed_at[Deps[k][j]] <= f.max
      /\ f.max = 0 \/ \E j \in DOMAIN f.dvs : f.max = changed_at[Deps[k][j]]
  BY <1>1, <1>2 DEF StackTrue, SnapshotCurrent, FrameTrue, Keys
<1>4. f.dvs \in Seq(Values) /\ f.max \in Nat
  BY <1>2 DEF FrameType
<1>5. PICK s \in Seq(Values) : s = f.dvs
  BY <1>4
<1>6. DOMAIN s = 1..Len(s) /\ s \in [1..Len(s) -> Values]
  BY LenProperties
<1>7. DOMAIN s = DOMAIN Deps[k] /\ s \in [DOMAIN Deps[k] -> Values]
  BY <1>2, <1>3, <1>5, <1>6, GraphAssumption
<1>8. s = DepValues(k) /\ Compute(k, s) \in Values
  BY <1>3, <1>5, <1>7, ComputeAssumption DEF DepValues
<1>9. DepSet(k) = {Deps[k][j] : j \in DOMAIN s}
  BY <1>3, <1>7 DEF DepSet, DepsOf
<1>10. DepsValidated(k)
  BY <1>3, <1>5, <1>9 DEF DepsValidated
<1>11. verified_at[k] \in Nat /\ \A j \in DOMAIN s : changed_at[Deps[k][j]] \in Nat
  BY <1>3, <1>5 DEF StackTrue, TypeOK, GraphTypeOK, Validated
<1>12. f.max <= verified_at[k] <=> NoDepChanged(k)
  BY <1>3, <1>4, <1>5, <1>9, <1>11 DEF NoDepChanged
<1>13. k \notin Inputs
  BY <1>3, GraphAssumption
<1>14. Cutoff(k) <=> value[k] # NoValue /\ NoDepChanged(k)
  BY <1>3, <1>13 DEF Cutoff, Validated
<1> QED BY <1>2, <1>3, <1>5, <1>8, <1>10, <1>12, <1>14

LEMMA ConcludeKeeps ==
  ASSUME StackTrue, Conclude
  PROVE  StackTrue'
<1>1. /\ Running("deps") /\ stack # <<>> /\ Len(Top.dvs) = Len(Deps[Top.key])
      /\ UNCHANGED <<target, cancel, outcome>>
  BY DEF Conclude, Running
<1>2. PICK k : k = Top.key OBVIOUS
<1>3. /\ k \in Derived /\ k \in Keys /\ ~Validated(k)
      /\ Top.value = value[k] /\ Compute(k, Top.dvs) \in Values
  BY <1>1, <1>2, ConcludeFacts
<1>4. recomputed' \subseteq Derived
  BY <1>2, <1>3 DEF Conclude, StackTrue, TypeOK
<1>5. ASSUME Top.value # NoValue, Backdate(k), Return(Ok(Top.value)) PROVE StackTrue'
  <2>1. PICK v \in Values : v = value[k]
    BY <1>3, <1>5 DEF StackTrue, TypeOK, GraphTypeOK
  <2> QED BY <1>1, <1>2, <1>3, <1>4, <1>5, <2>1, ReturnValidated
<1>6. ASSUME Return(Err(k)), UNCHANGED graph PROVE StackTrue'
  <2>1. PICK r : r = Err(k) OBVIOUS
  <2>2. IsResult(r) /\ r # NoRet /\ r.tag # "ok" BY <2>1 DEF IsResult, Err, NoRet
  <2> QED BY <1>1, <1>2, <1>4, <1>6, <2>1, <2>2, ReturnQuiet
<1>7. ASSUME Store(k, Compute(k, Top.dvs)), Return(Ok(Compute(k, Top.dvs))) PROVE StackTrue'
  <2>1. PICK v \in Values : v = Compute(k, Top.dvs)
    BY <1>3
  <2> QED BY <1>1, <1>2, <1>3, <1>4, <1>7, <2>1, ReturnValidated
<1> QED BY <1>2, <1>5, <1>6, <1>7 DEF Conclude

(* The frames are left alone: the Result is delivered, the flag is raised, *)
(* or nothing happens.                                                     *)
LEMMA StillKeeps ==
  ASSUME StackTrue, Finish \/ RaiseCancel \/ UNCHANGED vars
  PROVE  StackTrue'
<1>1. UNCHANGED <<graph, stack, in_progress, recomputed>> /\ UNCHANGED graph
  BY DEF Finish, RaiseCancel, control, vars
<1>2. Frames' = Frames /\ Top' = Top
  BY <1>1 DEF Frames, Top
<1>3. /\ GraphTypeOK' /\ InputsValued' /\ value' = value
      /\ \A d : Validated(d)' <=> Validated(d)
      /\ \A f \in FrameType : FrameTrue(f) => FrameTrue(f)'
  BY <1>1, GraphUnchanged DEF StackTrue, TypeOK, graph
<1>4. \/ target' = target /\ ret' = ret
      \/ target' = NoKey /\ ret' = NoRet /\ stack = <<>>
  BY DEF Finish, RaiseCancel, control, vars
<1>5. TypeOK'
  BY <1>1, <1>3 DEF StackTrue, TypeOK, IsResult, Finish, RaiseCancel, control, vars
<1>6. InProgressIsStack'
  BY <1>1, <1>2 DEF StackTrue, InProgressIsStack
<1>7. CallsLinked'
  BY <1>1, <1>2, <1>4, EmptySeq DEF StackTrue, CallsLinked, Suspended, NextDep
<1>8. SnapshotCurrent'
  BY <1>2, <1>3, FramesTyped DEF StackTrue, SnapshotCurrent
<1>9. ReturnCurrent'
  <2>1. CASE target' = target /\ ret' = ret
    <3>1. Awaited' = Awaited BY <1>1, <1>2, <2>1 DEF Awaited, NextDep
    <3>2. PICK k : k = Awaited OBVIOUS
    <3>3. ret.tag = "ok" => Validated(k)' /\ ret.val = value'[k]
      BY <1>3, <3>2 DEF StackTrue, ReturnCurrent
    <3> QED BY <2>1, <3>1, <3>2, <3>3 DEF ReturnCurrent, Validated
  <2>2. CASE ret' = NoRet
    BY <2>2 DEF ReturnCurrent, NoRet
  <2> QED BY <1>4, <2>1, <2>2
<1> QED BY <1>5, <1>6, <1>7, <1>8, <1>9 DEF StackTrue

(* On every path through the recursion - cutoff, recompute, error, cycle,  *)
(* cancellation - in_progress names exactly the active frames, the         *)
(* snapshot a frame holds across its recursive calls is still the node's   *)
(* state, and an Ok on its way is its key's validated value (request and   *)
(* request_inner).                                                         *)
THEOREM StackInvariant == Spec => []StackTrue
<1>1. StackTrue /\ [Next]_vars => StackTrue'
  BY SetInputKeeps, RequestKeeps, EnterKeeps, RequestDepKeeps, DepReturnedKeeps,
     ConcludeKeeps, StillKeeps DEF Next, Evaluate
<1> QED BY InitTrue, <1>1, PTL DEF Spec

-----------------------------------------------------------------------------
(* The recursion implements the graph that validates one node at a time. *)

(* A node is validated by a cutoff or a recompute, after its dependencies. *)
LEMMA EvaluateRefines ==
  ASSUME StackTrue, Enter \/ Conclude
  PROVE  [Abs!Next]_(Abs!graph)
<1> USE DEF Abs!Keys, Keys, Abs!graph, graph
<1>1. ASSUME UNCHANGED graph PROVE UNCHANGED Abs!graph
  BY <1>1
<1>2. ASSUME NEW k \in Keys, DepsValidated(k), Cutoff(k), Backdate(k)
      PROVE  Abs!Next
  <2>1. Abs!CutOff(k)
    BY <1>2 DEF Abs!CutOff, Abs!DepsValidated, DepsValidated, Abs!DepSet, DepSet, Abs!DepsOf, DepsOf,
       Abs!Validated, Validated, Abs!Cutoff, Cutoff, Abs!NoDepChanged, NoDepChanged, Abs!Backdate, Backdate
  <2> QED BY <2>1 DEF Abs!Next
<1>3. ASSUME NEW k \in Derived, DepsValidated(k), ~Cutoff(k), Store(k, Compute(k, DepValues(k)))
      PROVE  Abs!Next
  <2>1. Abs!Recompute(k)
    BY <1>3 DEF Abs!Recompute, Abs!DepsValidated, DepsValidated, Abs!DepSet, DepSet, Abs!DepsOf, DepsOf,
       Abs!Validated, Validated, Abs!Cutoff, Cutoff, Abs!NoDepChanged, NoDepChanged, Abs!Store, Store,
       Abs!DepValues, DepValues
  <2> QED BY <2>1 DEF Abs!Next
<1>4. PICK k : k = Top.key OBVIOUS
<1>5. CASE Enter
  <2>1. ASSUME k \in Inputs, Backdate(k) PROVE Abs!Next
    <3>1. DepsValidated(k) /\ Cutoff(k)
      BY <2>1, GraphAssumption DEF DepsValidated, DepSet, DepsOf, Cutoff
    <3> QED BY <1>2, <2>1, <3>1
  <2>2. UNCHANGED graph \/ (k \in Inputs /\ Backdate(k))
    BY <1>4, <1>5 DEF Enter
  <2> QED BY <1>1, <2>1, <2>2
<1>6. CASE Conclude
  <2>1. Running("deps") /\ Len(Top.dvs) = Len(Deps[Top.key])
    BY <1>6 DEF Conclude
  <2>2. /\ k \in Derived /\ k \in Keys /\ DepsValidated(k) /\ Top.dvs = DepValues(k)
        /\ (Top.value # NoValue /\ Top.max <= Top.verified_at) <=> Cutoff(k)
    BY <1>4, <2>1, ConcludeFacts
  <2>3. \/ UNCHANGED graph
        \/ Cutoff(k) /\ Backdate(k)
        \/ ~Cutoff(k) /\ Store(k, Compute(k, DepValues(k)))
    BY <1>4, <1>6, <2>2 DEF Conclude
  <2> QED BY <1>1, <1>2, <1>3, <2>2, <2>3
<1> QED BY <1>5, <1>6

(* Every step of the recursion is a step of IncrementalGraph, or leaves    *)
(* its variables alone: the cutoff that request_inner decides from its     *)
(* snapshot is the cutoff of the graph as it is at that moment.            *)
THEOREM SerialRefines == Spec => Refines
<1>1. Init => Abs!GraphInit
  BY DEF Init, GraphInit, Abs!GraphInit, Keys, Abs!Keys
<1>2. ASSUME StackTrue, [Next]_vars PROVE [Abs!Next]_(Abs!graph)
  <2>1. ASSUME NEW k \in Inputs, NEW v \in Values, SetInput(k, v) PROVE Abs!Next
    <3>1. Abs!SetInput(k, v)
      BY <2>1 DEF SetInput, set_input, Abs!SetInput, Abs!set_input
    <3> QED BY <3>1 DEF Abs!Next
  <2>2. ASSUME \/ \E t \in Targets : Request(t)
               \/ RequestDep \/ DepReturned \/ Finish \/ RaiseCancel \/ UNCHANGED vars
        PROVE  UNCHANGED Abs!graph
    BY <2>2 DEF Request, RequestDep, DepReturned, Finish, RaiseCancel, vars, graph, Abs!graph
  <2> QED BY <1>2, <2>1, <2>2, EvaluateRefines DEF Next, Evaluate
<1> QED BY <1>1, <1>2, StackInvariant, PTL DEF Spec, Refines, Abs!Spec

-----------------------------------------------------------------------------
(* What is proved of IncrementalGraph holds of the recursion. *)
G == INSTANCE EngineProofs WITH
       revision <- revision, value <- value, changed_at <- changed_at, verified_at <- verified_at

(* An instance unfolds to the graph itself. *)
LEMMA SerialIsGraph == Spec => G!Spec
<1> USE DEF Keys, Abs!Keys, G!Keys, Abs!DepSet, G!DepSet, Abs!DepsOf, G!DepsOf, Abs!graph, G!graph
<1>1. Abs!GraphInit => G!GraphInit
  BY DEF Abs!GraphInit, G!GraphInit
<1>2. ASSUME [Abs!Next]_(Abs!graph) PROVE [G!Next]_(G!graph)
  <2>1. ASSUME NEW k \in Inputs, NEW v \in Values, Abs!SetInput(k, v) PROVE G!Next
    <3>1. G!SetInput(k, v)
      BY <2>1 DEF Abs!SetInput, G!SetInput, Abs!set_input, G!set_input
    <3> QED BY <3>1 DEF G!Next
  <2>2. ASSUME NEW k \in Keys, Abs!CutOff(k) PROVE G!Next
    <3>1. G!CutOff(k)
      BY <2>2 DEF Abs!CutOff, G!CutOff, Abs!DepsValidated, G!DepsValidated, Abs!Validated, G!Validated,
         Abs!Cutoff, G!Cutoff, Abs!NoDepChanged, G!NoDepChanged, Abs!Backdate, G!Backdate
    <3> QED BY <3>1 DEF G!Next
  <2>3. ASSUME NEW k \in Derived, Abs!Recompute(k) PROVE G!Next
    <3>1. G!Recompute(k)
      BY <2>3 DEF Abs!Recompute, G!Recompute, Abs!DepsValidated, G!DepsValidated, Abs!Validated, G!Validated,
         Abs!Cutoff, G!Cutoff, Abs!NoDepChanged, G!NoDepChanged, Abs!Store, G!Store,
         Abs!DepValues, G!DepValues
    <3> QED BY <3>1 DEF G!Next
  <2> QED BY <1>2, <2>1, <2>2, <2>3 DEF Abs!Next
<1> QED BY SerialRefines, <1>1, <1>2, PTL DEF Refines, Abs!Spec, G!Spec

(* request never serves a stale value: a node it has validated holds what  *)
(* its closure computes from its dependencies' current values, whatever    *)
(* was cut off, cancelled or failed in this request or an earlier one.     *)
THEOREM SerialFresh == Spec => []Fresh
<1>1. G!Fresh => Fresh
  BY DEF G!Fresh, Fresh, G!Validated, Validated, G!DepsValidated, DepsValidated, G!Keys, Keys,
     G!DepSet, DepSet, G!DepsOf, DepsOf, G!DepValues, DepValues
<1>2. G!Spec => []G!Fresh
  BY G!NeverStale, GraphAssumption, ComputeAssumption
<1> QED BY SerialIsGraph, <1>1, <1>2, PTL

(* A successful request returns what a build from scratch would return     *)
(* from the inputs as they are, however warm, cut off, cancelled or failed *)
(* before; one that meets a cycle or an unknown key never succeeds.        *)
THEOREM SerialWarm == Spec => []WarmEqualsCold
<1>1. G!WarmIsCold /\ StackTrue => WarmEqualsCold
  <2> SUFFICES ASSUME G!WarmIsCold, StackTrue, target # NoKey, stack = <<>>, ret.tag = "ok"
               PROVE  /\ \A k \in ReachFrom(target) : k \in Keys /\ ~OnCycle(k)
                      /\ ret.val = Cold(ReachFrom(target))[target]
    BY DEF WarmEqualsCold
  <2>1. Validated(target) /\ ret.val = value[target]
    BY DEF StackTrue, ReturnCurrent, Awaited
  <2>2. target \in G!Keys /\ G!Validated(target)
    BY <2>1 DEF Validated, G!Validated, Keys, G!Keys
  <2>3. /\ \A k \in G!ReachFrom(target) : k \in G!Keys /\ ~G!OnCycle(k)
        /\ value[target] = G!Cold(G!ReachFrom(target))[target]
    <3>1. target \in G!Named /\ target \in G!ReachFrom(target)
      BY <2>2, G!ReachLeast, GraphAssumption, ComputeAssumption DEF G!Named
    <3> QED BY <2>2, <3>1 DEF G!WarmIsCold
  <2>4. G!Reach = Reach
    BY DEF G!Reach, Reach, G!Named, Named, G!Closed, Closed, G!Keys, Keys, G!DepSet, DepSet, G!DepsOf, DepsOf
  <2>5. \A k : G!ReachFrom(k) = ReachFrom(k)
    BY <2>4 DEF G!ReachFrom, ReachFrom, G!Named, Named, G!Keys, Keys, G!DepSet, DepSet, G!DepsOf, DepsOf
  <2>6. \A k : G!OnCycle(k) <=> OnCycle(k)
    BY <2>5 DEF G!OnCycle, OnCycle, G!DepSet, DepSet, G!DepsOf, DepsOf
  <2>7. G!Cold(ReachFrom(target)) = Cold(ReachFrom(target))
    BY DEF G!Cold, Cold
  <2> QED BY <2>1, <2>3, <2>5, <2>6, <2>7 DEF G!Keys, Keys
<1>2. G!Spec => []G!WarmIsCold
  BY G!AlwaysCold, GraphAssumption, ComputeAssumption
<1> QED BY SerialIsGraph, StackInvariant, <1>1, <1>2, PTL
=============================================================================
