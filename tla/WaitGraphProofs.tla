-------------------------- MODULE WaitGraphProofs --------------------------
(***************************************************************************)
(* The wait graph of the loader, for any workspace, pool of workers and    *)
(* number of takeovers: counts, claims, module cache and proxies stay in   *)
(* step with who really evaluates what.                                    *)
(*                                                                         *)
(* ClaimsTrue is not inductive: a claim must be known to be its            *)
(* evaluator's (SoleOwner), a module that is frozen to be cached already,  *)
(* and a module that loads nothing to be evaluated without ever waiting,   *)
(* so that no cycle of waits leads through it.                             *)
(***************************************************************************)
EXTENDS WaitGraph, SequenceTheorems, FiniteSetTheorems, TLAPS

-----------------------------------------------------------------------------
Modes == {"idle", "run", "acquire", "precheck", "parked", "purge", "ok", "err", "done"}
Stages == {"look", "loaded", "loaderr", "waited", "again", "frozen"}
FrameType ==
  [key : Keys, ip : Nat \ {0}, drive : BOOLEAN, slots : SUBSET Decls, stage : Stages,
   failed : BOOLEAN]

(* What a thread's mode says of the key it wants, its wait edge and stack. *)
ThreadTrue(m, w, edge, s) ==
  /\ m = "run" => s # <<>>
  /\ m \in {"idle", "ok", "err", "done"} => s = <<>>
  /\ m \in {"acquire", "precheck", "parked"} => w \in Keys /\ (s = <<>> => w \in Pkgs)
  /\ m = "precheck" => w \in Decls
  /\ edge # None => edge = w /\ m \in {"acquire", "parked"}

(* What a thread evaluates first is a package. *)
Grounded(s) == s # <<>> => s[1].key \in Pkgs

Typed ==
  /\ TypeOK
  /\ workspace \in Workspaces
  /\ stack \in [Threads -> Seq(FrameType)]
  /\ want \in [Threads -> Keys \cup {None}]
  /\ \A t \in Threads : ThreadTrue(mode[t], want[t], waiting[t], stack[t]) /\ Grounded(stack[t])

(* Without takeovers a key is claimed by the one thread that evaluates it. *)
SoleOwner(k) ==
  /\ \A e \in Evaluations(k) : res[k] = InFlight(e[1]) /\ Evaluations(k) = {e}
  /\ Owned(k) => Evaluations(k) # {}
BookTrue(k) ==
  /\ IsFiniteSet(Evaluations(k)) /\ live[k] = Cardinality(Evaluations(k))
  /\ Evaluations(k) # {} => res[k] # Absent
  /\ ~Timeouts => SoleOwner(k)
Books == \A k \in Counted : BookTrue(k)

(* A module is frozen after it is cached, and one that loads nothing is    *)
(* the innermost evaluation of a thread that runs.                         *)
FrozenIsCached ==
  \A t \in Threads : \A i \in DOMAIN stack[t] :
    stack[t][i].key \in Bzls /\ stack[t][i].stage = "frozen" => cached[stack[t][i].key] > 0
LeafTrue(f, c) ==
  /\ f.slots = {} /\ ~f.drive /\ f.stage \in {"look", "frozen"}
  /\ f.failed => f.stage = "look"
  /\ f.stage = "look" => c[f.key] = 0
LeavesInnermost ==
  \A t \in Threads : \A i \in DOMAIN stack[t] :
    stack[t][i].key \in Leaf => i = Len(stack[t]) /\ mode[t] = "run" /\ LeafTrue(stack[t][i], cached)
CachedOnce == \A b \in Leaf : cached[b] <= 1 /\ (res[b] = Absent => cached[b] = 0)

Modules == DoneIsCached /\ FrozenIsCached /\ LeavesInnermost /\ CachedOnce

(* drive_tree's indices are indices: of the queue, the rounds and a load.  *)
Driving(m, e) == m \notin {"idle", "done"} => e \in DOMAIN Entries
DriverTrue ==
  /\ next \in Nat \ {0} /\ entry \in [Threads -> Nat]
  /\ still \subseteq DOMAIN Entries /\ round \subseteq DOMAIN Entries
  /\ \A t \in Threads : Driving(mode[t], entry[t])

WaitInv == Typed /\ Books /\ Modules /\ NoProxyLeak /\ DriverTrue
-----------------------------------------------------------------------------
(* Stacks: a sequence of frames, its top changed, pushed or popped. *)
LEMMA Stacked ==
  ASSUME NEW s \in Seq(FrameType)
  PROVE  /\ Len(s) \in Nat /\ DOMAIN s = 1..Len(s)
         /\ \A i \in DOMAIN s : s[i] \in FrameType
         /\ s # <<>> => Len(s) \in Nat \ {0} /\ Len(s) \in DOMAIN s /\ Last(s) = s[Len(s)]
                        /\ Last(s) \in FrameType
<1>1. Len(s) \in Nat /\ DOMAIN s = 1..Len(s)
  BY LenProperties
<1>2. \A i \in DOMAIN s : s[i] \in FrameType
  BY <1>1, ElementOfSeq
<1>3. ASSUME s # <<>> PROVE Len(s) \in Nat \ {0} /\ Len(s) \in DOMAIN s
  BY <1>1, <1>3, EmptySeq
<1> QED BY <1>1, <1>2, <1>3 DEF Last

LEMMA Pushed ==
  ASSUME NEW s \in Seq(FrameType), NEW f \in FrameType
  PROVE  /\ Append(s, f) \in Seq(FrameType) /\ Append(s, f) # <<>>
         /\ Len(Append(s, f)) = Len(s) + 1
         /\ DOMAIN Append(s, f) = DOMAIN s \cup {Len(s) + 1} /\ Len(s) + 1 \notin DOMAIN s
         /\ Append(s, f)[Len(s) + 1] = f /\ Last(Append(s, f)) = f
         /\ \A i \in DOMAIN s : Append(s, f)[i] = s[i]
<1>1. Len(s) \in Nat /\ DOMAIN s = 1..Len(s)
  BY Stacked
<1>2. /\ Append(s, f) \in Seq(FrameType) /\ Len(Append(s, f)) = Len(s) + 1
      /\ \A i \in 1..Len(s) : Append(s, f)[i] = s[i]
      /\ Append(s, f)[Len(s) + 1] = f /\ Append(s, f) # <<>>
  BY AppendProperties
<1>3. DOMAIN Append(s, f) = 1..(Len(s) + 1)
  BY <1>2, LenProperties
<1>4. DOMAIN Append(s, f) = DOMAIN s \cup {Len(s) + 1} /\ Len(s) + 1 \notin DOMAIN s
  BY <1>1, <1>3
<1> QED BY <1>1, <1>2, <1>4 DEF Last

LEMMA Popped ==
  ASSUME NEW s \in Seq(FrameType), s # <<>>
  PROVE  /\ Front(s) \in Seq(FrameType) /\ Len(Front(s)) = Len(s) - 1
         /\ DOMAIN Front(s) = DOMAIN s \ {Len(s)}
         /\ \A i \in DOMAIN Front(s) : Front(s)[i] = s[i]
<1> DEFINE n == Len(s)
<1>1. n \in Nat \ {0} /\ DOMAIN s = 1..n /\ \A i \in DOMAIN s : s[i] \in FrameType
  BY Stacked
<1>2. Front(s) = SubSeq(s, 1, n - 1)
  BY DEF Front
<1> HIDE DEF n
<1>3. \A i \in 1..(n - 1) : s[i] \in FrameType
  BY <1>1
<1>4. /\ SubSeq(s, 1, n - 1) \in Seq(FrameType)
      /\ Len(SubSeq(s, 1, n - 1)) = IF 1 <= n - 1 THEN (n - 1) - 1 + 1 ELSE 0
      /\ \A i \in 1..((n - 1) - 1 + 1) : SubSeq(s, 1, n - 1)[i] = s[1 + i - 1]
  BY <1>1, <1>3, SubSeqProperties
<1>5. Len(Front(s)) = n - 1
  BY <1>1, <1>2, <1>4
<1>6. DOMAIN Front(s) = 1..(n - 1)
  BY <1>2, <1>4, <1>5, LenProperties
<1>7. DOMAIN Front(s) = DOMAIN s \ {n}
  BY <1>1, <1>6
<1>8. ASSUME NEW i \in DOMAIN Front(s) PROVE Front(s)[i] = s[i]
  <2>1. i \in 1..((n - 1) - 1 + 1) /\ 1 + i - 1 = i
    BY <1>1, <1>6
  <2> QED BY <1>2, <1>4, <2>1
<1> QED BY <1>2, <1>4, <1>5, <1>7, <1>8 DEF n

LEMMA Replaced ==
  ASSUME NEW s \in Seq(FrameType), s # <<>>, NEW f \in FrameType
  PROVE  /\ ReplaceTop(s, f) \in Seq(FrameType) /\ ReplaceTop(s, f) # <<>>
         /\ Len(ReplaceTop(s, f)) = Len(s) /\ DOMAIN ReplaceTop(s, f) = DOMAIN s
         /\ Last(ReplaceTop(s, f)) = f
         /\ \A i \in DOMAIN s : ReplaceTop(s, f)[i] = IF i = Len(s) THEN f ELSE s[i]
<1> DEFINE r == Front(s)
<1>1. Len(s) \in Nat \ {0} /\ Len(s) \in DOMAIN s
  BY Stacked
<1>2. /\ r \in Seq(FrameType) /\ Len(r) = Len(s) - 1 /\ DOMAIN r = DOMAIN s \ {Len(s)}
      /\ \A i \in DOMAIN r : r[i] = s[i]
  BY Popped
<1>3. ReplaceTop(s, f) = Append(r, f)
  BY DEF ReplaceTop
<1> HIDE DEF r
<1>4. Len(r) + 1 = Len(s)
  BY <1>1, <1>2
<1> QED BY <1>1, <1>2, <1>3, <1>4, Pushed

-----------------------------------------------------------------------------
(* A change of a stack that the books do not see: the counted evaluations  *)
(* on it stay where they are, and nothing on it becomes frozen.            *)
Quiet(s, n) ==
  /\ n \in Seq(FrameType) /\ (n # <<>> => s # <<>>)
  /\ \A k \in Counted : EvalsAt(n, k) = EvalsAt(s, k)
  /\ \A i \in DOMAIN n : n[i].stage = "frozen" =>
       \E j \in DOMAIN s : s[j].key = n[i].key /\ s[j].stage = "frozen"

LEMMA QuietSame ==
  ASSUME NEW s \in Seq(FrameType) PROVE Quiet(s, s)
  BY DEF Quiet

LEMMA QuietThen ==
  ASSUME NEW s, NEW n, NEW m, Quiet(s, n), Quiet(n, m)
  PROVE  Quiet(s, m)
<1>1. /\ m \in Seq(FrameType) /\ (m # <<>> => s # <<>>)
      /\ \A k \in Counted : EvalsAt(m, k) = EvalsAt(s, k)
  BY DEF Quiet
<1>2. ASSUME NEW i \in DOMAIN m, m[i].stage = "frozen"
      PROVE  \E j \in DOMAIN s : s[j].key = m[i].key /\ s[j].stage = "frozen"
  <2>1. PICK j \in DOMAIN n : n[j].key = m[i].key /\ n[j].stage = "frozen"
    BY <1>2 DEF Quiet
  <2> QED BY <2>1 DEF Quiet
<1> QED BY <1>1, <1>2 DEF Quiet

LEMMA QuietTop ==
  ASSUME NEW s \in Seq(FrameType), s # <<>>, NEW f \in FrameType,
         f.key = Last(s).key, f.stage = "frozen" => Last(s).stage = "frozen"
  PROVE  Quiet(s, ReplaceTop(s, f))
<1> DEFINE n == ReplaceTop(s, f)
<1>1. /\ n \in Seq(FrameType) /\ DOMAIN n = DOMAIN s
      /\ \A i \in DOMAIN s : n[i] = IF i = Len(s) THEN f ELSE s[i]
  BY Replaced
<1>2. Last(s) = s[Len(s)] /\ Len(s) \in DOMAIN s
  BY Stacked
<1> HIDE DEF n
<1>3. ASSUME NEW i \in DOMAIN s
      PROVE  n[i].key = s[i].key /\ (n[i].stage = "frozen" => s[i].stage = "frozen")
  BY <1>1, <1>2
<1>4. ASSUME NEW k \in Counted PROVE EvalsAt(n, k) = EvalsAt(s, k)
  BY <1>1, <1>3 DEF EvalsAt
<1> QED BY <1>1, <1>3, <1>4 DEF Quiet, n

LEMMA QuietPush ==
  ASSUME NEW s \in Seq(FrameType), s # <<>>,
         NEW f \in FrameType, f.key \notin Counted, f.stage = "look"
  PROVE  Quiet(s, Append(s, f))
<1> DEFINE n == Append(s, f)
<1>1. /\ n \in Seq(FrameType) /\ DOMAIN n = DOMAIN s \cup {Len(s) + 1} /\ n[Len(s) + 1] = f
      /\ \A i \in DOMAIN s : n[i] = s[i]
  BY Pushed
<1> HIDE DEF n
<1>2. ASSUME NEW k \in Counted PROVE EvalsAt(n, k) = EvalsAt(s, k)
  BY <1>1 DEF EvalsAt
<1> QED BY <1>1, <1>2 DEF Quiet, n

LEMMA QuietPop ==
  ASSUME NEW s \in Seq(FrameType), s # <<>>, Last(s).key \notin Counted
  PROVE  Quiet(s, Front(s))
<1> DEFINE n == Front(s)
<1>1. /\ n \in Seq(FrameType) /\ DOMAIN n = DOMAIN s \ {Len(s)}
      /\ \A i \in DOMAIN n : n[i] = s[i]
  BY Popped
<1>2. Last(s) = s[Len(s)]
  BY Stacked
<1> HIDE DEF n
<1>3. ASSUME NEW k \in Counted PROVE EvalsAt(n, k) = EvalsAt(s, k)
  BY <1>1, <1>2 DEF EvalsAt
<1> QED BY <1>1, <1>3 DEF Quiet, n

(* A slot taken from a frame of the stack. *)
Taken(s, i, d) == [s EXCEPT ![i].slots = @ \ {d}]
LEMMA QuietTaken ==
  ASSUME NEW s \in Seq(FrameType), NEW i, NEW d
  PROVE  /\ Quiet(s, Taken(s, i, d)) /\ (s # <<>> => Taken(s, i, d) # <<>>)
         /\ Len(Taken(s, i, d)) = Len(s)
<1> DEFINE n == Taken(s, i, d)
<1>1. Len(s) \in Nat /\ DOMAIN s = 1..Len(s) /\ \A j \in DOMAIN s : s[j] \in FrameType
  BY Stacked
<1>2. CASE i \notin DOMAIN s
  <2>1. n = s
    BY <1>1, <1>2, LenProperties DEF Taken
  <2> QED BY <2>1, QuietSame
<1>3. CASE i \in DOMAIN s
  <2> DEFINE f == [s[i] EXCEPT !.slots = @ \ {d}]
  <2>1. f \in FrameType /\ f.key = s[i].key /\ f.stage = s[i].stage
    BY <1>1, <1>3 DEF FrameType
  <2>2. n = [s EXCEPT ![i] = f]
    BY DEF Taken
  <2> HIDE DEF f, n
  <2>3. /\ n \in Seq(FrameType) /\ Len(n) = Len(s)
        /\ \A j \in 1..Len(s) : n[j] = IF j = i THEN f ELSE s[j]
    BY <1>1, <1>3, <2>1, <2>2, ExceptSeq
  <2>4. DOMAIN n = DOMAIN s
    BY <1>1, <2>3, LenProperties
  <2>5. ASSUME NEW j \in DOMAIN s PROVE n[j].key = s[j].key /\ n[j].stage = s[j].stage
    BY <1>1, <2>1, <2>3
  <2>6. ASSUME NEW k \in Counted PROVE EvalsAt(n, k) = EvalsAt(s, k)
    BY <2>4, <2>5 DEF EvalsAt
  <2>7. Quiet(s, n)
    BY <1>1, <1>3, EmptySeq, <2>3, <2>4, <2>5, <2>6 DEF Quiet
  <2>8. s # <<>> => n # <<>>
    BY <1>1, <2>3, EmptySeq
  <2> QED BY <2>3, <2>7, <2>8 DEF n
<1> QED BY <1>2, <1>3

(* The bottom of a stack is counted: it is not popped unseen. *)
LEMMA QuietGrounded ==
  ASSUME NEW s \in Seq(FrameType), NEW n, Quiet(s, n), Grounded(s)
  PROVE  Grounded(n) /\ (s # <<>> => n # <<>>)
<1>1. SUFFICES ASSUME s # <<>> PROVE n # <<>> /\ n[1].key \in Pkgs
  BY DEF Grounded, Quiet
<1>2. 1 \in DOMAIN s /\ s[1].key \in Pkgs
  BY <1>1, Stacked DEF Grounded
<1>3. 1 \in EvalsAt(n, s[1].key)
  BY <1>2 DEF Quiet, EvalsAt, Counted
<1>4. n \in Seq(FrameType) /\ 1 \in DOMAIN n /\ n[1].key = s[1].key
  BY <1>3 DEF Quiet, EvalsAt
<1> QED BY <1>2, <1>4, EmptySeq

(* What frames become: their keys stay, and they come out of a wait. *)
LEMMA Frames ==
  ASSUME NEW f \in FrameType
  PROVE  /\ Moved(f) \in FrameType /\ Moved(f).key = f.key /\ Moved(f).stage = "look"
         /\ [f EXCEPT !.failed = TRUE] \in FrameType
         /\ [f EXCEPT !.failed = TRUE].key = f.key /\ [f EXCEPT !.failed = TRUE].stage = f.stage
         /\ \A ok \in BOOLEAN : /\ Looked(f, ok) \in FrameType /\ Looked(f, ok).key = f.key
                                /\ Looked(f, ok).stage # "frozen"
         /\ [f EXCEPT !.stage = "waited"] \in FrameType
         /\ [f EXCEPT !.stage = "waited"].key = f.key /\ [f EXCEPT !.stage = "waited"].stage = "waited"
<1>1. Moved(f) \in FrameType /\ Moved(f).key = f.key /\ Moved(f).stage = "look"
  <2> DEFINE g == [f EXCEPT !.ip = @ + 1]
  <2>1. f.ip + 1 \in Nat \ {0}
    BY DEF FrameType
  <2>2. g \in FrameType /\ g.key = f.key
    BY <2>1 DEF FrameType
  <2>3. Moved(f) = [g EXCEPT !.stage = "look"]
    BY DEF Moved
  <2> HIDE DEF g
  <2> QED BY <2>2, <2>3 DEF FrameType, Stages
<1>2. /\ [f EXCEPT !.failed = TRUE] \in FrameType
      /\ [f EXCEPT !.failed = TRUE].key = f.key /\ [f EXCEPT !.failed = TRUE].stage = f.stage
  BY DEF FrameType
<1>3. ASSUME NEW ok \in BOOLEAN
      PROVE  Looked(f, ok) \in FrameType /\ Looked(f, ok).key = f.key /\ Looked(f, ok).stage # "frozen"
  BY DEF FrameType, Stages, Looked
<1>4. /\ [f EXCEPT !.stage = "waited"] \in FrameType
      /\ [f EXCEPT !.stage = "waited"].key = f.key /\ [f EXCEPT !.stage = "waited"].stage = "waited"
  BY DEF FrameType, Stages
<1> QED BY <1>1, <1>2, <1>3, <1>4

LEMMA QuietReturned ==
  ASSUME NEW s \in Seq(FrameType), NEW k, NEW ok \in BOOLEAN
  PROVE  Quiet(s, Returned(s, k, ok)) /\ (Returned(s, k, ok) = <<>> <=> s = <<>>)
<1>1. CASE s = <<>>
  <2>1. Returned(s, k, ok) = s
    BY <1>1 DEF Returned
  <2> QED BY <1>1, <2>1, QuietSame
<1>2. CASE s # <<>>
  <2> DEFINE f == Last(s)
  <2>1. f \in FrameType
    BY <1>2, Stacked
  <2>2. PICK g \in {Looked(f, ok), Moved(f), [f EXCEPT !.failed = TRUE]} :
          Returned(s, k, ok) = ReplaceTop(s, g)
    BY <1>2 DEF Returned
  <2>3. g \in FrameType /\ g.key = f.key /\ (g.stage = "frozen" => f.stage = "frozen")
    <3> HIDE DEF f
    <3>1. CASE g = Looked(f, ok)
      BY <2>1, <3>1, Frames
    <3>2. CASE g = Moved(f)
      BY <2>1, <3>2, Frames
    <3>3. CASE g = [f EXCEPT !.failed = TRUE]
      BY <2>1, <3>3, Frames
    <3> QED BY <2>2, <3>1, <3>2, <3>3
  <2> QED BY <1>2, <2>2, <2>3, QuietTop, Replaced
<1> QED BY <1>1, <1>2

-----------------------------------------------------------------------------
(* Where a thread cannot be inside a module that loads nothing. *)
NoLeaf(t) == \A i \in DOMAIN stack[t] : stack[t][i].key \notin Leaf

LEMMA RunningTop ==
  ASSUME Typed, NEW t \in Threads, mode[t] = "run"
  PROVE  /\ stack[t] \in Seq(FrameType) /\ stack[t] # <<>> /\ Top(t) \in FrameType
         /\ Len(stack[t]) \in DOMAIN stack[t] /\ stack[t][Len(stack[t])] = Top(t)
<1>1. stack[t] \in Seq(FrameType) /\ stack[t] # <<>>
  BY DEF Typed, ThreadTrue
<1> QED BY <1>1, Stacked DEF Top

LEMMA NoLeafWaiting ==
  ASSUME Typed, Modules, NEW t \in Threads, mode[t] # "run"
  PROVE  NoLeaf(t)
  BY DEF NoLeaf, Modules, LeavesInnermost

LEMMA NoLeafTop ==
  ASSUME Typed, Modules, NEW t \in Threads, mode[t] = "run", Top(t).key \notin Leaf
  PROVE  NoLeaf(t)
  BY RunningTop DEF NoLeaf, Modules, LeavesInnermost

LEMMA LeafTop ==
  ASSUME Typed, Modules, NEW t \in Threads, mode[t] = "run", Top(t).key \in Leaf
  PROVE  LeafTrue(Top(t), cached) /\ Past(Top(t)) /\ AtEnd(t)
<1>1. LeafTrue(Top(t), cached) /\ Top(t) \in FrameType
  BY RunningTop DEF Modules, LeavesInnermost
<1>2. Program[Top(t).key] = <<>> /\ Len(Program[Top(t).key]) = 0
  BY DEF Leaf
<1> QED BY <1>1, <1>2 DEF LeafTrue, Past, AtEnd, FrameType

LEMMA AtStep ==
  ASSUME Typed, Modules, NEW t \in Threads, NEW op, At(t, op)
  PROVE  /\ mode[t] = "run" /\ NoLeaf(t)
         /\ Step(t) \in Steps /\ Step(t).op = op
         /\ op = "load" => Step(t).key \in Pkgs \cup Bzls
         /\ op \in {"declare", "need"} => Step(t).key \in Decls
<1>1. mode[t] = "run" /\ ~Past(Top(t)) /\ Step(t).op = op
  BY DEF At, Running
<1>2. Top(t) \in FrameType
  BY <1>1, RunningTop
<1>3. Program \in [Keys -> Seq(Steps)]
  BY ProgramAssumption DEF Typed, Program
<1>4. Program[Top(t).key] \in Seq(Steps)
  BY <1>2, <1>3 DEF FrameType
<1>5. Step(t) \in Steps
  <2>1. Len(Program[Top(t).key]) \in Nat /\ Top(t).ip \in Nat \ {0}
    BY <1>2, <1>4, LenProperties DEF FrameType
  <2>2. Top(t).ip \in 1..Len(Program[Top(t).key])
    BY <1>1, <2>1 DEF Past
  <2> QED BY <1>4, <2>2, ElementOfSeq DEF Step, StepAt
<1>6. NoLeaf(t)
  BY <1>1, LeafTop, NoLeafTop
<1>7. op = "load" => Step(t).key \in Pkgs \cup Bzls
  BY <1>1, <1>5 DEF Steps
<1>8. op \in {"declare", "need"} => Step(t).key \in Decls
  BY <1>1, <1>5 DEF Steps
<1> QED BY <1>1, <1>5, <1>6, <1>7, <1>8

-----------------------------------------------------------------------------
(* A step of thread t, as the others see it: their stacks and what they    *)
(* want stay, and some may be woken.                                       *)
StepOf(t, n) ==
  /\ stack' = [stack EXCEPT ![t] = n] /\ n \in Seq(FrameType)
  /\ mode' \in [Threads -> Modes]
  /\ want' \in [Threads -> Keys \cup {None}] /\ waiting' \in [Threads -> Keys \cup {None}]
  /\ ThreadTrue(mode'[t], want'[t], waiting'[t], n)
  /\ \A u \in Threads \ {t} :
       /\ want'[u] = want[u] /\ waiting'[u] = waiting[u]
       /\ mode'[u] = mode[u] \/ (mode[u] = "parked" /\ mode'[u] = "acquire")
  /\ workspace' = workspace

ResType == [Keys -> {Absent, Done, Failed} \cup {InFlight(t) : t \in Threads}]
DataTyped ==
  /\ res' \in ResType /\ live' \in [Keys -> Nat] /\ cached' \in [Bzls -> Nat]
  /\ pending' \subseteq Decls /\ harvested' \subseteq Decls /\ results' \subseteq Decls

LEMMA TypedKept ==
  ASSUME Typed, NEW t \in Threads, NEW n, StepOf(t, n), Grounded(n), DataTyped
  PROVE  Typed'
<1>1. stack' \in [Threads -> Seq(FrameType)] /\ workspace' \in Workspaces
  BY DEF Typed, StepOf
<1>2. ASSUME NEW u \in Threads
      PROVE  ThreadTrue(mode'[u], want'[u], waiting'[u], stack'[u]) /\ Grounded(stack'[u])
  <2>1. CASE u = t
    <3>1. stack'[u] = n
      BY <2>1 DEF Typed, StepOf
    <3> QED BY <2>1, <3>1 DEF StepOf
  <2>2. CASE u # t
    <3>1. stack'[u] = stack[u]
      BY <2>2 DEF Typed, StepOf
    <3>2. /\ want'[u] = want[u] /\ waiting'[u] = waiting[u]
          /\ mode'[u] = mode[u] \/ (mode[u] = "parked" /\ mode'[u] = "acquire")
      BY <2>2 DEF StepOf
    <3>3. ThreadTrue(mode[u], want[u], waiting[u], stack[u]) /\ Grounded(stack[u])
      BY DEF Typed
    <3> QED BY <3>1, <3>2, <3>3 DEF ThreadTrue
  <2> QED BY <2>1, <2>2
<1>3. TypeOK'
  <2>1. ASSUME NEW u \in Threads
        PROVE  /\ mode'[u] = "run" => stack'[u] # <<>>
               /\ mode'[u] \in {"idle", "ok", "err", "done"} => stack'[u] = <<>>
    BY <1>2 DEF ThreadTrue
  <2> QED BY <2>1 DEF TypeOK, DataTyped, StepOf, ResType, Modes
<1> QED BY <1>1, <1>2, <1>3 DEF Typed, StepOf

(* The other threads' evaluations after a step of t. *)
LEMMA StackOf ==
  ASSUME Typed, NEW t \in Threads, NEW n, stack' = [stack EXCEPT ![t] = n]
  PROVE  stack'[t] = n /\ \A u \in Threads \ {t} : stack'[u] = stack[u]
  BY DEF Typed

LEMMA EvaluationAt ==
  ASSUME NEW k
  PROVE  \A t, i : <<t, i>> \in Evaluations(k) <=> t \in Threads /\ i \in EvalsAt(stack[t], k)
  BY DEF Evaluations

LEMMA Constants ==
  ASSUME workspace' = workspace
  PROVE  Program' = Program /\ Timeouts' = Timeouts /\ Leaf' = Leaf /\ Counted' = Counted
  BY DEF Program, Timeouts, Leaf, Counted

-----------------------------------------------------------------------------
(* The books of a key that a step of t does not touch. *)
LEMMA BookKept ==
  ASSUME Typed, Books, NEW t \in Threads, NEW n, StepOf(t, n), NEW k \in Counted,
         EvalsAt(n, k) = EvalsAt(stack[t], k), live'[k] = live[k], res'[k] = res[k]
  PROVE  BookTrue(k)'
<1>1. Timeouts' = Timeouts
  BY Constants DEF StepOf
<1>2. stack'[t] = n /\ \A u \in Threads \ {t} : stack'[u] = stack[u]
  BY StackOf DEF StepOf
<1>3. \A u \in Threads : EvalsAt(stack'[u], k) = EvalsAt(stack[u], k)
  BY <1>2
<1>4. Evaluations(k)' = Evaluations(k)
  BY <1>3 DEF Evaluations
<1>5. SoleOwner(k) => SoleOwner(k)'
  BY <1>4 DEF SoleOwner, Owned, InFlight
<1>6. BookTrue(k)
  BY DEF Books
<1> QED BY <1>1, <1>4, <1>5, <1>6 DEF BookTrue, Absent

LEMMA QuietBooks ==
  ASSUME Typed, Books, NEW t \in Threads, NEW n, StepOf(t, n), Quiet(stack[t], n),
         live' = live, \A k \in Pkgs \cup Bzls : res'[k] = res[k]
  PROVE  Books'
<1>1. Counted \subseteq Pkgs \cup Bzls /\ Counted' = Counted
  BY Constants DEF StepOf, Counted, Leaf
<1>2. ASSUME NEW k \in Counted PROVE BookTrue(k)'
  <2>1. EvalsAt(n, k) = EvalsAt(stack[t], k) /\ live'[k] = live[k] /\ res'[k] = res[k]
    BY <1>1 DEF Quiet
  <2> QED BY <2>1, BookKept
<1> QED BY <1>1, <1>2 DEF Books

(* No module on t's stack is a leaf, before and after. *)
LEMMA QuietModules ==
  ASSUME Typed, Modules, NEW t \in Threads, NEW n, StepOf(t, n), Quiet(stack[t], n), NoLeaf(t),
         cached' = cached, \A k \in Pkgs \cup Bzls : res'[k] = res[k]
  PROVE  Modules'
<1>1. stack'[t] = n /\ \A u \in Threads \ {t} : stack'[u] = stack[u]
  BY StackOf DEF StepOf
<1>2. Leaf' = Leaf /\ Leaf \subseteq Bzls /\ Leaf \subseteq Counted
  BY Constants DEF StepOf, Counted, Leaf
<1>3. DoneIsCached' /\ CachedOnce'
  BY <1>2 DEF Modules, DoneIsCached, CachedOnce, Done, Absent
<1>4. FrozenIsCached'
  <2> SUFFICES ASSUME NEW u \in Threads, NEW i \in DOMAIN stack'[u],
                      stack'[u][i].key \in Bzls, stack'[u][i].stage = "frozen"
               PROVE  cached'[stack'[u][i].key] > 0
    BY DEF FrozenIsCached
  <2>1. PICK j \in DOMAIN stack[u] :
          stack[u][j].key = stack'[u][i].key /\ stack[u][j].stage = "frozen"
    BY <1>1 DEF Quiet
  <2> QED BY <2>1 DEF Modules, FrozenIsCached
<1>5. LeavesInnermost'
  <2> SUFFICES ASSUME NEW u \in Threads, NEW i \in DOMAIN stack'[u], stack'[u][i].key \in Leaf
               PROVE  i = Len(stack'[u]) /\ mode'[u] = "run" /\ LeafTrue(stack'[u][i], cached')
    BY <1>2 DEF LeavesInnermost
  <2>1. u # t
    <3> SUFFICES ASSUME u = t PROVE FALSE
      OBVIOUS
    <3>1. i \in EvalsAt(n, n[i].key) /\ n[i].key \in Counted /\ n[i].key \in Leaf
      BY <1>1, <1>2 DEF EvalsAt
    <3>2. i \in EvalsAt(stack[t], n[i].key)
      BY <3>1 DEF Quiet
    <3> QED BY <3>1, <3>2 DEF NoLeaf, EvalsAt
  <2>2. stack'[u] = stack[u] /\ i = Len(stack[u]) /\ mode[u] = "run" /\ LeafTrue(stack[u][i], cached)
    BY <1>1, <2>1 DEF Modules, LeavesInnermost
  <2>3. mode'[u] = "run"
    BY <2>1, <2>2 DEF StepOf
  <2> QED BY <2>2, <2>3 DEF LeafTrue
<1> QED BY <1>3, <1>4, <1>5 DEF Modules

(* A step of t that touches neither claims nor modules. *)
LEMMA QuietStep ==
  ASSUME WaitInv, NEW t \in Threads, NEW n, StepOf(t, n), Quiet(stack[t], n), NoLeaf(t),
         UNCHANGED <<res, live, cached>>, DriverTrue',
         pending' \subseteq Decls, harvested' \subseteq Decls, results' \subseteq Decls
  PROVE  WaitInv'
<1>1. DataTyped
  BY DEF DataTyped, ResType, WaitInv, Typed, TypeOK
<1>2. Grounded(n) /\ Typed
  BY QuietGrounded DEF WaitInv, Typed
<1>4. Typed' /\ Books' /\ Modules'
  BY <1>1, <1>2, TypedKept, QuietBooks, QuietModules DEF WaitInv
<1>3. NoProxyLeak'
  BY DEF WaitInv, NoProxyLeak, Owned
<1> QED BY <1>3, <1>4 DEF WaitInv

-----------------------------------------------------------------------------
(* The steps of a thread that change nothing but its own stack and mode. *)
LEMMA DriverKept ==
  ASSUME DriverTrue, NEW t \in Threads, NEW n, StepOf(t, n), mode[t] \notin {"idle", "done"},
         UNCHANGED driver
  PROVE  DriverTrue'
<1>1. ASSUME NEW u \in Threads PROVE Driving(mode'[u], entry[u])
  <2>1. CASE u = t
    BY <2>1 DEF DriverTrue, Driving
  <2>2. CASE u # t
    BY <2>2 DEF DriverTrue, Driving, StepOf
  <2> QED BY <2>1, <2>2
<1> QED BY <1>1 DEF DriverTrue, driver

LEMMA SameStack ==
  ASSUME Typed, NEW t \in Threads, stack' = stack
  PROVE  /\ stack[t] \in Seq(FrameType) /\ Quiet(stack[t], stack[t])
         /\ stack' = [stack EXCEPT ![t] = stack[t]]
<1>1. stack[t] \in Seq(FrameType)
  BY DEF Typed
<1>2. stack' = [stack EXCEPT ![t] = stack[t]]
  BY DEF Typed
<1> QED BY <1>1, <1>2, QuietSame

(* A thread that runs on, and one that goes to wait for k. *)
LEMMA RunsOn ==
  ASSUME Typed, NEW t \in Threads, mode[t] = "run", NEW n \in Seq(FrameType), n # <<>>,
         stack' = [stack EXCEPT ![t] = n], UNCHANGED <<mode, waiting, workspace>>,
         want' = want \/ want' = [want EXCEPT ![t] = None]
  PROVE  StepOf(t, n)
<1>1. mode' \in [Threads -> Modes] /\ waiting' \in [Threads -> Keys \cup {None}]
  BY DEF Typed, TypeOK, Modes
<1>2. /\ want' \in [Threads -> Keys \cup {None}]
      /\ \A u \in Threads \ {t} : want'[u] = want[u]
  BY DEF Typed
<1>3. ThreadTrue(mode'[t], want'[t], waiting'[t], n)
  BY DEF Typed, ThreadTrue
<1> QED BY <1>1, <1>2, <1>3 DEF StepOf

LEMMA RunsToWait ==
  ASSUME Typed, NEW t \in Threads, mode[t] = "run", NEW n \in Seq(FrameType), n # <<>>,
         stack' = [stack EXCEPT ![t] = n], UNCHANGED <<waiting, workspace>>,
         NEW m \in {"acquire", "precheck"}, NEW k \in Keys, m = "precheck" => k \in Decls,
         mode' = [mode EXCEPT ![t] = m], want' = [want EXCEPT ![t] = k]
  PROVE  StepOf(t, n)
<1>1. mode' \in [Threads -> Modes] /\ waiting' \in [Threads -> Keys \cup {None}]
  BY DEF Typed, TypeOK, Modes
<1>2. want' \in [Threads -> Keys \cup {None}] /\ want'[t] = k /\ mode'[t] = m
  BY DEF Typed, TypeOK
<1>3. \A u \in Threads \ {t} : want'[u] = want[u] /\ mode'[u] = mode[u]
  BY DEF Typed, TypeOK
<1>4. waiting[t] = None
  BY DEF Typed, ThreadTrue
<1>5. ThreadTrue(mode'[t], want'[t], waiting'[t], n)
  BY <1>2, <1>4 DEF ThreadTrue
<1> QED BY <1>1, <1>2, <1>3, <1>5 DEF StepOf

LEMMA NotCounted == \A d \in Decls : d \notin Counted /\ d \notin Pkgs \cup Bzls /\ d \in Keys
  BY ProgramAssumption DEF Counted, Leaf, Keys

LEMMA NewFrame ==
  ASSUME NEW k \in Keys, NEW drive \in BOOLEAN
  PROVE  Frame(k, drive) \in FrameType /\ Frame(k, drive).key = k /\ Frame(k, drive).stage = "look"
         /\ Frame(k, drive).slots = {} /\ Frame(k, drive).drive = drive /\ ~Frame(k, drive).failed
  BY DEF Frame, FrameType, Stages

(* The running evaluation fails, or moves on. *)
LEMMA TopChanges ==
  ASSUME Typed, NEW t \in Threads, mode[t] = "run", Fails(t) \/ MovesOn(t)
  PROVE  \E n \in Seq(FrameType) :
           n # <<>> /\ stack' = [stack EXCEPT ![t] = n] /\ Quiet(stack[t], n)
<1>1. stack[t] \in Seq(FrameType) /\ stack[t] # <<>> /\ Last(stack[t]) \in FrameType
  BY RunningTop DEF Top
<1>2. CASE Fails(t)
  <2> DEFINE f == [Last(stack[t]) EXCEPT !.failed = TRUE]
  <2>1. f \in FrameType /\ f.key = Last(stack[t]).key /\ f.stage = Last(stack[t]).stage
    BY <1>1, Frames
  <2>2. stack' = [stack EXCEPT ![t] = ReplaceTop(stack[t], f)]
    BY <1>2 DEF Fails
  <2> HIDE DEF f
  <2>3. Quiet(stack[t], ReplaceTop(stack[t], f))
    BY <1>1, <2>1, QuietTop
  <2>4. ReplaceTop(stack[t], f) \in Seq(FrameType) /\ ReplaceTop(stack[t], f) # <<>>
    BY <1>1, <2>1, Replaced
  <2> QED BY <2>2, <2>3, <2>4
<1>3. CASE MovesOn(t)
  <2> DEFINE f == Moved(Last(stack[t]))
  <2>1. f \in FrameType /\ f.key = Last(stack[t]).key /\ f.stage # "frozen"
    BY <1>1, Frames
  <2>2. stack' = [stack EXCEPT ![t] = ReplaceTop(stack[t], f)]
    BY <1>3 DEF MovesOn
  <2> HIDE DEF f
  <2>3. Quiet(stack[t], ReplaceTop(stack[t], f))
    BY <1>1, <2>1, QuietTop
  <2>4. ReplaceTop(stack[t], f) \in Seq(FrameType) /\ ReplaceTop(stack[t], f) # <<>>
    BY <1>1, <2>1, Replaced
  <2> QED BY <2>2, <2>3, <2>4
<1> QED BY <1>2, <1>3

LEMMA AnalyzeDecl ==
  ASSUME Typed, NEW t \in Threads, mode[t] = "run", NEW d \in Decls, analyze_decl(t, d)
  PROVE  /\ \E n \in Seq(FrameType) :
              n # <<>> /\ stack' = [stack EXCEPT ![t] = n] /\ Quiet(stack[t], n)
         /\ pending' \subseteq Decls
<1> DEFINE s == stack[t]
           m == Taken(s, StoreAt(t), d)
<1>1. s \in Seq(FrameType) /\ s # <<>>
  BY RunningTop
<1>2. m \in Seq(FrameType) /\ m # <<>> /\ Quiet(s, m)
  BY <1>1, QuietTaken DEF Quiet
<1>3. CASE d \in Analyzing(t)
  <2> DEFINE f == [Last(m) EXCEPT !.failed = TRUE]
  <2>1. stack' = [stack EXCEPT ![t] = ReplaceTop(m, f)] /\ pending' = pending
    BY <1>3 DEF analyze_decl, Taken
  <2> HIDE DEF s, m
  <2>2. f \in FrameType /\ f.key = Last(m).key /\ f.stage = Last(m).stage
    BY <1>2, Stacked, Frames
  <2> HIDE DEF f
  <2>3. Quiet(m, ReplaceTop(m, f)) /\ ReplaceTop(m, f) \in Seq(FrameType) /\ ReplaceTop(m, f) # <<>>
    BY <1>2, <2>2, QuietTop, Replaced
  <2>4. Quiet(s, ReplaceTop(m, f))
    BY <1>2, <2>3, QuietThen
  <2> QED BY <2>1, <2>3, <2>4 DEF Typed, TypeOK, s
<1>4. CASE d \notin Analyzing(t)
  <2> DEFINE f == Frame(d, FALSE)
  <2>1. stack' = [stack EXCEPT ![t] = Append(m, f)] /\ pending' = pending \ {d}
    BY <1>4 DEF analyze_decl, Taken
  <2>2. f \in FrameType /\ f.key \notin Counted /\ f.stage = "look"
    BY NewFrame, NotCounted
  <2> HIDE DEF s, m, f
  <2>3. Quiet(m, Append(m, f)) /\ Append(m, f) \in Seq(FrameType) /\ Append(m, f) # <<>>
    BY <1>2, <2>2, QuietPush, Pushed
  <2>4. Quiet(s, Append(m, f))
    BY <1>2, <2>3, QuietThen
  <2> QED BY <2>1, <2>3, <2>4 DEF Typed, TypeOK, s
<1> QED BY <1>3, <1>4

-----------------------------------------------------------------------------
(* The actions, one by one: first those that neither claim nor release.    *)
LEMMA WorkStep ==
  ASSUME WaitInv, NEW t \in Threads, NEW n, StepOf(t, n), Quiet(stack[t], n), NoLeaf(t),
         mode[t] \notin {"idle", "done"}, UNCHANGED <<res, live, cached>>, UNCHANGED driver,
         pending' \subseteq Decls, harvested' \subseteq Decls, results' \subseteq Decls
  PROVE  WaitInv'
<1>1. DriverTrue'
  BY DriverKept DEF WaitInv
<1> QED BY <1>1, QuietStep

LEMMA SessionTyped ==
  ASSUME WaitInv
  PROVE  pending \subseteq Decls /\ harvested \subseteq Decls /\ results \subseteq Decls
  BY DEF WaitInv, Typed, TypeOK

LEMMA NextEntryKeeps ==
  ASSUME WaitInv, NEW t \in Threads, NextEntry(t)
  PROVE  WaitInv'
<1>0. Typed /\ Modules /\ mode[t] = "idle" /\ stack' = stack /\ workspace' = workspace
  BY DEF WaitInv, NextEntry, hist
<1>1. NoLeaf(t) /\ stack[t] = <<>> /\ waiting[t] = None
  BY <1>0, NoLeafWaiting DEF Typed, ThreadTrue
<1>2. UNCHANGED <<res, live, cached, waiting, pending, harvested, results, still, round>>
  BY DEF NextEntry, graph, session
<1>3. CASE next <= Len(Entries)
  <2>1. /\ mode' = [mode EXCEPT ![t] = "acquire"] /\ want' = [want EXCEPT ![t] = Entries[next]]
        /\ entry' = [entry EXCEPT ![t] = next] /\ next' = next + 1
    BY <1>3 DEF NextEntry, Acquire
  <2>2. next \in DOMAIN Entries /\ Entries[next] \in Pkgs /\ Entries[next] \in Keys /\ next \in Nat \ {0}
    <3>1. Len(Entries) \in Nat /\ DOMAIN Entries = 1..Len(Entries)
      BY ProgramAssumption, LenProperties
    <3>2. next \in DOMAIN Entries
      BY <1>3, <3>1 DEF WaitInv, DriverTrue
    <3>3. Entries[next] \in Pkgs
      BY <3>1, <3>2, ElementOfSeq, ProgramAssumption
    <3> QED BY <3>2, <3>3 DEF Keys, WaitInv, DriverTrue
  <2>3. StepOf(t, stack[t])
    <3>1. stack[t] \in Seq(FrameType) /\ stack' = [stack EXCEPT ![t] = stack[t]]
      BY <1>0, SameStack
    <3>2. mode' \in [Threads -> Modes] /\ mode'[t] = "acquire"
      BY <1>0, <2>1 DEF Typed, TypeOK, Modes
    <3>3. want' \in [Threads -> Keys \cup {None}] /\ want'[t] = Entries[next]
      BY <1>0, <2>1, <2>2 DEF Typed
    <3>4. waiting' \in [Threads -> Keys \cup {None}] /\ waiting'[t] = None
      BY <1>0, <1>1, <1>2 DEF Typed, TypeOK
    <3>5. \A u \in Threads \ {t} : want'[u] = want[u] /\ waiting'[u] = waiting[u] /\ mode'[u] = mode[u]
      BY <1>0, <1>2, <2>1 DEF Typed, TypeOK
    <3>6. ThreadTrue(mode'[t], want'[t], waiting'[t], stack[t])
      BY <2>2, <3>2, <3>3, <3>4 DEF ThreadTrue
    <3> QED BY <1>0, <3>1, <3>2, <3>3, <3>4, <3>5, <3>6 DEF StepOf
  <2>4. DriverTrue'
    <3>1. next' \in Nat \ {0} /\ entry' \in [Threads -> Nat] /\ entry'[t] = next
      BY <2>1, <2>2 DEF WaitInv, DriverTrue
    <3>2. ASSUME NEW u \in Threads PROVE Driving(mode'[u], entry'[u])
      <4>1. CASE u = t
        BY <2>2, <3>1, <4>1 DEF Driving
      <4>2. CASE u # t
        BY <1>0, <2>1, <4>2 DEF Driving, WaitInv, DriverTrue, Typed, TypeOK
      <4> QED BY <4>1, <4>2
    <3> QED BY <1>2, <3>1, <3>2 DEF DriverTrue, WaitInv
  <2> QED BY <1>0, <1>1, <1>2, <2>3, <2>4, SameStack, SessionTyped, QuietStep
<1>4. CASE ~(next <= Len(Entries))
  <2>1. mode' = [mode EXCEPT ![t] = "done"] /\ UNCHANGED <<want, entry, next>>
    BY <1>4 DEF NextEntry
  <2>3. StepOf(t, stack[t])
    <3>1. stack[t] \in Seq(FrameType) /\ stack' = [stack EXCEPT ![t] = stack[t]]
      BY <1>0, SameStack
    <3>2. mode' \in [Threads -> Modes] /\ mode'[t] = "done"
      BY <1>0, <2>1 DEF Typed, TypeOK, Modes
    <3>4. want' \in [Threads -> Keys \cup {None}] /\ waiting' \in [Threads -> Keys \cup {None}]
      BY <1>0, <1>2, <2>1 DEF Typed, TypeOK
    <3>5. \A u \in Threads \ {t} : want'[u] = want[u] /\ waiting'[u] = waiting[u] /\ mode'[u] = mode[u]
      BY <1>0, <1>2, <2>1 DEF Typed, TypeOK
    <3>6. ThreadTrue(mode'[t], want'[t], waiting'[t], stack[t])
      BY <1>1, <1>2, <3>2 DEF ThreadTrue
    <3> QED BY <1>0, <3>1, <3>2, <3>4, <3>5, <3>6 DEF StepOf
  <2>4. DriverTrue'
    <3>2. ASSUME NEW u \in Threads PROVE Driving(mode'[u], entry'[u])
      BY <1>0, <2>1 DEF Driving, WaitInv, DriverTrue, Typed, TypeOK
    <3> QED BY <1>2, <2>1, <3>2 DEF DriverTrue, WaitInv
  <2> QED BY <1>0, <1>1, <1>2, <2>3, <2>4, SameStack, SessionTyped, QuietStep
<1> QED BY <1>3, <1>4

(* The end of an entry, in the pool or in a restart round. *)
LEMMA EntryEnds ==
  ASSUME WaitInv, NEW t \in Threads, mode[t] \in {"ok", "err"},
         UNCHANGED <<graph, session, stack, want, entry, next, round, workspace>>,
         mode' = [mode EXCEPT ![t] = "idle"], still' \in {still, still \cup {entry[t]}}
  PROVE  WaitInv'
<1>0. Typed /\ Modules
  BY DEF WaitInv
<1>1. NoLeaf(t) /\ stack[t] = <<>> /\ waiting[t] = None
  BY <1>0, NoLeafWaiting DEF Typed, ThreadTrue
<1>2. UNCHANGED <<res, live, cached, waiting, pending, harvested, results>>
  BY DEF graph, session
<1>3. StepOf(t, stack[t])
  <2>1. stack[t] \in Seq(FrameType) /\ stack' = [stack EXCEPT ![t] = stack[t]]
    BY <1>0, SameStack
  <2>2. mode' \in [Threads -> Modes] /\ mode'[t] = "idle"
    BY <1>0 DEF Typed, TypeOK, Modes
  <2>3. want' \in [Threads -> Keys \cup {None}] /\ waiting' \in [Threads -> Keys \cup {None}]
    BY <1>0, <1>2 DEF Typed, TypeOK
  <2>4. \A u \in Threads \ {t} : want'[u] = want[u] /\ waiting'[u] = waiting[u] /\ mode'[u] = mode[u]
    BY <1>0, <1>2 DEF Typed, TypeOK
  <2>5. ThreadTrue(mode'[t], want'[t], waiting'[t], stack[t])
    BY <1>1, <1>2, <2>2 DEF ThreadTrue
  <2> QED BY <2>1, <2>2, <2>3, <2>4, <2>5 DEF StepOf
<1>4. DriverTrue'
  <2>1. ASSUME NEW u \in Threads PROVE Driving(mode'[u], entry'[u])
    BY <1>0 DEF Driving, WaitInv, DriverTrue, Typed, TypeOK
  <2>2. entry[t] \in DOMAIN Entries
    BY DEF WaitInv, DriverTrue, Driving
  <2>3. still' \subseteq DOMAIN Entries
    BY <2>2 DEF WaitInv, DriverTrue
  <2> QED BY <2>1, <2>3 DEF DriverTrue, WaitInv
<1> QED BY <1>0, <1>1, <1>2, <1>3, <1>4, SameStack, SessionTyped, QuietStep

LEMMA EntryDoneKeeps ==
  ASSUME WaitInv, NEW t \in Threads, EntryDone(t) \/ (t = Main /\ RestartDone)
  PROVE  WaitInv'
<1>1. CASE EntryDone(t)
  BY <1>1, EntryEnds DEF EntryDone, hist
<1>2. CASE t = Main /\ RestartDone
  BY <1>2, EntryEnds DEF RestartDone, hist
<1> QED BY <1>1, <1>2

LEMMA StepIs ==
  ASSUME Typed, NEW t \in Threads, NEW n \in Seq(FrameType), stack' = [stack EXCEPT ![t] = n],
         NEW m \in Modes, mode' = [mode EXCEPT ![t] = m],
         NEW w \in Keys \cup {None}, want' = [want EXCEPT ![t] = w],
         NEW e \in Keys \cup {None}, waiting' = [waiting EXCEPT ![t] = e],
         ThreadTrue(m, w, e, n), workspace' = workspace
  PROVE  StepOf(t, n)
<1>1. mode' \in [Threads -> Modes] /\ mode'[t] = m
  BY DEF Typed, TypeOK, Modes
<1>2. want' \in [Threads -> Keys \cup {None}] /\ want'[t] = w
  BY DEF Typed
<1>3. waiting' \in [Threads -> Keys \cup {None}] /\ waiting'[t] = e
  BY DEF Typed, TypeOK
<1>4. \A u \in Threads \ {t} : want'[u] = want[u] /\ waiting'[u] = waiting[u] /\ mode'[u] = mode[u]
  BY DEF Typed, TypeOK
<1> QED BY <1>1, <1>2, <1>3, <1>4 DEF StepOf

LEMMA RestartKeeps ==
  ASSUME WaitInv, Restart
  PROVE  WaitInv'
<1> DEFINE t == Main
<1>0. /\ Typed /\ Modules /\ t \in Threads /\ mode[t] = "idle" /\ stack' = stack
      /\ workspace' = workspace
  BY DEF WaitInv, Restart, hist, Threads
<1>1. NoLeaf(t) /\ stack[t] = <<>> /\ waiting[t] = None
  BY <1>0, NoLeafWaiting DEF Typed, ThreadTrue
<1>2. UNCHANGED <<res, live, cached, waiting, pending, harvested, results, next>>
  BY DEF Restart, graph, session
<1>3. waiting' = [waiting EXCEPT ![t] = None] /\ want[t] \in Keys \cup {None}
  BY <1>0, <1>1, <1>2 DEF Typed, TypeOK
<1>4. stack[t] \in Seq(FrameType) /\ stack' = [stack EXCEPT ![t] = stack[t]]
  BY <1>0, SameStack
<1> SUFFICES StepOf(t, stack[t]) /\ DriverTrue'
  BY <1>0, <1>1, <1>2, SameStack, SessionTyped, QuietStep
<1>5. ASSUME NEW i \in round, Acquire(t, Entries[i]), entry' = [entry EXCEPT ![t] = i],
             round' = round \ {i}, UNCHANGED <<still, progressed>>
      PROVE  StepOf(t, stack[t]) /\ DriverTrue'
  <2>1. i \in DOMAIN Entries /\ i \in Nat /\ Entries[i] \in Pkgs
    <3>1. i \in DOMAIN Entries /\ DOMAIN Entries = 1..Len(Entries) /\ Len(Entries) \in Nat
      BY LenProperties, ProgramAssumption DEF WaitInv, DriverTrue
    <3> QED BY <3>1, ElementOfSeq, ProgramAssumption
  <2>2. StepOf(t, stack[t])
    <3>1. ThreadTrue("acquire", Entries[i], None, stack[t]) /\ "acquire" \in Modes
      BY <1>1, <2>1 DEF ThreadTrue, Keys, Modes
    <3> HIDE DEF t
    <3> QED BY <1>0, <1>3, <1>4, <1>5, <2>1, <3>1, StepIs DEF Acquire, Keys
  <2>3. DriverTrue'
    <3>1. entry' \in [Threads -> Nat] /\ entry'[t] = i /\ \A u \in Threads \ {t} : entry'[u] = entry[u]
      BY <1>0, <1>5, <2>1 DEF WaitInv, DriverTrue
    <3>2. ASSUME NEW u \in Threads PROVE Driving(mode'[u], entry'[u])
      <4>1. CASE u = t
        BY <2>1, <3>1, <4>1 DEF Driving
      <4>2. CASE u # t
        BY <1>0, <1>5, <3>1, <4>2 DEF Driving, WaitInv, DriverTrue, Typed, TypeOK, Acquire
      <4> QED BY <4>1, <4>2
    <3> QED BY <1>2, <1>5, <3>1, <3>2 DEF DriverTrue, WaitInv
  <2> QED BY <2>2, <2>3
<1>6. ASSUME round' = still, still' = {}, UNCHANGED <<mode, want, entry>>
      PROVE  StepOf(t, stack[t]) /\ DriverTrue'
  <2>1. mode' = [mode EXCEPT ![t] = "idle"] /\ want' = [want EXCEPT ![t] = want[t]]
    BY <1>0, <1>6 DEF Typed, TypeOK
  <2>2. ThreadTrue("idle", want[t], None, stack[t]) /\ "idle" \in Modes
    BY <1>1 DEF ThreadTrue, Modes
  <2>3. StepOf(t, stack[t])
    <3> HIDE DEF t
    <3> QED BY <1>0, <1>3, <1>4, <2>1, <2>2, StepIs
  <2> QED BY <1>2, <1>6, <2>3 DEF DriverTrue, WaitInv
<1>7. ASSUME mode' = [mode EXCEPT ![t] = "done"], UNCHANGED <<want, entry, round, still, progressed>>
      PROVE  StepOf(t, stack[t]) /\ DriverTrue'
  <2>1. want' = [want EXCEPT ![t] = want[t]]
    BY <1>0, <1>7 DEF Typed
  <2>2. ThreadTrue("done", want[t], None, stack[t]) /\ "done" \in Modes
    BY <1>1 DEF ThreadTrue, Modes
  <2>3. StepOf(t, stack[t])
    <3> HIDE DEF t
    <3> QED BY <1>0, <1>3, <1>4, <1>7, <2>1, <2>2, StepIs
  <2>4. \A u \in Threads : Driving(mode'[u], entry'[u])
    BY <1>0, <1>7 DEF Driving, WaitInv, DriverTrue, Typed, TypeOK
  <2> QED BY <1>2, <1>7, <2>3, <2>4 DEF DriverTrue, WaitInv
<1> QED BY <1>5, <1>6, <1>7 DEF Restart

(* What a running thread does between two waits. *)
LEMMA RunStep ==
  ASSUME WaitInv, NEW t \in Threads, mode[t] = "run", NoLeaf(t),
         NEW n \in Seq(FrameType), n # <<>>, stack' = [stack EXCEPT ![t] = n], Quiet(stack[t], n),
         UNCHANGED <<mode, waiting, workspace, res, live, cached>>, UNCHANGED driver,
         want' = want \/ want' = [want EXCEPT ![t] = None],
         pending' \subseteq Decls, harvested' \subseteq Decls, results' \subseteq Decls
  PROVE  WaitInv'
<1>1. Typed
  BY DEF WaitInv
<1>2. StepOf(t, n)
  BY <1>1, RunsOn
<1> QED BY <1>2, WorkStep

(* ... and how it comes to wait for k. *)
LEMMA WaitStep ==
  ASSUME WaitInv, NEW t \in Threads, mode[t] = "run", NoLeaf(t),
         NEW n \in Seq(FrameType), n # <<>>, stack' = [stack EXCEPT ![t] = n], Quiet(stack[t], n),
         UNCHANGED <<waiting, workspace, res, live, cached, pending, harvested, results>>,
         UNCHANGED driver,
         NEW m \in {"acquire", "precheck"}, NEW k \in Keys, m = "precheck" => k \in Decls,
         mode' = [mode EXCEPT ![t] = m], want' = [want EXCEPT ![t] = k]
  PROVE  WaitInv'
<1>1. Typed
  BY DEF WaitInv
<1>2. StepOf(t, n)
  BY <1>1, RunsToWait
<1> QED BY <1>2, SessionTyped, WorkStep

LEMMA LoadKeeps ==
  ASSUME WaitInv, NEW t \in Threads, LoadStep(t)
  PROVE  WaitInv'
<1> DEFINE k == Step(t).key
<1>1. Typed /\ Modules /\ mode[t] = "run" /\ NoLeaf(t) /\ k \in Keys
  BY AtStep DEF WaitInv, LoadStep, Keys
<1>2. stack[t] \in Seq(FrameType) /\ stack[t] # <<>>
  BY <1>1, RunningTop
<1>3. UNCHANGED <<waiting, workspace, res, live, cached, pending, harvested, results>> /\ UNCHANGED driver
  BY DEF LoadStep, graph, session, hist
<1>4. CASE k \in Bzls /\ cached[k] > 0
  <2> DEFINE n == Returned(stack[t], k, TRUE)
  <2>1. stack' = [stack EXCEPT ![t] = n] /\ UNCHANGED <<mode, want>>
    BY <1>4 DEF LoadStep
  <2>2. Quiet(stack[t], n) /\ n # <<>>
    BY <1>2, QuietReturned
  <2>3. n \in Seq(FrameType)
    BY <2>2 DEF Quiet
  <2> HIDE DEF n, k
  <2> QED BY <1>1, <1>3, <2>1, <2>2, <2>3, SessionTyped, RunStep
<1>5. CASE ~(k \in Bzls /\ cached[k] > 0)
  <2>1. stack' = stack /\ mode' = [mode EXCEPT ![t] = "acquire"] /\ want' = [want EXCEPT ![t] = k]
    BY <1>5 DEF LoadStep, Acquire
  <2>2. stack' = [stack EXCEPT ![t] = stack[t]] /\ Quiet(stack[t], stack[t])
    BY <1>1, <2>1, SameStack
  <2> HIDE DEF k
  <2> QED BY <1>1, <1>2, <1>3, <2>1, <2>2, WaitStep
<1> QED BY <1>4, <1>5

LEMMA DeclareKeeps ==
  ASSUME WaitInv, NEW t \in Threads, DeclareStep(t)
  PROVE  WaitInv'
<1> DEFINE d == Step(t).key
<1>1. Typed /\ Modules /\ mode[t] = "run" /\ NoLeaf(t) /\ d \in Decls
  BY AtStep DEF WaitInv, DeclareStep
<1>2. stack[t] \in Seq(FrameType) /\ stack[t] # <<>> /\ Top(t) \in FrameType
  BY <1>1, RunningTop
<1>3. /\ UNCHANGED <<mode, want, waiting, workspace, res, live, cached, harvested, results>>
      /\ UNCHANGED driver
  BY DEF DeclareStep, graph, session, hist
<1> DEFINE g == [Top(t) EXCEPT !.slots = @ \cup {d}]
           n == ReplaceTop(stack[t], Moved(g))
<1>4. stack' = [stack EXCEPT ![t] = n] /\ pending' = pending \cup {d}
  BY DEF DeclareStep
<1>5. g \in FrameType /\ g.key = Top(t).key
  BY <1>1, <1>2 DEF FrameType
<1> HIDE DEF g
<1>6. Moved(g) \in FrameType /\ Moved(g).key = Top(t).key /\ Moved(g).stage # "frozen"
  BY <1>5, Frames
<1>7. Quiet(stack[t], n) /\ n \in Seq(FrameType) /\ n # <<>>
  BY <1>2, <1>6, QuietTop, Replaced DEF Top
<1>8. pending' \subseteq Decls
  BY <1>1, <1>4, SessionTyped
<1> HIDE DEF n, d
<1> QED BY <1>1, <1>3, <1>4, <1>7, <1>8, SessionTyped, RunStep

(* A running thread whose top changes, or that starts to analyse d. *)
LEMMA TopStep ==
  ASSUME WaitInv, NEW t \in Threads, mode[t] = "run", NoLeaf(t),
         \/ (Fails(t) \/ MovesOn(t)) /\ UNCHANGED pending
         \/ \E d \in Decls : analyze_decl(t, d),
         UNCHANGED <<mode, want, waiting, workspace, res, live, cached, harvested, results>>,
         UNCHANGED driver
  PROVE  WaitInv'
<1>1. Typed
  BY DEF WaitInv
<1>2. /\ \E n \in Seq(FrameType) :
           n # <<>> /\ stack' = [stack EXCEPT ![t] = n] /\ Quiet(stack[t], n)
      /\ pending' \subseteq Decls
  <2>1. CASE (Fails(t) \/ MovesOn(t)) /\ UNCHANGED pending
    BY <1>1, <2>1, TopChanges, SessionTyped
  <2>2. CASE \E d \in Decls : analyze_decl(t, d)
    BY <1>1, <2>2, AnalyzeDecl
  <2> QED BY <2>1, <2>2
<1>3. PICK n \in Seq(FrameType) : n # <<>> /\ stack' = [stack EXCEPT ![t] = n] /\ Quiet(stack[t], n)
  BY <1>2
<1> QED BY <1>2, <1>3, SessionTyped, RunStep

LEMMA DriveKeeps ==
  ASSUME WaitInv, NEW t \in Threads, DriveStep(t)
  PROVE  WaitInv'
<1>1. Typed /\ Modules /\ mode[t] = "run" /\ ~AtEnd(t)
  BY DEF WaitInv, DriveStep, Running
<1>2. NoLeaf(t) /\ Top(t) \in FrameType
  BY <1>1, LeafTop, NoLeafTop, RunningTop
<1>3. /\ UNCHANGED <<mode, want, waiting, workspace, res, live, cached, harvested, results>>
      /\ UNCHANGED driver
  BY DEF DriveStep, graph, session, hist
<1>4. \/ (Fails(t) \/ MovesOn(t)) /\ UNCHANGED pending
      \/ \E d \in Decls : analyze_decl(t, d)
  <2> DEFINE d == Declared(Top(t).key)[Top(t).ip - Len(Program[Top(t).key])].key
  <2>1. IF d \in Top(t).slots THEN analyze_decl(t, d) ELSE MovesOn(t) /\ UNCHANGED pending
    BY DEF DriveStep
  <2> HIDE DEF d
  <2>2. Top(t).slots \subseteq Decls
    BY <1>2 DEF FrameType
  <2> QED BY <2>1, <2>2
<1> QED BY <1>1, <1>2, <1>3, <1>4, TopStep

LEMMA NeedAgainKeeps ==
  ASSUME WaitInv, NEW t \in Threads, NeedAgain(t)
  PROVE  WaitInv'
<1>1. Typed /\ Modules /\ mode[t] = "run" /\ NoLeaf(t)
  BY AtStep DEF WaitInv, NeedAgain
<1>2. /\ UNCHANGED <<mode, want, waiting, workspace, res, live, cached, harvested, results, pending>>
      /\ UNCHANGED driver
  BY DEF NeedAgain, graph, session, hist
<1>3. Fails(t) \/ MovesOn(t)
  BY DEF NeedAgain
<1> QED BY <1>1, <1>2, <1>3, TopStep

LEMMA NeedLookKeeps ==
  ASSUME WaitInv, NEW t \in Threads, NeedLook(t)
  PROVE  WaitInv'
<1> DEFINE d == Step(t).key
<1>1. Typed /\ Modules /\ mode[t] = "run" /\ NoLeaf(t) /\ d \in Decls
  BY AtStep DEF WaitInv, NeedLook
<1>2. UNCHANGED <<waiting, workspace, res, live, cached, harvested, results>> /\ UNCHANGED driver
  BY DEF NeedLook, graph, session, hist
<1>3. \/ /\ ((Fails(t) \/ MovesOn(t)) /\ UNCHANGED pending) \/ analyze_decl(t, d)
         /\ UNCHANGED <<mode, want>>
      \/ Acquire(t, PkgOf[d]) /\ UNCHANGED <<stack, pending>>
  BY DEF NeedLook
<1>4. CASE Acquire(t, PkgOf[d]) /\ UNCHANGED <<stack, pending>>
  <2>1. PkgOf[d] \in Keys
    BY <1>1, ProgramAssumption DEF Keys
  <2>2. /\ stack[t] \in Seq(FrameType) /\ stack[t] # <<>> /\ Quiet(stack[t], stack[t])
        /\ stack' = [stack EXCEPT ![t] = stack[t]]
    BY <1>1, <1>4, RunningTop, SameStack
  <2> HIDE DEF d
  <2> QED BY <1>1, <1>2, <1>4, <2>1, <2>2, WaitStep DEF Acquire
<1>5. CASE /\ ((Fails(t) \/ MovesOn(t)) /\ UNCHANGED pending) \/ analyze_decl(t, d)
           /\ UNCHANGED <<mode, want>>
  <2> HIDE DEF d
  <2> QED BY <1>1, <1>2, <1>5, TopStep
<1> QED BY <1>3, <1>4, <1>5

LEMMA NeedLoadedKeeps ==
  ASSUME WaitInv, NEW t \in Threads, NeedLoaded(t)
  PROVE  WaitInv'
<1> DEFINE d == Step(t).key
<1>1. Typed /\ Modules /\ mode[t] = "run" /\ NoLeaf(t) /\ d \in Decls
  BY AtStep DEF WaitInv, NeedLoaded
<1>2. UNCHANGED <<waiting, workspace, res, live, cached, harvested, results>> /\ UNCHANGED driver
  BY DEF NeedLoaded, graph, session, hist
<1> DEFINE f == [Last(stack[t]) EXCEPT !.stage = "waited"]
           n == ReplaceTop(stack[t], f)
<1>3. \/ /\ ((Fails(t) \/ MovesOn(t)) /\ UNCHANGED pending) \/ analyze_decl(t, d)
         /\ UNCHANGED <<mode, want>>
      \/ /\ stack' = [stack EXCEPT ![t] = n] /\ UNCHANGED pending
         /\ \/ /\ mode' = [mode EXCEPT ![t] = "precheck"] /\ want' = [want EXCEPT ![t] = d]
            \/ /\ mode' = [mode EXCEPT ![t] = "run"] /\ want' = [want EXCEPT ![t] = None]
  BY DEF NeedLoaded
<1>4. CASE /\ ((Fails(t) \/ MovesOn(t)) /\ UNCHANGED pending) \/ analyze_decl(t, d)
           /\ UNCHANGED <<mode, want>>
  <2> HIDE DEF d
  <2> QED BY <1>1, <1>2, <1>4, TopStep
<1>5. n \in Seq(FrameType) /\ n # <<>> /\ Quiet(stack[t], n)
  <2>1. stack[t] \in Seq(FrameType) /\ stack[t] # <<>> /\ Last(stack[t]) \in FrameType
    BY <1>1, RunningTop DEF Top
  <2>2. f \in FrameType /\ f.key = Last(stack[t]).key /\ f.stage # "frozen"
    BY <2>1, Frames
  <2> HIDE DEF f
  <2> QED BY <2>1, <2>2, QuietTop, Replaced
<1>6. CASE /\ stack' = [stack EXCEPT ![t] = n] /\ UNCHANGED pending
           /\ mode' = [mode EXCEPT ![t] = "precheck"] /\ want' = [want EXCEPT ![t] = d]
  <2>1. d \in Keys
    BY <1>1 DEF Keys
  <2> HIDE DEF d, n
  <2> QED BY <1>1, <1>2, <1>5, <1>6, <2>1, WaitStep
<1>7. CASE /\ stack' = [stack EXCEPT ![t] = n] /\ UNCHANGED pending
           /\ mode' = [mode EXCEPT ![t] = "run"] /\ want' = [want EXCEPT ![t] = None]
  <2>1. mode' = mode
    BY <1>1, <1>7 DEF Typed, TypeOK
  <2> HIDE DEF n
  <2> QED BY <1>1, <1>2, <1>5, <1>7, <2>1, SessionTyped, RunStep
<1> QED BY <1>3, <1>4, <1>6, <1>7

LEMMA NeedDeferredKeeps ==
  ASSUME WaitInv, NEW t \in Threads, NeedDeferred(t)
  PROVE  WaitInv'
<1> DEFINE d == Step(t).key
<1>1. Typed /\ Modules /\ mode[t] = "run" /\ NoLeaf(t) /\ d \in Decls
  BY AtStep DEF WaitInv, NeedDeferred
<1>2. UNCHANGED <<waiting, workspace, res, live, cached, pending, harvested, results>> /\ UNCHANGED driver
  BY DEF NeedDeferred, graph, session, hist
<1>3. stack[t] \in Seq(FrameType) /\ stack[t] # <<>>
  BY <1>1, RunningTop
<1> DEFINE n == Append(stack[t], Frame(d, FALSE))
<1>4. \/ stack' = [stack EXCEPT ![t] = n] /\ UNCHANGED <<mode, want>>
      \/ MovesOn(t) /\ UNCHANGED <<mode, want>>
      \/ Acquire(t, PkgOf[d]) /\ UNCHANGED stack
  BY DEF NeedDeferred
<1>5. CASE stack' = [stack EXCEPT ![t] = n] /\ UNCHANGED <<mode, want>>
  <2>1. Frame(d, FALSE) \in FrameType /\ Frame(d, FALSE).key \notin Counted /\ Frame(d, FALSE).stage = "look"
    BY <1>1, NewFrame, NotCounted
  <2> HIDE DEF d
  <2>2. n \in Seq(FrameType) /\ n # <<>> /\ Quiet(stack[t], n)
    BY <1>3, <2>1, QuietPush, Pushed
  <2> HIDE DEF n
  <2> QED BY <1>1, <1>2, <1>5, <2>2, SessionTyped, RunStep
<1>6. CASE MovesOn(t) /\ UNCHANGED <<mode, want>>
  BY <1>1, <1>2, <1>6, TopStep
<1>7. CASE Acquire(t, PkgOf[d]) /\ UNCHANGED stack
  <2>1. PkgOf[d] \in Keys
    BY <1>1, ProgramAssumption DEF Keys
  <2>2. /\ Quiet(stack[t], stack[t]) /\ stack' = [stack EXCEPT ![t] = stack[t]]
    BY <1>1, <1>7, SameStack
  <2> HIDE DEF d
  <2> QED BY <1>1, <1>2, <1>3, <1>7, <2>1, <2>2, WaitStep DEF Acquire
<1> QED BY <1>4, <1>5, <1>6, <1>7

(* A thread that wakes the parked ones as it takes mode m. *)
LEMMA WakingStep ==
  ASSUME Typed, NEW t \in Threads, NEW n \in Seq(FrameType), stack' = [stack EXCEPT ![t] = n],
         NEW m \in Modes, NEW M \in {mode, notify_all(mode)}, mode' = [M EXCEPT ![t] = m],
         NEW w \in Keys \cup {None}, want' = [want EXCEPT ![t] = w],
         NEW e \in Keys \cup {None}, waiting' = [waiting EXCEPT ![t] = e],
         ThreadTrue(m, w, e, n), workspace' = workspace
  PROVE  StepOf(t, n)
<1>0. mode \in [Threads -> Modes]
  BY DEF Typed, TypeOK, Modes
<1>1. /\ M \in [Threads -> Modes]
      /\ \A u \in Threads : M[u] = mode[u] \/ (mode[u] = "parked" /\ M[u] = "acquire")
  BY <1>0 DEF notify_all, Modes
<1>2. mode' \in [Threads -> Modes] /\ mode'[t] = m /\ \A u \in Threads \ {t} : mode'[u] = M[u]
  BY <1>1
<1>3. want' \in [Threads -> Keys \cup {None}] /\ want'[t] = w
  BY DEF Typed
<1>4. waiting' \in [Threads -> Keys \cup {None}] /\ waiting'[t] = e
  BY DEF Typed, TypeOK
<1>5. \A u \in Threads \ {t} : want'[u] = want[u] /\ waiting'[u] = waiting[u]
  BY DEF Typed, TypeOK
<1> QED BY <1>1, <1>2, <1>3, <1>4, <1>5 DEF StepOf

(* A step that claims nothing but declarations. *)
LEMMA ProxyStep ==
  ASSUME WaitInv, NEW t \in Threads, NEW n, StepOf(t, n), Quiet(stack[t], n), NoLeaf(t),
         mode[t] \notin {"idle", "done"}, UNCHANGED <<live, cached>>, UNCHANGED driver,
         res' \in ResType, \A k \in Pkgs \cup Bzls : res'[k] = res[k], NoProxyLeak',
         pending' \subseteq Decls, harvested' \subseteq Decls, results' \subseteq Decls
  PROVE  WaitInv'
<1>1. DataTyped
  BY DEF DataTyped, WaitInv, Typed, TypeOK
<1>2. Grounded(n) /\ Typed
  BY QuietGrounded DEF WaitInv, Typed
<1>3. Typed' /\ Books' /\ Modules' /\ DriverTrue'
  BY <1>1, <1>2, TypedKept, QuietBooks, QuietModules, DriverKept DEF WaitInv
<1> QED BY <1>3 DEF WaitInv

(* The end of a declaration returns to what needed it. *)
LEMMA DeclEnds ==
  ASSUME WaitInv, NEW t \in Threads, mode[t] = "run", Top(t).key \in Decls,
         NEW ok \in BOOLEAN, NEW n, n = Returned(Front(stack[t]), Top(t).key, ok)
  PROVE  /\ NoLeaf(t) /\ Quiet(stack[t], n) /\ n \in Seq(FrameType) /\ n # <<>>
         /\ waiting[t] = None
<1>1. Typed /\ Modules /\ waiting[t] = None
  BY DEF WaitInv, Typed, ThreadTrue
<1>2. stack[t] \in Seq(FrameType) /\ stack[t] # <<>> /\ Last(stack[t]).key \notin Counted
  BY <1>1, RunningTop, NotCounted DEF Top
<1>3. NoLeaf(t)
  BY <1>1, NoLeafTop, NotCounted DEF Counted
<1>4. Quiet(stack[t], Front(stack[t])) /\ Front(stack[t]) \in Seq(FrameType)
  BY <1>2, QuietPop DEF Quiet
<1>5. Quiet(Front(stack[t]), n)
  BY <1>4, QuietReturned
<1>6. Quiet(stack[t], n) /\ n \in Seq(FrameType)
  BY <1>4, <1>5, QuietThen DEF Quiet
<1>7. n # <<>>
  BY <1>1, <1>2, <1>6, QuietGrounded DEF Typed
<1> QED BY <1>1, <1>3, <1>6, <1>7

LEMMA DeclFailedKeeps ==
  ASSUME WaitInv, NEW t \in Threads, DeclFailed(t)
  PROVE  WaitInv'
<1>1. PICK n : n = Returned(Front(stack[t]), Top(t).key, FALSE)
  OBVIOUS
<1>2. mode[t] = "run" /\ Top(t).key \in Decls
  BY DEF DeclFailed
<1>3. /\ UNCHANGED <<mode, waiting, workspace, res, live, cached, pending, harvested, results>>
      /\ UNCHANGED driver
  BY DEF DeclFailed, graph, session, hist
<1>4. stack' = [stack EXCEPT ![t] = n] /\ want' = [want EXCEPT ![t] = None]
  BY <1>1 DEF DeclFailed, Return
<1>5. NoLeaf(t) /\ Quiet(stack[t], n) /\ n \in Seq(FrameType) /\ n # <<>>
  BY <1>1, <1>2, DeclEnds
<1> QED BY <1>2, <1>3, <1>4, <1>5, SessionTyped, RunStep

LEMMA RecordKeeps ==
  ASSUME WaitInv, NEW t \in Threads, record_target(t)
  PROVE  WaitInv'
<1> DEFINE d == Top(t).key
<1>1. PICK n : n = Returned(Front(stack[t]), d, TRUE)
  OBVIOUS
<1>2. mode[t] = "run" /\ d \in Decls /\ Typed
  BY DEF record_target, Running, WaitInv
<1>3. UNCHANGED <<waiting, workspace, live, cached, pending, harvested>> /\ UNCHANGED driver
  BY DEF record_target, hist
<1>4. /\ stack' = [stack EXCEPT ![t] = n] /\ want' = [want EXCEPT ![t] = None]
      /\ results' = results \cup {d}
      /\ res' = [res EXCEPT ![d] = Done] \/ res' = res
      /\ mode' = notify_all(mode) \/ mode' = mode
  BY <1>1 DEF record_target, Return
<1>5. NoLeaf(t) /\ Quiet(stack[t], n) /\ n \in Seq(FrameType) /\ n # <<>> /\ waiting[t] = None
  BY <1>1, <1>2, DeclEnds
<1> HIDE DEF d
<1>6. StepOf(t, n)
  <2>1. PICK M \in {mode, notify_all(mode)} : mode' = M
    BY <1>4
  <2>2. mode' = [M EXCEPT ![t] = "run"]
    BY <1>2, <2>1 DEF notify_all, Typed, TypeOK
  <2>3. waiting' = [waiting EXCEPT ![t] = None]
    BY <1>2, <1>3, <1>5 DEF Typed, TypeOK
  <2>4. ThreadTrue("run", None, None, n) /\ "run" \in Modes
    BY <1>5 DEF ThreadTrue, Modes
  <2> QED BY <1>2, <1>3, <1>4, <1>5, <2>2, <2>3, <2>4, WakingStep
<1>7. d \notin Pkgs \cup Bzls /\ d \in Keys
  BY <1>2, NotCounted
<1>8. res \in ResType
  BY <1>2 DEF Typed, TypeOK, ResType
<1>9. res' \in ResType /\ \A k \in Pkgs \cup Bzls : res'[k] = res[k]
  BY <1>4, <1>7, <1>8 DEF ResType, Keys
<1>10. NoProxyLeak'
  <2> SUFFICES ASSUME NEW c \in Decls, res'[c].st = "inflight" PROVE res'[PkgOf[c]].st = "inflight"
    BY DEF NoProxyLeak, Owned
  <2>1. res'[c] = res[c] \/ res'[c] = Done
    BY <1>4, <1>8 DEF ResType, Keys
  <2>2. res[c].st = "inflight" /\ PkgOf[c] \in Pkgs
    BY <2>1, ProgramAssumption DEF Done
  <2> QED BY <1>9, <2>2 DEF WaitInv, NoProxyLeak, Owned
<1>11. results' \subseteq Decls /\ pending' \subseteq Decls /\ harvested' \subseteq Decls
  BY <1>2, <1>3, <1>4, SessionTyped
<1>12. mode[t] \notin {"idle", "done"}
  BY <1>2
<1> QED BY <1>3, <1>5, <1>6, <1>9, <1>10, <1>11, <1>12, ProxyStep

-----------------------------------------------------------------------------
(* A thread that waits leaves its wait for mode m: what it had not claimed *)
(* it does not claim either.                                               *)
LEMMA WaitOver ==
  ASSUME WaitInv, NEW t \in Threads, mode[t] \in {"acquire", "precheck", "parked"},
         NEW n, Quiet(stack[t], n), stack' = [stack EXCEPT ![t] = n],
         NEW m \in Modes, mode' = [mode EXCEPT ![t] = m],
         NEW w \in Keys \cup {None}, want' = [want EXCEPT ![t] = w],
         NEW e \in Keys \cup {None}, waiting' = [waiting EXCEPT ![t] = e],
         ThreadTrue(m, w, e, n), workspace' = workspace,
         UNCHANGED <<res, live, cached, pending, harvested, results>>, UNCHANGED driver
  PROVE  WaitInv'
<1>1. Typed /\ NoLeaf(t) /\ n \in Seq(FrameType)
  BY NoLeafWaiting DEF WaitInv, Quiet
<1>2. StepOf(t, n)
  BY <1>1, StepIs
<1>3. mode[t] \notin {"idle", "done"}
  OBVIOUS
<1> QED BY <1>1, <1>2, <1>3, SessionTyped, WorkStep

LEMMA AcquireDoneKeeps ==
  ASSUME WaitInv, NEW t \in Threads, Acquiring(t), NEW ok \in BOOLEAN, AcquireDone(t, ok)
  PROVE  WaitInv'
<1>1. PICK n : n = Returned(stack[t], want[t], ok)
  OBVIOUS
<1>2. PICK m : m = ModeAfter(stack[t], ok)
  OBVIOUS
<1>3. Typed /\ mode[t] = "acquire" /\ stack[t] \in Seq(FrameType)
  BY DEF WaitInv, Typed, Acquiring
<1>4. /\ stack' = [stack EXCEPT ![t] = n] /\ mode' = [mode EXCEPT ![t] = m]
      /\ want' = [want EXCEPT ![t] = None] /\ waiting' = [waiting EXCEPT ![t] = None]
  BY <1>1, <1>2 DEF AcquireDone, Return, Unparked
<1>5. /\ UNCHANGED <<res, live, cached, pending, harvested, results>> /\ workspace' = workspace
      /\ UNCHANGED driver
  BY DEF AcquireDone, session, hist
<1>6. Quiet(stack[t], n) /\ (n = <<>> <=> stack[t] = <<>>)
  BY <1>1, <1>3, QuietReturned
<1>7. m \in Modes /\ ThreadTrue(m, None, None, n)
  BY <1>2, <1>6 DEF ModeAfter, Modes, ThreadTrue
<1> QED BY <1>3, <1>4, <1>5, <1>6, <1>7, WaitOver

LEMMA AcquireEndsKeeps ==
  ASSUME WaitInv, NEW t \in Threads, AcquireReady(t) \/ AcquireFailed(t) \/ CycleProceed(t)
  PROVE  WaitInv'
  BY AcquireDoneKeeps DEF AcquireReady, AcquireFailed, CycleProceed

LEMMA AcquireParkKeeps ==
  ASSUME WaitInv, NEW t \in Threads, AcquirePark(t)
  PROVE  WaitInv'
<1>1. Typed /\ mode[t] = "acquire" /\ stack[t] \in Seq(FrameType)
  BY DEF WaitInv, Typed, AcquirePark, Acquiring
<1>2. ThreadTrue(mode[t], want[t], waiting[t], stack[t])
  BY <1>1 DEF Typed
<1>3. want[t] \in Keys /\ "parked" \in Modes
  BY <1>1, <1>2 DEF ThreadTrue, Modes
<1>4. ThreadTrue("parked", want[t], want[t], stack[t])
  BY <1>1, <1>2 DEF ThreadTrue
<1>5. /\ UNCHANGED <<res, live, cached, pending, harvested, results>> /\ workspace' = workspace
      /\ UNCHANGED driver /\ stack' = stack /\ want' = want
  BY DEF AcquirePark, session, hist
<1>6. want' = [want EXCEPT ![t] = want[t]]
  BY <1>1, <1>5 DEF Typed
<1>7. mode' = [mode EXCEPT ![t] = "parked"] /\ waiting' = [waiting EXCEPT ![t] = want[t]]
  BY DEF AcquirePark
<1>8. stack' = [stack EXCEPT ![t] = stack[t]] /\ Quiet(stack[t], stack[t])
  BY <1>1, <1>5, SameStack
<1> QED BY <1>1, <1>3, <1>4, <1>5, <1>6, <1>7, <1>8, WaitOver

(* A wait for a declaration ends: there is an evaluation that waits. *)
LEMMA WaitEndsKeeps ==
  ASSUME WaitInv, NEW t \in Threads, mode[t] \in {"acquire", "precheck"}, want[t] \in Decls,
         NEW ok \in BOOLEAN, NEW p, WaitEnds(t, ok, p)
  PROVE  WaitInv'
<1>1. Typed /\ stack[t] \in Seq(FrameType) /\ ThreadTrue(mode[t], want[t], waiting[t], stack[t])
  BY DEF WaitInv, Typed
<1>2. stack[t] # <<>>
  BY <1>1, NotCounted DEF ThreadTrue
<1>3. /\ UNCHANGED <<res, live, cached, pending, harvested, results>> /\ workspace' = workspace
      /\ UNCHANGED driver
  BY DEF WaitEnds, session, hist
<1>4. /\ mode' = [mode EXCEPT ![t] = "run"] /\ want' = [want EXCEPT ![t] = None]
      /\ waiting' = [waiting EXCEPT ![t] = None]
  BY DEF WaitEnds, Return, Unparked
<1>5. PICK n : Quiet(stack[t], n) /\ stack' = [stack EXCEPT ![t] = n] /\ n # <<>>
  <2>1. CASE ok
    <3>1. PICK n : n = Returned(stack[t], want[t], TRUE)
      OBVIOUS
    <3>2. stack' = [stack EXCEPT ![t] = n]
      BY <2>1, <3>1 DEF WaitEnds, Return
    <3> QED BY <1>1, <1>2, <3>1, <3>2, QuietReturned
  <2>2. CASE ~ok
    <3>1. stack' = stack
      BY <2>2 DEF WaitEnds
    <3> QED BY <1>1, <1>2, <3>1, SameStack
  <2> QED BY <2>1, <2>2
<1>6. ThreadTrue("run", None, None, n) /\ "run" \in Modes
  BY <1>5 DEF ThreadTrue, Modes
<1> QED BY <1>3, <1>4, <1>5, <1>6, WaitOver

LEMMA WaitPrecheckKeeps ==
  ASSUME WaitInv, NEW t \in Threads, WaitPrecheck(t)
  PROVE  WaitInv'
<1> DEFINE p == PkgOf[want[t]]
<1>1. /\ Typed /\ mode[t] = "precheck" /\ stack[t] \in Seq(FrameType)
      /\ ThreadTrue(mode[t], want[t], waiting[t], stack[t])
  BY DEF WaitInv, Typed, WaitPrecheck
<1>2. want[t] \in Decls /\ want[t] \in Keys /\ waiting[t] = None
  BY <1>1 DEF ThreadTrue
<1>3. CASE Owned(p) /\ res[p].owner # t
  <2>1. /\ mode' = [mode EXCEPT ![t] = "acquire"]
        /\ UNCHANGED <<graph, session, stack, want, partial, driver, hist>>
    BY <1>3 DEF WaitPrecheck
  <2>2. /\ UNCHANGED <<res, live, cached, pending, harvested, results>> /\ workspace' = workspace
        /\ UNCHANGED driver /\ stack' = stack /\ want' = want /\ waiting' = waiting
    BY <2>1 DEF graph, session, hist
  <2>3. want' = [want EXCEPT ![t] = want[t]] /\ waiting' = [waiting EXCEPT ![t] = None]
    BY <1>1, <1>2, <2>2 DEF Typed, TypeOK
  <2>4. stack' = [stack EXCEPT ![t] = stack[t]] /\ Quiet(stack[t], stack[t])
    BY <1>1, <2>2, SameStack
  <2>5. ThreadTrue("acquire", want[t], None, stack[t]) /\ "acquire" \in Modes
    BY <1>1 DEF ThreadTrue, Modes
  <2> QED BY <1>1, <1>2, <2>1, <2>2, <2>3, <2>4, <2>5, WaitOver
<1>4. CASE ~(Owned(p) /\ res[p].owner # t)
  <2>1. WaitEnds(t, FALSE, res[p] = Absent)
    BY <1>4 DEF WaitPrecheck
  <2> QED BY <1>1, <1>2, <2>1, WaitEndsKeeps
<1> QED BY <1>3, <1>4

LEMMA WaitEndingsKeep ==
  ASSUME WaitInv, NEW t \in Threads, WaitPublished(t) \/ WaitProceeds(t)
  PROVE  WaitInv'
<1>1. mode[t] \in {"acquire", "precheck"} /\ want[t] \in Decls
  BY DEF WaitPublished, WaitProceeds, Waiting
<1>2. CASE WaitPublished(t)
  BY <1>1, <1>2, WaitEndsKeeps DEF WaitPublished
<1>3. CASE WaitProceeds(t)
  BY <1>1, <1>3, WaitEndsKeeps DEF WaitProceeds
<1> QED BY <1>2, <1>3

LEMMA WaitParksKeeps ==
  ASSUME WaitInv, NEW t \in Threads, WaitParks(t)
  PROVE  WaitInv'
<1>1. PICK d, o : d = want[t] /\ o = Publisher(d)
  OBVIOUS
<1>2. /\ Typed /\ mode[t] = "acquire" /\ d \in Decls /\ o \in Threads \ {t}
      /\ stack[t] \in Seq(FrameType) /\ ThreadTrue(mode[t], want[t], waiting[t], stack[t])
  BY <1>1 DEF WaitInv, Typed, WaitParks, Waiting
<1>3. /\ UNCHANGED <<live, cached, pending, harvested, results>> /\ workspace' = workspace
      /\ UNCHANGED driver /\ stack' = stack /\ want' = want
  BY DEF WaitParks, session, hist
<1>4. /\ res' = [res EXCEPT ![d] = InFlight(o)] /\ waiting' = [waiting EXCEPT ![t] = d]
      /\ \E M \in {mode, notify_all(mode)} : mode' = [M EXCEPT ![t] = "parked"]
  BY <1>1 DEF WaitParks
<1>5. want' = [want EXCEPT ![t] = d] /\ d \in Keys
  BY <1>1, <1>2, <1>3, NotCounted DEF Typed
<1>6. stack' = [stack EXCEPT ![t] = stack[t]] /\ Quiet(stack[t], stack[t]) /\ NoLeaf(t)
  BY <1>2, <1>3, SameStack, NoLeafWaiting DEF WaitInv
<1>7. ThreadTrue("parked", d, d, stack[t]) /\ "parked" \in Modes
  BY <1>1, <1>2 DEF ThreadTrue, Modes
<1>8. StepOf(t, stack[t])
  BY <1>2, <1>3, <1>4, <1>5, <1>6, <1>7, WakingStep
<1>9. res \in ResType /\ d \notin Pkgs \cup Bzls
  BY <1>2, NotCounted DEF Typed, TypeOK, ResType
<1>10. res' \in ResType /\ \A k \in Pkgs \cup Bzls : res'[k] = res[k]
  BY <1>2, <1>4, <1>5, <1>9 DEF ResType, Keys
<1>11. NoProxyLeak'
  <2>1. PkgOf[d] \in Pkgs /\ res[PkgOf[d]].st = "inflight"
    <3>1. CASE Owned(d)
      BY <1>2, <3>1, ProgramAssumption DEF WaitInv, NoProxyLeak, Owned
    <3>2. CASE ~Owned(d)
      BY <1>1, <1>2, <3>2, ProgramAssumption DEF Publisher, Owned
    <3> QED BY <3>1, <3>2
  <2> SUFFICES ASSUME NEW c \in Decls, res'[c].st = "inflight" PROVE res'[PkgOf[c]].st = "inflight"
    BY DEF NoProxyLeak, Owned
  <2>2. PkgOf[c] \in Pkgs
    BY ProgramAssumption
  <2>3. CASE c = d
    BY <1>10, <2>1, <2>3
  <2>4. CASE c # d
    <3>1. res'[c] = res[c]
      BY <1>4, <1>9, <2>4 DEF ResType, Keys
    <3> QED BY <1>10, <2>2, <3>1 DEF WaitInv, NoProxyLeak, Owned
  <2> QED BY <2>3, <2>4
<1>12. mode[t] \notin {"idle", "done"}
  BY <1>2
<1> QED BY <1>3, <1>6, <1>8, <1>10, <1>11, <1>12, SessionTyped, ProxyStep

LEMMA PurgeKeeps ==
  ASSUME WaitInv, NEW t \in Threads, purge_partial_package(t)
  PROVE  WaitInv'
<1>1. PICK m : m = ModeAfter(stack[t], FALSE)
  OBVIOUS
<1>2. /\ Typed /\ mode[t] = "purge" /\ stack[t] \in Seq(FrameType)
      /\ ThreadTrue(mode[t], want[t], waiting[t], stack[t])
  BY DEF WaitInv, Typed, purge_partial_package
<1>3. UNCHANGED <<res, waiting, live, cached, harvested, workspace, stack>> /\ UNCHANGED driver
  BY DEF purge_partial_package, graph, hist
<1>4. /\ mode' = [mode EXCEPT ![t] = m] /\ want' = [want EXCEPT ![t] = None]
      /\ results' \subseteq results /\ pending' \subseteq pending
  BY <1>1 DEF purge_partial_package
<1>5. waiting' = [waiting EXCEPT ![t] = None]
  BY <1>2, <1>3 DEF Typed, TypeOK, ThreadTrue
<1>6. m \in Modes /\ ThreadTrue(m, None, None, stack[t])
  BY <1>1 DEF ModeAfter, Modes, ThreadTrue
<1>7. stack' = [stack EXCEPT ![t] = stack[t]] /\ Quiet(stack[t], stack[t]) /\ NoLeaf(t)
  BY <1>2, <1>3, SameStack, NoLeafWaiting DEF WaitInv
<1>8. StepOf(t, stack[t])
  BY <1>2, <1>3, <1>4, <1>5, <1>6, <1>7, StepIs
<1>9. mode[t] \notin {"idle", "done"}
  BY <1>2
<1> QED BY <1>3, <1>4, <1>7, <1>8, <1>9, SessionTyped, WorkStep

-----------------------------------------------------------------------------
(* What a step of t has to show of the modules. *)
LEMMA ModulesKept ==
  ASSUME Typed, Modules, NEW t \in Threads, NEW n, StepOf(t, n),
         \A b \in Bzls : cached'[b] \in Nat /\ cached'[b] >= cached[b],
         \A b \in Bzls : res'[b] = Done => cached'[b] > 0,
         \A b \in Leaf : cached'[b] <= 1 /\ (res'[b] = Absent => cached'[b] = 0),
         \A i \in DOMAIN n : n[i].key \in Bzls /\ n[i].stage = "frozen" => cached'[n[i].key] > 0,
         \A i \in DOMAIN n : n[i].key \in Leaf =>
           i = Len(n) /\ mode'[t] = "run" /\ LeafTrue(n[i], cached'),
         \A u \in Threads \ {t} : \A i \in DOMAIN stack[u] :
           stack[u][i].key \in Leaf => cached'[stack[u][i].key] = cached[stack[u][i].key]
  PROVE  Modules'
<1>1. stack'[t] = n /\ \A u \in Threads \ {t} : stack'[u] = stack[u]
  BY StackOf DEF StepOf
<1>2. Leaf' = Leaf
  BY Constants DEF StepOf
<1>3. DoneIsCached' /\ CachedOnce'
  BY <1>2 DEF DoneIsCached, CachedOnce, Done, Absent
<1>4. FrozenIsCached'
  <2> SUFFICES ASSUME NEW u \in Threads, NEW i \in DOMAIN stack'[u],
                      stack'[u][i].key \in Bzls, stack'[u][i].stage = "frozen"
               PROVE  cached'[stack'[u][i].key] > 0
    BY DEF FrozenIsCached
  <2>1. CASE u = t
    BY <1>1, <2>1
  <2>2. CASE u # t
    <3>1. PICK b \in Bzls : b = stack'[u][i].key
      OBVIOUS
    <3>2. cached[b] > 0 /\ cached[b] \in Nat
      BY <1>1, <2>2, <3>1 DEF Modules, FrozenIsCached, Typed, TypeOK
    <3>3. cached'[b] \in Nat /\ cached'[b] >= cached[b]
      OBVIOUS
    <3> QED BY <3>1, <3>2, <3>3
  <2> QED BY <2>1, <2>2
<1>5. LeavesInnermost'
  <2> SUFFICES ASSUME NEW u \in Threads, NEW i \in DOMAIN stack'[u], stack'[u][i].key \in Leaf
               PROVE  i = Len(stack'[u]) /\ mode'[u] = "run" /\ LeafTrue(stack'[u][i], cached')
    BY <1>2 DEF LeavesInnermost, LeafTrue
  <2>1. CASE u = t
    BY <1>1, <2>1
  <2>2. CASE u # t
    <3>1. /\ stack'[u] = stack[u] /\ i = Len(stack[u]) /\ mode[u] = "run"
          /\ LeafTrue(stack[u][i], cached) /\ cached'[stack[u][i].key] = cached[stack[u][i].key]
      BY <1>1, <2>2 DEF Modules, LeavesInnermost
    <3>2. mode'[u] = "run"
      BY <2>2, <3>1 DEF StepOf
    <3> QED BY <3>1, <3>2 DEF LeafTrue
  <2> QED BY <2>1, <2>2
<1> QED BY <1>3, <1>4, <1>5 DEF Modules

(* An evaluation fails of itself, that of a module without loads too. *)
LEMMA EvalFailsKeeps ==
  ASSUME WaitInv, NEW t \in Threads, EvalFails(t)
  PROVE  WaitInv'
<1>1. Typed /\ Modules /\ mode[t] = "run" /\ Top(t).stage = "look" /\ Fails(t)
  BY DEF WaitInv, EvalFails, Running
<1>2. /\ UNCHANGED <<mode, want, waiting, workspace, res, live, cached, harvested, results, pending>>
      /\ UNCHANGED driver
  BY DEF EvalFails, graph, session, hist
<1>3. CASE Top(t).key \notin Leaf
  BY <1>1, <1>2, <1>3, NoLeafTop, TopStep
<1>4. CASE Top(t).key \in Leaf
  <2> DEFINE f == [Top(t) EXCEPT !.failed = TRUE]
  <2>1. PICK n : n = ReplaceTop(stack[t], f)
    OBVIOUS
  <2>2. /\ stack[t] \in Seq(FrameType) /\ stack[t] # <<>> /\ Last(stack[t]) = Top(t)
        /\ Top(t) \in FrameType /\ LeafTrue(Top(t), cached)
    BY <1>1, <1>4, RunningTop, LeafTop DEF Top
  <2>3. stack' = [stack EXCEPT ![t] = n]
    BY <1>1, <2>1, <2>2 DEF Fails
  <2>4. f \in FrameType /\ f.key = Top(t).key /\ f.stage = "look" /\ LeafTrue(f, cached)
    <3>1. f \in FrameType /\ f.key = Top(t).key /\ f.stage = Top(t).stage
      BY <2>2, Frames
    <3>2. f.slots = Top(t).slots /\ f.drive = Top(t).drive
      BY <2>2 DEF FrameType
    <3> QED BY <1>1, <2>2, <3>1, <3>2 DEF LeafTrue
  <2> HIDE DEF f
  <2>a. /\ n \in Seq(FrameType) /\ n # <<>> /\ Len(n) = Len(stack[t]) /\ DOMAIN n = DOMAIN stack[t]
        /\ \A i \in DOMAIN stack[t] : n[i] = IF i = Len(stack[t]) THEN f ELSE stack[t][i]
    BY <2>1, <2>2, <2>4, Replaced
  <2>b. Quiet(stack[t], n)
    BY <2>1, <2>2, <2>4, QuietTop
  <2>5. /\ Quiet(stack[t], n) /\ n \in Seq(FrameType) /\ n # <<>> /\ DOMAIN n = DOMAIN stack[t]
        /\ Len(n) = Len(stack[t])
        /\ \A i \in DOMAIN n : n[i] = IF i = Len(n) THEN f ELSE stack[t][i]
    BY <2>a, <2>b
  <2>6. StepOf(t, n)
    BY <1>1, <1>2, <2>3, <2>5, RunsOn
  <2>7. Typed'
    <3>1. Grounded(n)
      BY <1>1, <2>2, <2>5, QuietGrounded DEF Typed
    <3>2. DataTyped
      BY <1>1, <1>2 DEF DataTyped, Typed, TypeOK, ResType
    <3> QED BY <1>1, <2>6, <3>1, <3>2, TypedKept
  <2>8. Books' /\ DriverTrue'
    BY <1>1, <1>2, <2>5, <2>6, QuietBooks, DriverKept DEF WaitInv
  <2>9. Modules'
    <3>1. ASSUME NEW i \in DOMAIN n
          PROVE  /\ n[i].key \in Bzls /\ n[i].stage = "frozen" => cached[n[i].key] > 0
                 /\ n[i].key \in Leaf => i = Len(n) /\ mode'[t] = "run" /\ LeafTrue(n[i], cached)
      <4>1. CASE i = Len(n)
        BY <1>1, <1>2, <2>4, <2>5, <4>1
      <4>2. CASE i # Len(n)
        BY <1>1, <2>5, <4>2 DEF Modules, FrozenIsCached, LeavesInnermost
      <4> QED BY <4>1, <4>2
    <3>2. \A b \in Bzls : cached[b] \in Nat /\ cached[b] >= cached[b]
      BY <1>1 DEF Typed, TypeOK
    <3>3. /\ \A b \in Bzls : res[b] = Done => cached[b] > 0
          /\ \A b \in Leaf : cached[b] <= 1 /\ (res[b] = Absent => cached[b] = 0)
      BY <1>1 DEF Modules, DoneIsCached, CachedOnce
    <3> QED BY <1>1, <1>2, <2>6, <3>1, <3>2, <3>3, ModulesKept
  <2>10. NoProxyLeak'
    BY <1>2 DEF WaitInv, NoProxyLeak, Owned
  <2> QED BY <2>7, <2>8, <2>9, <2>10 DEF WaitInv
<1> QED BY <1>3, <1>4

(* A thread evaluates a module that loads nothing alone. *)
LEMMA LeafAlone ==
  ASSUME Typed, Books, NEW t \in Threads, NEW i \in DOMAIN stack[t], stack[t][i].key \in Leaf
  PROVE  /\ res[stack[t][i].key] = InFlight(t)
         /\ \A u \in Threads \ {t} : \A j \in DOMAIN stack[u] : stack[u][j].key # stack[t][i].key
<1>1. PICK k \in Leaf : k = stack[t][i].key
  OBVIOUS
<1>2. SoleOwner(k)
  BY DEF Books, BookTrue, Counted, Leaf
<1>3. <<t, i>> \in Evaluations(k)
  BY <1>1, EvaluationAt DEF EvalsAt
<1>4. res[k] = InFlight(t) /\ Evaluations(k) = {<<t, i>>}
  BY <1>2, <1>3 DEF SoleOwner
<1>5. ASSUME NEW u \in Threads \ {t}, NEW j \in DOMAIN stack[u], stack[u][j].key = k
      PROVE  FALSE
  <2>1. <<u, j>> \in Evaluations(k)
    BY <1>5, EvaluationAt DEF EvalsAt
  <2> QED BY <1>4, <2>1
<1> QED BY <1>1, <1>4, <1>5

LEMMA HarvestKeeps ==
  ASSUME WaitInv, NEW t \in Threads, Harvest(t)
  PROVE  WaitInv'
<1>1. PICK k : k = Top(t).key
  OBVIOUS
<1> DEFINE e == [Top(t) EXCEPT !.slots = {}]
           f == [e EXCEPT !.stage = "frozen"]
<1>2. PICK n : n = ReplaceTop(stack[t], f)
  OBVIOUS
<1>3. /\ Typed /\ Modules /\ Books /\ mode[t] = "run" /\ ~Top(t).failed /\ Top(t).stage = "look"
      /\ k \notin Decls
  BY <1>1 DEF WaitInv, Harvest, Ended, Running
<1>4. /\ stack[t] \in Seq(FrameType) /\ stack[t] # <<>> /\ Last(stack[t]) = Top(t)
      /\ Top(t) \in FrameType
      /\ Len(stack[t]) \in DOMAIN stack[t] /\ stack[t][Len(stack[t])] = Top(t)
  BY <1>3, RunningTop DEF Top
<1>5. k \in Pkgs \cup Bzls
  BY <1>1, <1>3, <1>4 DEF FrameType, Keys
<1>6. /\ UNCHANGED <<mode, want, waiting, workspace, res, live, results>> /\ UNCHANGED driver
  BY DEF Harvest, graph, hist
<1>7. /\ stack' = [stack EXCEPT ![t] = n]
      /\ harvested' = harvested \cup Top(t).slots /\ pending' = pending \ Top(t).slots
      /\ cached' = IF k \in Bzls THEN [cached EXCEPT ![k] = @ + 1] ELSE cached
  BY <1>1, <1>2, <1>4 DEF Harvest
<1>8. /\ f \in FrameType /\ f.key = k /\ f.stage = "frozen" /\ f.slots = {}
      /\ f.drive = Top(t).drive /\ ~f.failed
  <2>1. /\ e \in FrameType /\ e.key = k /\ e.slots = {} /\ e.drive = Top(t).drive
        /\ e.failed = Top(t).failed
    BY <1>1, <1>4 DEF FrameType
  <2> HIDE DEF e
  <2> QED BY <1>3, <2>1 DEF FrameType, Stages
<1> HIDE DEF f
<1>9. /\ n \in Seq(FrameType) /\ n # <<>> /\ DOMAIN n = DOMAIN stack[t] /\ Len(n) = Len(stack[t])
      /\ \A i \in DOMAIN n : n[i] = IF i = Len(n) THEN f ELSE stack[t][i]
  <2>1. /\ n \in Seq(FrameType) /\ n # <<>> /\ DOMAIN n = DOMAIN stack[t] /\ Len(n) = Len(stack[t])
        /\ \A i \in DOMAIN stack[t] : n[i] = IF i = Len(stack[t]) THEN f ELSE stack[t][i]
    <3>1. stack[t] \in Seq(FrameType) /\ stack[t] # <<>> /\ f \in FrameType
      BY <1>4, <1>8
    <3> QED BY ONLY <1>2, <3>1, Replaced
  <2> QED BY <2>1
<1>10. \A i \in DOMAIN n : n[i].key = stack[t][i].key
  BY <1>1, <1>4, <1>8, <1>9
<1>11. StepOf(t, n)
  BY <1>3, <1>6, <1>7, <1>9, RunsOn
<1>12. /\ \A b \in Bzls : cached[b] \in Nat /\ cached'[b] \in Nat /\ cached'[b] >= cached[b]
       /\ \A b \in Bzls : cached'[b] = IF b = k THEN cached[b] + 1 ELSE cached[b]
       /\ cached' \in [Bzls -> Nat]
  BY <1>3, <1>7 DEF Typed, TypeOK
<1>13. Typed'
  <2>1. Grounded(n)
    <3>1. Grounded(stack[t])
      BY <1>3 DEF Typed
    <3>2. 1 \in DOMAIN n
      BY <1>9, Stacked
    <3> QED BY <1>4, <1>10, <3>1, <3>2 DEF Grounded
  <2>2. Top(t).slots \subseteq Decls
    BY <1>4 DEF FrameType
  <2>3. res' \in ResType /\ live' \in [Keys -> Nat]
    BY <1>3, <1>6 DEF Typed, TypeOK, ResType
  <2>4. DataTyped
    BY <1>6, <1>7, <1>12, <2>2, <2>3, SessionTyped DEF DataTyped
  <2> QED BY <1>3, <1>11, <2>1, <2>4, TypedKept
<1>14. Books'
  <2>1. ASSUME NEW c \in Counted PROVE BookTrue(c)'
    <3>1. EvalsAt(n, c) = EvalsAt(stack[t], c)
      BY <1>9, <1>10 DEF EvalsAt
    <3> QED BY <1>3, <1>6, <1>11, <3>1, BookKept
  <2>2. Counted' = Counted
    BY <1>6, Constants
  <2> QED BY <2>1, <2>2 DEF Books
<1>15. DriverTrue'
  BY <1>3, <1>6, <1>11, DriverKept DEF WaitInv
<1>16. Modules'
  <2>1. \A b \in Bzls : res'[b] = Done => cached'[b] > 0
    BY <1>3, <1>6, <1>12 DEF Modules, DoneIsCached
  <2>2. k \in Leaf => /\ cached[k] = 0 /\ res[k] = InFlight(t) /\ LeafTrue(Top(t), cached)
                      /\ \A u \in Threads \ {t} : \A i \in DOMAIN stack[u] : stack[u][i].key # k
    <3> SUFFICES ASSUME k \in Leaf
                 PROVE  /\ cached[k] = 0 /\ res[k] = InFlight(t) /\ LeafTrue(Top(t), cached)
                        /\ \A u \in Threads \ {t} : \A i \in DOMAIN stack[u] : stack[u][i].key # k
      OBVIOUS
    <3>1. LeafTrue(Top(t), cached)
      BY <1>1, <1>3, LeafTop
    <3>2. cached[k] = 0
      BY <1>1, <1>3, <3>1 DEF LeafTrue
    <3> QED BY <1>1, <1>3, <1>4, <3>1, <3>2, LeafAlone
  <2>3. \A b \in Leaf : cached'[b] <= 1 /\ (res'[b] = Absent => cached'[b] = 0)
    <3> SUFFICES ASSUME NEW b \in Leaf
                 PROVE  cached'[b] <= 1 /\ (res'[b] = Absent => cached'[b] = 0)
      OBVIOUS
    <3>1. CASE b = k
      BY <1>6, <1>12, <2>2, <3>1 DEF InFlight, Absent, Leaf
    <3>2. CASE b # k
      BY <1>3, <1>6, <1>12, <3>2 DEF Modules, CachedOnce, Leaf
    <3> QED BY <3>1, <3>2
  <2>4. ASSUME NEW i \in DOMAIN n, n[i].key \in Bzls, n[i].stage = "frozen"
        PROVE  cached'[n[i].key] > 0
    <3>1. CASE i = Len(n)
      BY <1>8, <1>9, <1>12, <2>4, <3>1
    <3>2. CASE i # Len(n)
      <4>1. PICK b \in Bzls : b = n[i].key
        BY <2>4
      <4>2. cached[b] > 0
        BY <1>3, <1>9, <2>4, <3>2, <4>1 DEF Modules, FrozenIsCached
      <4> QED BY <1>12, <4>1, <4>2
    <3> QED BY <3>1, <3>2
  <2>5. ASSUME NEW i \in DOMAIN n, n[i].key \in Leaf
        PROVE  i = Len(n) /\ mode'[t] = "run" /\ LeafTrue(n[i], cached')
    <3>1. i = Len(n) /\ n[i] = f
      BY <1>3, <1>9, <1>10, <2>5 DEF Modules, LeavesInnermost
    <3>2. k \in Leaf
      BY <1>8, <2>5, <3>1
    <3>3. LeafTrue(f, cached')
      BY <1>8, <2>2, <3>2 DEF LeafTrue
    <3> QED BY <1>3, <1>6, <3>1, <3>3
  <2>6. ASSUME NEW u \in Threads \ {t}, NEW i \in DOMAIN stack[u], stack[u][i].key \in Leaf
        PROVE  cached'[stack[u][i].key] = cached[stack[u][i].key]
    BY <1>12, <2>2, <2>6 DEF Leaf
  <2> QED BY <1>3, <1>11, <1>12, <2>1, <2>3, <2>4, <2>5, <2>6, ModulesKept
<1>17. NoProxyLeak'
  BY <1>6 DEF WaitInv, NoProxyLeak, Owned
<1> QED BY <1>13, <1>14, <1>15, <1>16, <1>17 DEF WaitInv

-----------------------------------------------------------------------------
(* Claims: an evaluation of k begins in the thread's own name. *)
LEMMA OwnKeeps ==
  ASSUME WaitInv, NEW t \in Threads, NEW k \in Pkgs \cup Bzls, mode[t] \in {"acquire", "parked"},
         want[t] = k, Own(t, k), workspace' = workspace,
         k \in Counted /\ ~Timeouts => Evaluations(k) = {},
         k \in Leaf => cached[k] = 0
  PROVE  WaitInv'
<1> DEFINE f == Entered(t, k)
<1>1. PICK n : n = Append(stack[t], f)
  OBVIOUS
<1>2. /\ Typed /\ Modules /\ Books /\ NoLeaf(t) /\ stack[t] \in Seq(FrameType) /\ k \in Keys
      /\ ThreadTrue(mode[t], want[t], waiting[t], stack[t]) /\ Grounded(stack[t])
  BY NoLeafWaiting DEF WaitInv, Typed, Keys
<1>3. stack[t] = <<>> => k \in Pkgs
  BY <1>2 DEF ThreadTrue
<1>4. /\ f \in FrameType /\ f.key = k /\ f.stage = "look" /\ f.slots = {} /\ ~f.failed
      /\ k \in Bzls => ~f.drive
  <2>1. k \in Bzls => stack[t] # <<>>
    BY <1>3, ProgramAssumption
  <2> QED BY <1>2, <2>1, NewFrame DEF Entered
<1> HIDE DEF f
<1>5. /\ n \in Seq(FrameType) /\ n # <<>> /\ Len(n) = Len(stack[t]) + 1
      /\ DOMAIN n = DOMAIN stack[t] \cup {Len(n)} /\ Len(n) \notin DOMAIN stack[t] /\ n[Len(n)] = f
      /\ \A i \in DOMAIN stack[t] : n[i] = stack[t][i]
  <2>1. Len(n) = Len(stack[t]) + 1
    BY <1>1, <1>2, <1>4, Pushed
  <2> QED BY <1>1, <1>2, <1>4, <2>1, Pushed
<1>6. /\ res' = [res EXCEPT ![k] = InFlight(t)] /\ live' = [live EXCEPT ![k] = @ + 1]
      /\ waiting' = [waiting EXCEPT ![t] = None] /\ stack' = [stack EXCEPT ![t] = n]
      /\ mode' = [mode EXCEPT ![t] = "run"] /\ want' = [want EXCEPT ![t] = None]
      /\ UNCHANGED <<cached, pending, harvested, results>> /\ UNCHANGED driver
  BY <1>1 DEF Own, Unparked, session, f
<1>7. StepOf(t, n)
  <2>1. ThreadTrue("run", None, None, n) /\ "run" \in Modes
    BY <1>5 DEF ThreadTrue, Modes
  <2> QED BY <1>2, <1>5, <1>6, <2>1, StepIs
<1>8. /\ res' \in ResType /\ res'[k] = InFlight(t) /\ \A j \in Keys \ {k} : res'[j] = res[j]
      /\ live' \in [Keys -> Nat] /\ live'[k] = live[k] + 1 /\ \A j \in Keys \ {k} : live'[j] = live[j]
  BY <1>2, <1>6 DEF Typed, TypeOK, ResType
<1>9. Typed'
  <2>1. Grounded(n)
    <3>1. CASE stack[t] = <<>>
      <4>1. Len(n) = 1
        BY <1>5, <3>1, EmptySeq
      <4> QED BY <1>3, <1>4, <1>5, <3>1, <4>1 DEF Grounded
    <3>2. CASE stack[t] # <<>>
      BY <1>2, <1>5, <3>2, Stacked DEF Grounded
    <3> QED BY <3>1, <3>2
  <2>2. cached' \in [Bzls -> Nat]
    BY <1>2, <1>6 DEF Typed, TypeOK
  <2>3. DataTyped
    BY <1>6, <1>8, <2>2, SessionTyped DEF DataTyped
  <2> QED BY <1>2, <1>7, <2>1, <2>3, TypedKept
<1>10. Books'
  <2>1. ASSUME NEW j \in Counted \ {k}
        PROVE  BookTrue(j)'
    <3>1. j \in Keys \ {k}
      BY DEF Counted, Leaf, Keys
    <3>2. EvalsAt(n, j) = EvalsAt(stack[t], j)
      BY <1>4, <1>5 DEF EvalsAt
    <3> QED BY <1>2, <1>7, <1>8, <3>1, <3>2, BookKept
  <2>2. ASSUME k \in Counted PROVE BookTrue(k)'
    <3>1. PICK e : e = <<t, Len(n)>>
      OBVIOUS
    <3>2. EvalsAt(n, k) = EvalsAt(stack[t], k) \cup {Len(n)} /\ Len(n) \notin EvalsAt(stack[t], k)
      BY <1>4, <1>5 DEF EvalsAt
    <3>3. stack'[t] = n /\ \A u \in Threads \ {t} : stack'[u] = stack[u]
      BY <1>2, <1>7, StackOf DEF StepOf
    <3>4. Evaluations(k)' = Evaluations(k) \cup {e} /\ e \notin Evaluations(k)
      BY <3>1, <3>2, <3>3 DEF Evaluations
    <3>5. PICK E, F : E = Evaluations(k) /\ F = Evaluations(k)'
      OBVIOUS
    <3>6. BookTrue(k)
      BY <1>2, <2>2 DEF Books
    <3>7. IsFiniteSet(E) /\ live[k] = Cardinality(E) /\ Cardinality(E) \in Nat
      BY <3>5, <3>6, FS_CardinalityType DEF BookTrue
    <3>8. IsFiniteSet(F) /\ live'[k] = Cardinality(F)
      <4>1. F = E \cup {e} /\ e \notin E
        BY <3>4, <3>5
      <4>2. IsFiniteSet(E \cup {e}) /\ Cardinality(E \cup {e}) = Cardinality(E) + 1
        BY <3>7, <4>1, FS_AddElement
      <4> QED BY <1>8, <3>7, <4>1, <4>2
    <3>9. ~Timeouts' => SoleOwner(k)'
      <4> SUFFICES ASSUME ~Timeouts' PROVE SoleOwner(k)'
        OBVIOUS
      <4>1. E = {} /\ F = {e}
        BY <1>7, <2>2, <3>4, <3>5, Constants DEF StepOf
      <4> QED BY <1>8, <3>1, <3>5, <4>1 DEF SoleOwner, InFlight
    <3>10. res'[k] # Absent
      BY <1>8 DEF InFlight, Absent
    <3> QED BY <3>5, <3>8, <3>9, <3>10 DEF BookTrue, Absent
  <2>3. Counted' = Counted
    BY <1>7, Constants DEF StepOf
  <2> QED BY <2>1, <2>2, <2>3 DEF Books
<1>11. Modules'
  <2>1. \A b \in Bzls : cached[b] \in Nat /\ cached[b] >= cached[b]
    BY <1>2 DEF Typed, TypeOK
  <2>2. \A b \in Bzls : /\ res'[b] = Done => res[b] = Done
                        /\ res'[b] = Absent => res[b] = Absent
    BY <1>8 DEF InFlight, Done, Absent, Keys
  <2>3. /\ \A b \in Bzls : res'[b] = Done => cached[b] > 0
        /\ \A b \in Leaf : cached[b] <= 1 /\ (res'[b] = Absent => cached[b] = 0)
    BY <1>2, <2>2 DEF Modules, DoneIsCached, CachedOnce, Leaf
  <2>4. ASSUME NEW i \in DOMAIN n
        PROVE  /\ n[i].key \in Bzls /\ n[i].stage = "frozen" => cached[n[i].key] > 0
               /\ n[i].key \in Leaf => i = Len(n) /\ mode'[t] = "run" /\ LeafTrue(n[i], cached)
    <3>1. CASE i = Len(n)
      <4>1. mode'[t] = "run"
        BY <1>2, <1>6 DEF Typed, TypeOK
      <4>2. k \in Leaf => LeafTrue(f, cached)
        BY <1>4 DEF LeafTrue, Leaf
      <4> QED BY <1>4, <1>5, <3>1, <4>1, <4>2
    <3>2. CASE i # Len(n)
      BY <1>2, <1>5, <3>2 DEF Modules, FrozenIsCached, NoLeaf
    <3> QED BY <3>1, <3>2
  <2> QED BY <1>2, <1>6, <1>7, <2>1, <2>3, <2>4, ModulesKept
<1>12. NoProxyLeak'
  <2> SUFFICES ASSUME NEW c \in Decls, res'[c].st = "inflight" PROVE res'[PkgOf[c]].st = "inflight"
    BY DEF NoProxyLeak, Owned
  <2>1. res'[c] = res[c] /\ PkgOf[c] \in Keys
    BY <1>8, NotCounted, ProgramAssumption DEF Keys
  <2>2. res[PkgOf[c]].st = "inflight"
    BY <2>1 DEF WaitInv, NoProxyLeak, Owned
  <2> QED BY <1>8, <2>1, <2>2 DEF InFlight
<1>13. DriverTrue'
  <2>1. mode[t] \notin {"idle", "done"}
    OBVIOUS
  <2> QED BY <1>6, <1>7, <2>1, DriverKept DEF WaitInv
<1> QED BY <1>9, <1>10, <1>11, <1>12, <1>13 DEF WaitInv

(* Who claims a module that loads nothing evaluates it, and runs. *)
LEMMA LeafOwner ==
  ASSUME WaitInv, NEW k \in Leaf, Owned(k)
  PROVE  \E o \in Threads : res[k] = InFlight(o) /\ mode[o] = "run" /\ waiting[o] = None
<1>1. Typed /\ Modules /\ SoleOwner(k)
  BY DEF WaitInv, Books, BookTrue, Counted, Leaf
<1>2. PICK e \in Evaluations(k) : res[k] = InFlight(e[1])
  BY <1>1 DEF SoleOwner
<1>3. PICK o \in Threads : \E i \in EvalsAt(stack[o], k) : e = <<o, i>>
  BY <1>2 DEF Evaluations
<1>4. PICK i \in DOMAIN stack[o] : stack[o][i].key = k /\ e = <<o, i>>
  BY <1>3 DEF EvalsAt
<1> QED BY <1>1, <1>2, <1>4 DEF Modules, LeavesInnermost, Typed, ThreadTrue

(* Whoever evaluates a module that loads nothing waits for nobody, so the  *)
(* chain of waits ends at it.                                              *)
LEMMA NoCycleAtLeaf ==
  ASSUME WaitInv, NEW t \in Threads, NEW k \in Leaf
  PROVE  ~CycleAt(t, k)
<1> SUFFICES ASSUME CycleAt(t, k) PROVE FALSE
  OBVIOUS
<1>1. Typed
  BY DEF WaitInv
<1>2. Owned(k) /\ res[k].owner # t /\ Chain(t, res[k].owner) # {}
  BY DEF CycleAt
<1>4. PICK o \in Threads : res[k] = InFlight(o) /\ waiting[o] = None
  BY <1>2, LeafOwner
<1>6. res[k].owner = o /\ o # t
  BY <1>2, <1>4 DEF InFlight
<1>7. PICK w : w = Unparked(t)
  OBVIOUS
<1>8. w[o] = None
  BY <1>1, <1>4, <1>6, <1>7 DEF Unparked, Typed, TypeOK
<1>9. t \in Onward(o, w)
  BY <1>2, <1>6, <1>7 DEF Chain, walk_cycle_kind
<1>10. o \in {o} /\ \A v \in {o} : w[v] # None /\ Owned(w[v]) => res[w[v]].owner \in {o}
  BY <1>8
<1>11. {o} \in SUBSET Threads
  OBVIOUS
<1>12. t \in {o}
  BY <1>9, <1>10, <1>11 DEF Onward
<1> QED BY <1>6, <1>12

LEMMA AcquireOwnKeeps ==
  ASSUME WaitInv, NEW t \in Threads, AcquireOwn(t)
  PROVE  WaitInv'
<1>1. PICK k : k = want[t]
  OBVIOUS
<1>2. /\ Typed /\ Books /\ Modules /\ mode[t] = "acquire" /\ k \notin Decls
      /\ res[k] = Absent \/ (k \in Bzls /\ CycleAt(t, k))
      /\ Own(t, k) /\ workspace' = workspace
  BY <1>1 DEF WaitInv, AcquireOwn, Acquiring, hist
<1>3. k \in Pkgs \cup Bzls
  BY <1>1, <1>2 DEF Typed, ThreadTrue, Keys
<1>4. k \in Counted /\ ~Timeouts => res[k] = Absent
  <2>1. k \in Counted /\ k \in Bzls => k \in Leaf
    BY ProgramAssumption DEF Counted
  <2> QED BY <1>2, <2>1, NoCycleAtLeaf
<1>5. k \in Counted /\ ~Timeouts => Evaluations(k) = {}
  BY <1>2, <1>4 DEF Books, BookTrue
<1>6. k \in Leaf => cached[k] = 0
  BY <1>2, <1>4 DEF Modules, CachedOnce, Counted, Leaf
<1> QED BY <1>1, <1>2, <1>3, <1>5, <1>6, OwnKeeps

LEMMA TakeoverKeeps ==
  ASSUME WaitInv, NEW t \in Threads, TimeoutTakeover(t)
  PROVE  WaitInv'
<1>1. PICK k : k = waiting[t]
  OBVIOUS
<1>2. Typed /\ Timeouts /\ k # None /\ k \notin Decls /\ Own(t, k) /\ workspace' = workspace
  BY <1>1 DEF WaitInv, TimeoutTakeover
<1>3. mode[t] \in {"acquire", "parked"} /\ want[t] = k /\ k \in Keys
  BY <1>1, <1>2 DEF Typed, TypeOK, ThreadTrue
<1>4. k \in Pkgs \cup Bzls /\ k \notin Leaf
  BY <1>2, <1>3 DEF Keys, Leaf
<1> QED BY <1>2, <1>3, <1>4, OwnKeeps

LEMMA ReentryKeeps ==
  ASSUME WaitInv, NEW t \in Threads, AcquireReentryBzl(t)
  PROVE  WaitInv'
<1>1. PICK k, n : k = want[t] /\ n = Append(stack[t], Entered(t, k))
  OBVIOUS
<1>2. /\ Typed /\ Books /\ Modules /\ mode[t] = "acquire" /\ k \in Bzls /\ res[k] = InFlight(t)
      /\ stack' = [stack EXCEPT ![t] = n] /\ mode' = [mode EXCEPT ![t] = "run"]
      /\ want' = [want EXCEPT ![t] = None] /\ waiting' = [waiting EXCEPT ![t] = None]
      /\ UNCHANGED <<res, live, cached, pending, harvested, results, workspace>> /\ UNCHANGED driver
  <2>1. /\ Typed /\ Books /\ Modules /\ mode[t] = "acquire" /\ k \in Bzls /\ res[k] = InFlight(t)
    BY <1>1 DEF WaitInv, AcquireReentryBzl, Acquiring
  <2>2. /\ stack' = [stack EXCEPT ![t] = n] /\ mode' = [mode EXCEPT ![t] = "run"]
        /\ want' = [want EXCEPT ![t] = None] /\ waiting' = [waiting EXCEPT ![t] = None]
    BY <1>1 DEF AcquireReentryBzl, Unparked
  <2>3. /\ UNCHANGED <<res, live, cached, pending, harvested, results, workspace>> /\ UNCHANGED driver
    BY DEF AcquireReentryBzl, session, hist
  <2> QED BY <2>1, <2>2, <2>3
<1>3. k \notin Leaf
  <2> SUFFICES ASSUME k \in Leaf PROVE FALSE
    OBVIOUS
  <2>0. Owned(k)
    BY <1>2 DEF Owned, InFlight
  <2>1. PICK o \in Threads : res[k] = InFlight(o) /\ mode[o] = "run"
    BY <2>0, LeafOwner
  <2> QED BY <1>2, <2>1 DEF InFlight
<1>4. k \in Keys /\ k \notin Counted /\ stack[t] \in Seq(FrameType)
  BY <1>2, <1>3, ProgramAssumption DEF Counted, Keys, Typed
<1>5. stack[t] # <<>>
  BY <1>1, <1>2, ProgramAssumption DEF Typed, ThreadTrue
<1>6. Entered(t, k) \in FrameType /\ Entered(t, k).key = k /\ Entered(t, k).stage = "look"
  BY <1>4, NewFrame DEF Entered
<1>7. Quiet(stack[t], n) /\ n # <<>>
  BY <1>1, <1>4, <1>5, <1>6, QuietPush, Pushed
<1>8. ThreadTrue("run", None, None, n) /\ "run" \in Modes
  BY <1>7 DEF ThreadTrue, Modes
<1> QED BY <1>2, <1>7, <1>8, WaitOver

-----------------------------------------------------------------------------
(* Releases: the evaluation on top of a stack ends. *)
LEMMA TopEvaluation ==
  ASSUME WaitInv, NEW t \in Threads, mode[t] = "run", NEW k \in Counted, k = Top(t).key
  PROVE  /\ <<t, Len(stack[t])>> \in Evaluations(k) /\ IsFiniteSet(Evaluations(k))
         /\ live[k] = Cardinality(Evaluations(k)) /\ live[k] \in Nat \ {0} /\ res[k] # Absent
         /\ ~Timeouts => /\ res[k] = InFlight(t) /\ live[k] = 1
                         /\ Evaluations(k) = {<<t, Len(stack[t])>>}
<1>1. PICK e : e = <<t, Len(stack[t])>>
  OBVIOUS
<1>2. Typed /\ BookTrue(k)
  BY DEF WaitInv, Books
<1>3. e \in Evaluations(k)
  BY <1>1, <1>2, RunningTop, EvaluationAt DEF EvalsAt
<1>4. PICK E : E = Evaluations(k)
  OBVIOUS
<1>5. IsFiniteSet(E) /\ live[k] = Cardinality(E) /\ Cardinality(E) \in Nat /\ E # {}
  BY <1>2, <1>3, <1>4, FS_CardinalityType DEF BookTrue
<1>6. Cardinality(E) # 0
  BY <1>5, FS_EmptySet
<1>7. res[k] # Absent
  BY <1>2, <1>3 DEF BookTrue
<1>8. ASSUME ~Timeouts PROVE res[k] = InFlight(t) /\ live[k] = 1 /\ E = {e}
  <2>1. res[k] = InFlight(e[1]) /\ E = {e}
    BY <1>2, <1>3, <1>4, <1>8 DEF BookTrue, SoleOwner
  <2>2. live[k] = 1
    BY <1>5, <2>1, FS_Singleton
  <2> QED BY <1>1, <2>1, <2>2
<1> QED BY <1>1, <1>3, <1>4, <1>5, <1>6, <1>7, <1>8

LEMMA Popping ==
  ASSUME Typed, NEW t \in Threads, mode[t] = "run",
         NEW k, NEW ok \in BOOLEAN, NEW s, s = Front(stack[t]),
         NEW n, n = Returned(s, k, ok), stack' = [stack EXCEPT ![t] = n],
         NEW m \in {"purge", ModeAfter(s, ok)}, mode' = [notify_all(mode) EXCEPT ![t] = m],
         NEW w \in Keys \cup {None}, want' = [want EXCEPT ![t] = w],
         UNCHANGED <<waiting, workspace>>
  PROVE  StepOf(t, n)
<1>1. stack[t] \in Seq(FrameType) /\ stack[t] # <<>>
  BY RunningTop
<1>2. s \in Seq(FrameType)
  BY <1>1, Popped
<1>3. Quiet(s, n) /\ n \in Seq(FrameType) /\ (n = <<>> <=> s = <<>>)
  BY <1>2, QuietReturned DEF Quiet
<1>4. waiting' = [waiting EXCEPT ![t] = None]
  BY DEF Typed, TypeOK, ThreadTrue
<1>5. m \in Modes /\ ThreadTrue(m, w, None, n)
  BY <1>3 DEF ThreadTrue, ModeAfter, Modes
<1> QED BY <1>3, <1>4, <1>5, WakingStep

LEMMA FinishKeeps ==
  ASSUME WaitInv, NEW t \in Threads, mode[t] = "run", NEW k \in Pkgs \cup Bzls, k = Top(t).key,
         NEW ok \in BOOLEAN, NEW n, n = Returned(Front(stack[t]), k, ok), StepOf(t, n),
         UNCHANGED <<cached, pending, harvested, results>>, UNCHANGED driver,
         live' = Less1(k), res' \in ResType, \A j \in (Pkgs \cup Bzls) \ {k} : res'[j] = res[j],
         k \in Counted /\ live[k] > 1 => res'[k] # Absent,
         k \in Counted /\ ~Timeouts => res'[k].st # "inflight",
         k \in Bzls /\ res'[k] = Done => cached[k] > 0,
         k \in Leaf /\ res'[k] = Absent => cached[k] = 0,
         NoProxyLeak'
  PROVE  WaitInv'
<1>1. Typed /\ Modules /\ Books /\ Grounded(stack[t]) /\ k \in Keys
  BY DEF WaitInv, Typed, Keys
<1>2. /\ stack[t] \in Seq(FrameType) /\ stack[t] # <<>> /\ Last(stack[t]) = Top(t)
      /\ Len(stack[t]) \in DOMAIN stack[t] /\ stack[t][Len(stack[t])] = Top(t)
  BY <1>1, RunningTop DEF Top
<1>3. PICK s : s = Front(stack[t])
  OBVIOUS
<1>4. /\ s \in Seq(FrameType) /\ DOMAIN s = DOMAIN stack[t] \ {Len(stack[t])}
      /\ \A i \in DOMAIN s : s[i] = stack[t][i]
  BY <1>2, <1>3, Popped
<1>5. Quiet(s, n) /\ n \in Seq(FrameType) /\ (n = <<>> <=> s = <<>>)
  BY <1>3, <1>4, QuietReturned DEF Quiet
<1>6. Grounded(n)
  <2>1. Grounded(s)
    <3> SUFFICES ASSUME s # <<>> PROVE s[1].key \in Pkgs
      BY DEF Grounded
    <3>1. 1 \in DOMAIN s
      <4>1. s \in Seq(FrameType)
        BY <1>4
      <4>2. Len(s) \in Nat \ {0} /\ DOMAIN s = 1..Len(s)
        BY <4>1, Stacked
      <4> QED BY <4>2
    <3>2. s[1] = stack[t][1] /\ stack[t][1].key \in Pkgs
      BY <1>1, <1>2, <1>4, <3>1 DEF Grounded
    <3> QED BY <3>2
  <2> QED BY <1>4, <1>5, <2>1, QuietGrounded
<1>8. /\ live' \in [Keys -> Nat] /\ \A j \in Keys \ {k} : live'[j] = live[j]
      /\ live[k] \in Nat \ {0} => live'[k] = live[k] - 1
  BY <1>1 DEF Less1, Typed, TypeOK
<1>9. Typed'
  <2>1. DataTyped
    BY <1>1, <1>8, SessionTyped DEF DataTyped, Typed, TypeOK
  <2> QED BY <1>1, <1>6, <2>1, TypedKept
<1>10. Books'
  <2>1. ASSUME NEW j \in Counted \ {k}
        PROVE  BookTrue(j)'
    <3>1. j \in Keys \ {k} /\ j \in (Pkgs \cup Bzls) \ {k}
      BY DEF Counted, Leaf, Keys
    <3>2. EvalsAt(s, j) = EvalsAt(stack[t], j)
      BY <1>2, <1>4 DEF EvalsAt
    <3>3. EvalsAt(n, j) = EvalsAt(s, j)
      BY <1>5 DEF Quiet
    <3>4. EvalsAt(n, j) = EvalsAt(stack[t], j) /\ live'[j] = live[j] /\ res'[j] = res[j]
      BY <1>8, <3>1, <3>2, <3>3
    <3> QED BY <1>1, <3>4, BookKept
  <2>2. ASSUME k \in Counted PROVE BookTrue(k)'
    <3>1. PICK e : e = <<t, Len(stack[t])>>
      OBVIOUS
    <3>2. PICK E, F : E = Evaluations(k) /\ F = Evaluations(k)'
      OBVIOUS
    <3>3. /\ e \in E /\ IsFiniteSet(E) /\ live[k] = Cardinality(E) /\ live[k] \in Nat \ {0}
          /\ ~Timeouts => E = {e}
      BY <2>2, <3>1, <3>2, TopEvaluation
    <3>4. EvalsAt(n, k) = EvalsAt(stack[t], k) \ {Len(stack[t])}
      <4>1. EvalsAt(n, k) = EvalsAt(s, k)
        BY <1>5, <2>2 DEF Quiet
      <4>2. EvalsAt(s, k) = EvalsAt(stack[t], k) \ {Len(stack[t])}
        BY <1>4 DEF EvalsAt
      <4> QED BY <4>1, <4>2
    <3>5. stack'[t] = n /\ \A u \in Threads \ {t} : stack'[u] = stack[u]
      BY <1>1, StackOf DEF StepOf
    <3>6. F = E \ {e}
      BY <3>1, <3>2, <3>4, <3>5 DEF Evaluations
    <3>7. IsFiniteSet(F) /\ Cardinality(F) = live[k] - 1 /\ live'[k] = Cardinality(F)
      BY <1>8, <3>3, <3>6, FS_RemoveElement
    <3>8. F # {} => res'[k] # Absent
      <4> SUFFICES ASSUME F # {} PROVE live[k] > 1
        BY <2>2
      <4>1. Cardinality(F) # 0
        BY <3>7, FS_EmptySet
      <4> QED BY <3>3, <3>7, <4>1
    <3>9. ~Timeouts' => SoleOwner(k)'
      <4> SUFFICES ASSUME ~Timeouts' PROVE SoleOwner(k)'
        OBVIOUS
      <4>1. ~Timeouts
        BY Constants DEF StepOf
      <4>2. F = {} /\ res'[k].st # "inflight"
        BY <2>2, <3>3, <3>6, <4>1
      <4> QED BY <3>2, <4>2 DEF SoleOwner, Owned
    <3> QED BY <3>2, <3>7, <3>8, <3>9 DEF BookTrue, Absent
  <2>3. Counted' = Counted
    BY Constants DEF StepOf
  <2> QED BY <2>1, <2>2, <2>3 DEF Books
<1>11. Modules'
  <2>1. \A b \in Bzls : cached[b] \in Nat /\ cached[b] >= cached[b]
    BY <1>1 DEF Typed, TypeOK
  <2>2. /\ \A b \in Bzls : res'[b] = Done => cached[b] > 0
        /\ \A b \in Leaf : cached[b] <= 1 /\ (res'[b] = Absent => cached[b] = 0)
    <3>1. ASSUME NEW b \in Bzls PROVE res'[b] = Done => cached[b] > 0
      BY <1>1 DEF Modules, DoneIsCached
    <3>2. ASSUME NEW b \in Leaf PROVE cached[b] <= 1 /\ (res'[b] = Absent => cached[b] = 0)
      BY <1>1 DEF Modules, CachedOnce, Leaf
    <3> QED BY <3>1, <3>2
  <2>3. ASSUME NEW i \in DOMAIN n, n[i].key \in Bzls, n[i].stage = "frozen"
        PROVE  cached[n[i].key] > 0
    <3>1. PICK j \in DOMAIN s : s[j].key = n[i].key /\ s[j].stage = "frozen"
      BY <1>5, <2>3 DEF Quiet
    <3>2. j \in DOMAIN stack[t] /\ stack[t][j].key = n[i].key /\ stack[t][j].stage = "frozen"
      BY <1>4, <3>1
    <3> QED BY <1>1, <2>3, <3>2 DEF Modules, FrozenIsCached
  <2>4. ASSUME NEW i \in DOMAIN n PROVE n[i].key \notin Leaf
    <3> SUFFICES ASSUME n[i].key \in Leaf PROVE FALSE
      OBVIOUS
    <3>1. i \in EvalsAt(s, n[i].key)
      BY <1>5 DEF Quiet, EvalsAt, Counted
    <3>2. i \in DOMAIN stack[t] /\ i # Len(stack[t]) /\ stack[t][i].key \in Leaf
      BY <1>4, <3>1 DEF EvalsAt
    <3> QED BY <1>1, <3>2 DEF Modules, LeavesInnermost
  <2> QED BY <1>1, <2>1, <2>2, <2>3, <2>4, ModulesKept
<1>12. DriverTrue'
  BY DriverKept DEF WaitInv
<1> QED BY <1>9, <1>10, <1>11, <1>12 DEF WaitInv

(* The sweep of a package's proxies, as its claim changes. *)
LEMMA SweepKeeps ==
  ASSUME WaitInv, NEW k \in Pkgs \cup Bzls, NEW r \in ResType,
         \A j \in Keys \ {k} : r[j] = res[j], res' = Swept(r, k)
  PROVE  /\ res' \in ResType /\ res'[k] = r[k] /\ NoProxyLeak'
         /\ \A j \in (Pkgs \cup Bzls) \ {k} : res'[j] = res[j]
<1>1. res' \in ResType
  BY DEF Swept, ResType
<1>2. \A j \in Pkgs \cup Bzls : res'[j] = r[j]
  BY ProgramAssumption DEF Swept, Keys
<1>3. NoProxyLeak'
  <2> SUFFICES ASSUME NEW c \in Decls, res'[c].st = "inflight" PROVE res'[PkgOf[c]].st = "inflight"
    BY DEF NoProxyLeak, Owned
  <2>1. PkgOf[c] \in Pkgs /\ c \in Keys \ {k}
    BY NotCounted, ProgramAssumption
  <2>2. r[c].st = "inflight" /\ ~(PkgOf[c] = k /\ k \in Pkgs)
    BY <2>1 DEF Swept, Absent
  <2>3. res[PkgOf[c]].st = "inflight" /\ PkgOf[c] # k
    BY <2>1, <2>2 DEF WaitInv, NoProxyLeak, Owned
  <2>4. PkgOf[c] \in Keys
    BY <2>1 DEF Keys
  <2> QED BY <1>2, <2>1, <2>3, <2>4
<1> QED BY <1>1, <1>2, <1>3 DEF Keys

LEMMA FinishOkKeeps ==
  ASSUME WaitInv, NEW t \in Threads, FinishOk(t)
  PROVE  WaitInv'
<1>1. PICK k, s, n, m, r : /\ k = Top(t).key /\ s = Front(stack[t]) /\ n = Returned(s, k, TRUE)
                           /\ m = ModeAfter(s, TRUE) /\ r = [res EXCEPT ![k] = Done]
  OBVIOUS
<1>2. /\ Typed /\ Modules /\ mode[t] = "run" /\ k \notin Decls /\ Top(t).stage = "frozen"
  BY <1>1 DEF WaitInv, FinishOk, Ended, Running
<1>3. /\ stack[t] \in Seq(FrameType) /\ stack[t] # <<>> /\ Top(t) \in FrameType
      /\ Len(stack[t]) \in DOMAIN stack[t] /\ stack[t][Len(stack[t])] = Top(t)
  BY <1>2, RunningTop
<1>4. k \in Pkgs \cup Bzls
  BY <1>1, <1>2, <1>3 DEF FrameType, Keys
<1>5. /\ live' = Less1(k) /\ res' = Swept(r, k) /\ stack' = [stack EXCEPT ![t] = n]
      /\ want' = [want EXCEPT ![t] = None] /\ mode' = [notify_all(mode) EXCEPT ![t] = m]
  BY <1>1 DEF FinishOk, Return
<1>6. /\ UNCHANGED <<waiting, workspace, cached, pending, harvested, results>> /\ UNCHANGED driver
  BY DEF FinishOk, session, hist
<1>7. r \in ResType /\ r[k] = Done /\ \A j \in Keys \ {k} : r[j] = res[j]
  BY <1>1, <1>2, <1>4 DEF Typed, TypeOK, ResType, Keys
<1>8. /\ res' \in ResType /\ res'[k] = Done /\ NoProxyLeak'
      /\ \A j \in (Pkgs \cup Bzls) \ {k} : res'[j] = res[j]
  BY <1>4, <1>5, <1>7, SweepKeeps
<1>9. k \in Bzls => cached[k] > 0
  BY <1>1, <1>2, <1>3 DEF Modules, FrozenIsCached
<1>10. StepOf(t, n)
  BY <1>1, <1>2, <1>5, <1>6, Popping
<1>11. res'[k] # Absent /\ res'[k].st # "inflight"
  BY <1>8 DEF Done, Absent
<1>12. n = Returned(Front(stack[t]), k, TRUE) /\ k = Top(t).key
  BY <1>1
<1> QED BY <1>2, <1>4, <1>5, <1>6, <1>8, <1>9, <1>10, <1>11, <1>12, FinishKeeps

LEMMA FinishErrKeeps ==
  ASSUME WaitInv, NEW t \in Threads, FinishErr(t)
  PROVE  WaitInv'
<1>1. PICK k, s, n : k = Top(t).key /\ s = Front(stack[t]) /\ n = Returned(s, k, FALSE)
  OBVIOUS
<1>2. PICK m, w, r :
        /\ m = (IF MayPurge(k) /\ k \in Pkgs THEN "purge" ELSE ModeAfter(s, FALSE))
        /\ w = (IF MayPurge(k) /\ k \in Pkgs THEN k ELSE None)
        /\ r = (IF MayPurge(k) THEN [res EXCEPT ![k] = Outcome(Top(t))] ELSE res)
  OBVIOUS
<1>3. /\ Typed /\ Modules /\ mode[t] = "run" /\ k \notin Decls /\ Top(t).failed
  BY <1>1 DEF WaitInv, FinishErr
<1>4. stack[t] \in Seq(FrameType) /\ stack[t] # <<>> /\ Top(t) \in FrameType
  BY <1>3, RunningTop
<1>5. k \in Pkgs \cup Bzls /\ k \in Keys
  BY <1>1, <1>3, <1>4 DEF FrameType, Keys
<1>6. /\ live' = Less1(k) /\ res' = Swept(r, k) /\ stack' = [stack EXCEPT ![t] = n]
      /\ want' = [want EXCEPT ![t] = w] /\ mode' = [notify_all(mode) EXCEPT ![t] = m]
  BY <1>1, <1>2 DEF FinishErr
<1>7. /\ UNCHANGED <<waiting, workspace, cached, pending, harvested, results>> /\ UNCHANGED driver
  BY DEF FinishErr, session, hist
<1>8. Outcome(Top(t)) \in {Absent, Failed}
  BY DEF Outcome
<1>9. /\ r \in ResType /\ \A j \in Keys \ {k} : r[j] = res[j]
      /\ IF MayPurge(k) THEN r[k] \in {Absent, Failed} ELSE r[k] = res[k]
  BY <1>2, <1>3, <1>5, <1>8 DEF Typed, TypeOK, ResType
<1>10. /\ res' \in ResType /\ res'[k] = r[k] /\ NoProxyLeak'
       /\ \A j \in (Pkgs \cup Bzls) \ {k} : res'[j] = res[j]
  BY <1>5, <1>6, <1>9, SweepKeeps
<1>11. StepOf(t, n)
  <2>1. m \in {"purge", ModeAfter(s, FALSE)} /\ w \in Keys \cup {None}
    BY <1>2, <1>5
  <2> QED BY <1>1, <1>3, <1>6, <1>7, <2>1, Popping
<1>12. live[k] \in Nat \ {0} => Less1(k)[k] = live[k] - 1
  BY <1>3, <1>5 DEF Less1, Typed, TypeOK
<1>13. k \in Counted /\ live[k] > 1 => res'[k] # Absent
  <2> SUFFICES ASSUME k \in Counted, live[k] > 1 PROVE res'[k] # Absent
    OBVIOUS
  <2>1. live[k] \in Nat \ {0} /\ res[k] # Absent
    BY <1>1, <1>3, TopEvaluation
  <2>2. ~MayPurge(k)
    BY <1>1, <1>12, <2>1 DEF MayPurge
  <2> QED BY <1>9, <1>10, <2>1, <2>2
<1>14. k \in Counted /\ ~Timeouts => MayPurge(k)
  <2> SUFFICES ASSUME k \in Counted, ~Timeouts PROVE MayPurge(k)
    OBVIOUS
  <2>1. live[k] = 1 /\ res[k] = InFlight(t)
    BY <1>1, <1>3, TopEvaluation
  <2> QED BY <1>1, <1>12, <2>1 DEF MayPurge, InFlight, Done
<1>15. k \in Counted /\ ~Timeouts => res'[k].st # "inflight"
  BY <1>9, <1>10, <1>14 DEF Absent, Failed
<1>16. k \in Bzls /\ res'[k] = Done => cached[k] > 0
  BY <1>3, <1>9, <1>10 DEF Modules, DoneIsCached, Absent, Failed, Done
<1>17. k \in Leaf /\ res'[k] = Absent => cached[k] = 0
  BY <1>1, <1>3, LeafTop DEF LeafTrue
<1>18. n = Returned(Front(stack[t]), k, FALSE) /\ k = Top(t).key
  BY <1>1
<1>19. mode[t] = "run"
  BY <1>3
<1> QED BY <1>5, <1>6, <1>7, <1>10, <1>11, <1>13, <1>15, <1>16, <1>17, <1>18, <1>19, FinishKeeps

-----------------------------------------------------------------------------
(* The invariant holds to begin with and every step keeps it. *)
LEMMA InitClaims == Init => WaitInv
<1> SUFFICES ASSUME Init PROVE WaitInv
  OBVIOUS
<1> USE DEF Init
<1>1. /\ stack \in [Threads -> Seq(FrameType)] /\ want \in [Threads -> Keys \cup {None}]
      /\ waiting \in [Threads -> Keys \cup {None}] /\ workspace \in Workspaces
      /\ mode \in [Threads -> {"idle", "done"}]
  <2>1. <<>> \in Seq(FrameType)
    BY EmptySeq
  <2> QED BY <2>1
<1>2. \A t \in Threads : stack[t] = <<>> /\ waiting[t] = None /\ mode[t] \in {"idle", "done"}
  OBVIOUS
<1>3. TypeOK
  BY <1>1, <1>2 DEF TypeOK
<1>4. Typed
  <2>1. \A t \in Threads : ThreadTrue(mode[t], want[t], waiting[t], stack[t]) /\ Grounded(stack[t])
    BY <1>2 DEF ThreadTrue, Grounded
  <2> QED BY <1>1, <1>3, <2>1 DEF Typed
<1>5. \A t \in Threads : DOMAIN stack[t] = {}
  BY <1>2
<1>6. Books
  <2> SUFFICES ASSUME NEW k \in Counted PROVE BookTrue(k)
    BY DEF Books
  <2>1. Evaluations(k) = {}
    BY <1>5 DEF Evaluations, EvalsAt
  <2>2. k \in Keys
    BY DEF Counted, Leaf, Keys
  <2> QED BY <2>1, <2>2, FS_EmptySet DEF BookTrue, SoleOwner, Owned, Absent
<1>7. Modules
  <2>1. FrozenIsCached /\ LeavesInnermost
    BY <1>5 DEF FrozenIsCached, LeavesInnermost
  <2>2. DoneIsCached /\ CachedOnce
    BY DEF DoneIsCached, CachedOnce, Leaf, Keys, Absent, Done
  <2> QED BY <2>1, <2>2 DEF Modules
<1>8. NoProxyLeak
  BY DEF NoProxyLeak, Owned, Absent, Keys
<1>9. DriverTrue
  BY <1>2 DEF DriverTrue, Driving
<1> QED BY <1>4, <1>6, <1>7, <1>8, <1>9 DEF WaitInv

LEMMA WorkKeeps ==
  ASSUME WaitInv, NEW t \in Threads, Work(t)
  PROVE  WaitInv'
<1>1. CASE NextEntry(t) \/ EntryDone(t) \/ LoadStep(t) \/ DeclareStep(t) \/ DriveStep(t)
  BY <1>1, NextEntryKeeps, EntryDoneKeeps, LoadKeeps, DeclareKeeps, DriveKeeps
<1>2. CASE \/ NeedLook(t) \/ NeedLoaded(t) \/ NeedDeferred(t) \/ NeedAgain(t)
           \/ record_target(t) \/ DeclFailed(t)
  BY <1>2, NeedLookKeeps, NeedLoadedKeeps, NeedDeferredKeeps, NeedAgainKeeps, RecordKeeps,
     DeclFailedKeeps
<1>3. CASE \/ AcquireReady(t) \/ AcquireFailed(t) \/ CycleProceed(t) \/ AcquireOwn(t)
           \/ AcquireReentryBzl(t) \/ AcquirePark(t)
  BY <1>3, AcquireEndsKeeps, AcquireOwnKeeps, ReentryKeeps, AcquireParkKeeps
<1>4. CASE WaitPrecheck(t) \/ WaitPublished(t) \/ WaitProceeds(t) \/ WaitParks(t)
  BY <1>4, WaitPrecheckKeeps, WaitEndingsKeep, WaitParksKeeps
<1>5. CASE Harvest(t) \/ FinishOk(t) \/ FinishErr(t) \/ purge_partial_package(t)
  BY <1>5, HarvestKeeps, FinishOkKeeps, FinishErrKeeps, PurgeKeeps
<1>6. CASE t = Main /\ (Restart \/ RestartDone)
  BY <1>6, RestartKeeps, EntryDoneKeeps
<1> QED BY <1>1, <1>2, <1>3, <1>4, <1>5, <1>6 DEF Work

LEMMA NextClaims == WaitInv /\ [Next]_vars => WaitInv'
<1> SUFFICES ASSUME WaitInv, [Next]_vars PROVE WaitInv'
  OBVIOUS
<1>1. CASE UNCHANGED vars
  <2>1. /\ UNCHANGED <<res, waiting, live, cached, pending, harvested, results, stack, mode, want>>
        /\ UNCHANGED <<entry, next, round, still, workspace>>
    BY <1>1 DEF vars, graph, session, driver, hist
  <2>2. Counted' = Counted /\ Leaf' = Leaf /\ Timeouts' = Timeouts
    BY <2>1, Constants
  <2>3. Typed'
    BY <2>1 DEF WaitInv, Typed, TypeOK
  <2>4. Books'
    <3>1. \A k : Evaluations(k)' = Evaluations(k)
      BY <2>1 DEF Evaluations
    <3>2. ASSUME NEW k \in Counted PROVE BookTrue(k)'
      <4>1. BookTrue(k)
        BY DEF WaitInv, Books
      <4>2. SoleOwner(k) => SoleOwner(k)'
        BY <2>1, <3>1 DEF SoleOwner, Owned, InFlight
      <4> QED BY <2>1, <2>2, <3>1, <4>1, <4>2 DEF BookTrue, Absent
    <3> QED BY <2>2, <3>2 DEF Books
  <2>5. Modules'
    BY <2>1, <2>2 DEF WaitInv, Modules, DoneIsCached, FrozenIsCached, LeavesInnermost, LeafTrue,
       CachedOnce, Done, Absent
  <2>6. NoProxyLeak' /\ DriverTrue'
    BY <2>1 DEF WaitInv, NoProxyLeak, Owned, DriverTrue, Driving
  <2> QED BY <2>3, <2>4, <2>5, <2>6 DEF WaitInv
<1>2. CASE \E t \in Threads : Work(t) \/ EvalFails(t) \/ TimeoutTakeover(t)
  BY <1>2, WorkKeeps, EvalFailsKeeps, TakeoverKeeps
<1> QED BY <1>1, <1>2 DEF Next

LEMMA WaitInvImplies == WaitInv => ClaimsTrue
<1> SUFFICES ASSUME WaitInv PROVE ClaimsTrue
  OBVIOUS
<1>1. TypeOK /\ DoneIsCached /\ NoProxyLeak
  BY DEF WaitInv, Typed, Modules
<1>2. LiveExact /\ ClaimHeld
  BY DEF WaitInv, Books, BookTrue, LiveExact, ClaimHeld
<1>3. PackageSingleFlight
  <2> SUFFICES ASSUME ~Timeouts, NEW p \in Pkgs PROVE Cardinality(Evaluations(p)) <= 1
    BY DEF PackageSingleFlight
  <2>1. SoleOwner(p)
    BY DEF WaitInv, Books, BookTrue, Counted
  <2>2. CASE Evaluations(p) = {}
    BY <2>2, FS_EmptySet
  <2>3. CASE Evaluations(p) # {}
    <3>1. PICK e : Evaluations(p) = {e}
      BY <2>1, <2>3 DEF SoleOwner
    <3>2. Cardinality({e}) = 1
      BY FS_Singleton
    <3> QED BY <3>1, <3>2
  <2> QED BY <2>2, <2>3
<1>4. BzlIdentityUnique
  <2>1. Bzls \cap Counted \subseteq Leaf
    BY ProgramAssumption DEF Counted
  <2> QED BY <2>1 DEF BzlIdentityUnique, WaitInv, Modules, CachedOnce
<1> QED BY <1>1, <1>2, <1>3, <1>4 DEF ClaimsTrue

(* Counts, claims, the module cache and the proxies of declarations are in *)
(* step with who evaluates what, in every workspace and for every pool:    *)
(* acquire_resource_locked, wait_pending_decl and finish_resource.         *)
THEOREM ClaimsInvariant == Spec => []ClaimsTrue
<1>1. Init => WaitInv
  BY InitClaims
<1>2. WaitInv /\ [Next]_vars => WaitInv'
  BY NextClaims
<1>3. WaitInv => ClaimsTrue
  BY WaitInvImplies
<1> QED BY <1>1, <1>2, <1>3, PTL DEF Spec
=============================================================================
