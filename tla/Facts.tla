------------------------------- MODULE Facts -------------------------------
(***************************************************************************)
(* The typed fact store of the analysis (razel-dds): providers asserted by *)
(* producers in any order and merged field by field, and the fold over the *)
(* dependency graph that rules read set fields with (razel-dds, and the    *)
(* declarations of razel-rulepack that choose between own value and fold). *)
(*                                                                         *)
(* A field value is [kind, v]: a scalar, a set, or an ordered depset (the  *)
(* target's direct elements in order).                                     *)
(***************************************************************************)
EXTENDS Integers, Sequences, FiniteSets, SequencesExt

CONSTANTS FactTargets,  \* targets
          FieldOrder,   \* field names in the order of the map that holds them
          Producible,   \* facts producers may assert: [target, ty, fields], fields a function
          Graphs,       \* dependency graphs: target -> sequence of targets
          Decl_         \* the rule declarations: [providers, provides]

ASSUME GraphsAssumption == \A g \in Graphs : g \in [FactTargets -> Seq(FactTargets)]
\* The fields of a fact are [kind, v], and the map holds them in the order of their names.
ASSUME FieldsOrdered ==
  /\ FieldOrder \in Seq(STRING)
  /\ \A f \in Producible : /\ DOMAIN f.fields \subseteq ToSet(FieldOrder)
                           /\ \A x \in DOMAIN f.fields :
                                f.fields[x] = [kind |-> f.fields[x].kind, v |-> f.fields[x].v]
\* What a declaration provides is a set field of one of its schemas.
ASSUME ProvidesSets == \A p \in Decl_.provides : Decl_.providers[p.provider][p.field] = "set"

VARIABLES schemas,   \* provider type -> field -> kind
          providers, \* <<target, type>> -> field -> value
          edges,     \* target -> its deps
          said,      \* fact -> "none", "accepted", "rejected", "conflict"
          fold       \* a set fold in progress: [on, root, ty, field, stack, visited, acc]

factVars == <<schemas, providers, edges, said, fold>>
NoFold == [on |-> FALSE]

\* cc_library as data: files are a target's own, headers and flags fold.
Provide(p, f, s) == [provider |-> p, field |-> f, source |-> s]
cc_decl == [providers |-> [DefaultInfo |-> [files |-> "set"], CcInfo |-> [hdrs |-> "set", cflags |-> "set"]],
            provides |-> {Provide("DefaultInfo", "files", "Own"), Provide("CcInfo", "hdrs", "Fold"), Provide("CcInfo", "cflags", "Fold")}]
\* register: the schemas of a rule's declaration go into the store.
register(decl) == decl.providers
FactInit ==
  /\ schemas = register(Decl_)
  /\ providers = << >>
  /\ edges \in Graphs
  /\ said = [f \in Producible |-> "none"]
  /\ fold = NoFold

-----------------------------------------------------------------------------
Conflict == [kind |-> "conflict"]
\* Append what is new, in order.
AppendNew(xs, ys) == FoldLeft(LAMBDA acc, y : IF Contains(acc, y) THEN acc ELSE Append(acc, y), xs, ys)
merge(cur, new) ==
  IF cur.kind # new.kind THEN Conflict
  ELSE IF cur.kind = "set" THEN [cur EXCEPT !.v = @ \cup new.v]
  ELSE IF cur.kind = "depset" THEN [cur EXCEPT !.v = AppendNew(@, new.v)]
  ELSE IF cur.v = new.v THEN cur ELSE Conflict

SchemaHolds(f) ==
  /\ f.ty \in DOMAIN schemas
  /\ \A x \in DOMAIN f.fields : x \in DOMAIN schemas[f.ty] /\ schemas[f.ty][x] = f.fields[x].kind

\* Field by field in the order of the names; the first conflict ends it, and
\* what was merged before stays.
Clashes(old, fields) ==
  {i \in DOMAIN FieldOrder : /\ FieldOrder[i] \in DOMAIN fields \cap DOMAIN old
                             /\ merge(old[FieldOrder[i]], fields[FieldOrder[i]]) = Conflict}
Mergeable(old, fields) ==
  {FieldOrder[i] : i \in {j \in DOMAIN FieldOrder : \A k \in Clashes(old, fields) : j < k}} \cap DOMAIN fields
Merged(old, fields) ==
  [y \in DOMAIN old \cup Mergeable(old, fields) |->
     IF y \notin Mergeable(old, fields) THEN old[y]
     ELSE IF y \in DOMAIN old THEN merge(old[y], fields[y]) ELSE fields[y]]

\* Dds::assert. The store is not written while it is read.
assert(f) ==
  LET k == <<f.target, f.ty>>
      old == IF k \in DOMAIN providers THEN providers[k] ELSE << >>
  IN /\ ~fold.on
     /\ IF ~SchemaHolds(f)
        THEN /\ said' = [said EXCEPT ![f] = "rejected"]
             /\ UNCHANGED providers
        ELSE /\ said' = [said EXCEPT ![f] = IF Clashes(old, f.fields) = {} THEN "accepted" ELSE "conflict"]
             /\ providers' = [q \in DOMAIN providers \cup {k} |-> IF q = k THEN Merged(old, f.fields) ELSE providers[q]]
     /\ UNCHANGED <<schemas, edges, fold>>

-----------------------------------------------------------------------------
Own(t, ty, x) == IF <<t, ty>> \in DOMAIN providers /\ x \in DOMAIN providers[<<t, ty>>]
                 THEN providers[<<t, ty>>][x] ELSE [kind |-> "none"]
OwnSet(t, ty, x) == IF Own(t, ty, x).kind = "set" THEN Own(t, ty, x).v ELSE {}

\* query_set: a declared fold folds; any other field is the target's own.
Folds(ty, x) == Provide(ty, x, "Fold") \in Decl_.provides

\* fold_set: a walk with an explicit stack, each node once.
fold_set(root, ty, x) ==
  /\ ~fold.on /\ Folds(ty, x)
  /\ fold' = [on |-> TRUE, root |-> root, ty |-> ty, field |-> x, stack |-> <<root>>, visited |-> {}, acc |-> {}]
  /\ UNCHANGED <<schemas, providers, edges, said>>
Behind_providing(t) == IF t \in fold.visited \/ OwnSet(t, fold.ty, fold.field) = {} THEN << >> ELSE edges[t]
Behind(t) == IF t \in fold.visited THEN << >> ELSE edges[t]
Pop ==
  LET t == Last(fold.stack)
  IN /\ fold.on /\ fold.stack # << >>
     /\ fold' = [fold EXCEPT !.stack = Front(@) \o Behind(t), !.visited = @ \cup {t},
                             !.acc = @ \cup OwnSet(t, fold.ty, fold.field)]
     /\ UNCHANGED <<schemas, providers, edges, said>>
Folded == /\ fold.on /\ fold.stack = << >>
          /\ fold' = NoFold
          /\ UNCHANGED <<schemas, providers, edges, said>>

FactNext == \/ \E f \in Producible : assert(f)
            \/ \E t \in FactTargets, p \in Decl_.provides : fold_set(t, p.provider, p.field)
            \/ Pop \/ Folded

-----------------------------------------------------------------------------
\* Reference: the targets in every set that has the root and the deps of its members.
Reachable(t) ==
  {u \in FactTargets : \A S \in SUBSET FactTargets :
     t \in S /\ (\A v \in S : ToSet(edges[v]) \subseteq S) => u \in S}
Facts(t, ty, x, words) ==
  UNION {f.fields[x].v : f \in {g \in Producible : g.target = t /\ g.ty = ty /\ x \in DOMAIN g.fields /\ said[g] \in words}}
ReadsAs(over, ty, x, is) ==
  /\ UNION {Facts(u, ty, x, {"accepted"}) : u \in over} \subseteq is
  /\ is \subseteq UNION {Facts(u, ty, x, {"accepted", "conflict"}) : u \in over}

\* Whatever the order producers assert in, and with cycles, diamonds and refused
\* facts: a declared set field reads as the union of what every reachable target
\* had accepted (a fact in conflict may add to it), or the target itself when it
\* is not folded.
FoldsAgree ==
  /\ fold.on /\ fold.stack = << >> => ReadsAs(Reachable(fold.root), fold.ty, fold.field, fold.acc)
  /\ \A t \in FactTargets, p \in Decl_.provides :
       Folds(p.provider, p.field) \/ ReadsAs({t}, p.provider, p.field, OwnSet(t, p.provider, p.field))
=============================================================================
