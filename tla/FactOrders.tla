------------------------------ MODULE FactOrders -----------------------------
(***************************************************************************)
(* The ordered folds of the fact store (razel-dds): the elements of a      *)
(* depset field over the dependency graph, where order matters (class      *)
(* paths), with and without the targets a `prune` field takes out.         *)
(***************************************************************************)
EXTENDS Facts

(***************************************************************************)
(* A walk with an explicit stack, a node's own value before its deps',     *)
(* each node once. A node whose `prune` field is true is skipped with what *)
(* is behind it.                                                           *)
(***************************************************************************)
NoPrune == "no prune field"
Pruned(t, ty, prune) == Own(t, ty, prune) = [kind |-> "scalar", v |-> TRUE]
Pushed_reversed(stack, ds) == Reverse(ds) \o stack
Pushed(stack, ds) == ds \o stack

RECURSIVE Walk(_, _, _, _, _)
Walk(stack, visited, order, ty, prune) ==
  IF stack = << >> THEN order
  ELSE LET t == Head(stack)
       IN IF t \in visited THEN Walk(Tail(stack), visited, order, ty, prune)
          ELSE IF Pruned(t, ty, prune) THEN Walk(Tail(stack), visited \cup {t}, order, ty, prune)
          ELSE Walk(Pushed(Tail(stack), edges[t]), visited \cup {t}, Append(order, t), ty, prune)

fold_depset_pruned(root, ty, x, prune) ==
  FoldLeft(LAMBDA acc, t : IF Own(t, ty, x).kind = "depset" THEN AppendNew(acc, Own(t, ty, x).v) ELSE acc,
           << >>, Walk(<<root>>, {}, << >>, ty, prune))
fold_depset(root, ty, x) == fold_depset_pruned(root, ty, x, NoPrune)

-----------------------------------------------------------------------------
\* Reference: the preorder of a depth-first search.
RECURSIVE Preorder(_, _, _)
Preorder(ts, order, skip) ==
  IF ts = << >> THEN order
  ELSE LET t == Head(ts)
       IN IF Contains(order, t) \/ t \in skip THEN Preorder(Tail(ts), order, skip)
          ELSE Preorder(Tail(ts), Preorder(edges[t], Append(order, t), skip), skip)

\* The ordered folds are the depth-first preorder, without what is only behind
\* a pruned target, whatever order facts were asserted in and with cycles.
FoldsInOrder ==
  ~fold.on =>
    \A t \in FactTargets :
      LET skip == {u \in FactTargets : Pruned(u, "JavaInfo", "neverlink")}
          Jars(ts) == FoldLeft(LAMBDA acc, u : IF Own(u, "JavaInfo", "jars").kind = "depset"
                                               THEN AppendNew(acc, Own(u, "JavaInfo", "jars").v) ELSE acc, << >>, ts)
      IN /\ fold_depset(t, "JavaInfo", "jars") = Jars(Preorder(<<t>>, << >>, {}))
         /\ fold_depset_pruned(t, "JavaInfo", "jars", "neverlink") = Jars(Preorder(<<t>>, << >>, skip))
=============================================================================
