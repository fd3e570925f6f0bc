------------------------------- MODULE Query -------------------------------
(***************************************************************************)
(* razel query (razel-query/src/run.rs): parse, load the packages the      *)
(* patterns name, follow the edges out of them round by round, evaluate.   *)
(***************************************************************************)
EXTENDS QueryEval, FiniteSetsExt

CONSTANTS QueryWorkspaces,  \* the workspaces queried
          Questions,   \* expressions asked, written out by Unparse
          Garbled,     \* token sequences that are no expression
          Modes,       \* the --output modes asked for
          Rounds       \* the bound on loading rounds (64 in the code)

VARIABLES ws,         \* the workspace
          asked,      \* the expression meant; an error node for garbled input
          tokens,     \* the input
          mode,       \* --output
          stage, tree, attempted, loaded, round, answer,
          shown       \* what is printed

queryVars == <<ws, asked, tokens, mode, stage, tree, attempted, loaded, round, answer, shown>>

NoTree == Node("error", <<>>, None, <<>>)

(* How a user writes an expression: strings quoted, parentheses only where  *)
(* left association and the reach of a let need them.                       *)
RECURSIVE Unparse(_), Listed(_)
Listed(xs) == IF Len(xs) <= 1 THEN FlattenSeq(xs) ELSE xs[1] \o <<Word(",")>> \o Listed(Tail(xs))
Symbol == ("union" :> "+") @@ ("except" :> "-") @@ ("intersect" :> "^")
Unparse(e) ==
    LET sub  == [i \in DOMAIN e.x |-> Unparse(e.x[i])]
        strs == [i \in DOMAIN e.s |-> <<Quoted(e.s[i])>>]
        num  == IF e.n = None THEN <<>> ELSE <<<<Word(CHOOSE w \in DOMAIN Numeral : Numeral[w] = e.n)>>>>
        closed(i, ops) == IF e.x[i].op \in ops THEN <<Word("(")>> \o sub[i] \o <<Word(")")>> ELSE sub[i]
    IN  CASE e.op = "pattern" -> <<Word(e.s[1])>>
          [] e.op = "var"     -> <<Word(CHOOSE w \in Variables : VarName[w] = e.s[1])>>
          [] e.op = "let"     -> <<Word("let"), Word(e.s[1]), Word("=")>> \o sub[1] \o <<Word("in")>> \o sub[2]
          [] e.op \in DOMAIN Symbol ->
                 closed(1, {"let"}) \o <<Word(Symbol[e.op])>> \o closed(2, {"let"} \cup DOMAIN Symbol)
          [] OTHER -> <<Word(e.op), Word("(")>> \o Listed(strs \o sub \o num) \o <<Word(")")>>

QueryInit ==
    /\ ws \in QueryWorkspaces /\ mode \in Modes
    /\ \/ asked \in Questions /\ tokens = Unparse(asked)
       \/ asked = NoTree /\ tokens \in Garbled
    /\ stage = "new" /\ tree = NoTree /\ attempted = {} /\ loaded = {} /\ round = 0
    /\ answer = EvalErr /\ shown = {}

(* run: parse the expression, *)
Parse ==
    /\ stage = "new"
    /\ LET p == parse(tokens)
       IN  stage' = (IF p.ok THEN "parsed" ELSE "failed") /\ tree' = p.e
    /\ UNCHANGED <<ws, asked, tokens, mode, attempted, loaded, round, answer, shown>>

(* drive the packages its patterns name, *)
LoadEntries ==
    /\ stage = "parsed"
    /\ LET found == {packages_for_pattern(ws.dirs, CanonPattern(ws.lock, w)) : w \in collect_patterns(tree)}
           pkgs  == UNION {f.pkgs : f \in found}
       IN  IF \A f \in found : f.ok
           THEN stage' = "loading" /\ attempted' = pkgs /\ loaded' = drive_tree(ws, pkgs)
           ELSE stage' = "failed" /\ UNCHANGED <<attempted, loaded>>
    /\ UNCHANGED <<ws, asked, tokens, mode, tree, round, answer, shown>>

Graph == finalize_edges(ws, loaded)

(* load what the graph reaches (one round of load_query_graph), *)
LoadRound ==
    LET want == Wanted(ws, attempted, Graph)
    IN  /\ stage = "loading" /\ want # {} /\ round < Rounds
        /\ attempted' = attempted \cup want
        /\ loaded' = drive_tree(ws, loaded \cup want)
        /\ round' = round + 1
        /\ UNCHANGED <<ws, asked, tokens, mode, stage, tree, answer, shown>>

(* evaluate, and print. *)
Evaluate ==
    /\ stage = "loading" /\ (Wanted(ws, attempted, Graph) = {} \/ round = Rounds)
    /\ answer' = go(Graph, ws.lock, tree, <<>>)
    /\ stage' = IF answer'.ok THEN "done" ELSE "failed"
    /\ shown' = IF answer'.ok THEN format(Graph, answer'.set, mode) ELSE {}
    /\ UNCHANGED <<ws, asked, tokens, mode, tree, attempted, loaded, round>>

Answered == stage \in {"done", "failed"} /\ UNCHANGED queryVars

QueryNext == Parse \/ LoadEntries \/ LoadRound \/ Evaluate \/ Answered

-----------------------------------------------------------------------------
(* The parser inverts writing an expression out, whatever the nesting; it   *)
(* refuses garbled input, and a call that is cut short anywhere (parse.rs:  *)
(* parse, primary and the argument readers).                                *)
ParserInverts ==
    /\ stage # "new" /\ asked # NoTree => tree = asked
    /\ asked = NoTree => stage \in {"new", "failed"}
    /\ asked.op \in DOMAIN Signature =>
           \A n \in 1..(Len(tokens) - 1) : ~parse(SubSeq(tokens, 1, n)).ok

(* The relation the query language's definitions speak of: Within[n + 1] is *)
(* the pairs joined by at most n edges, all their nodes in U; the last is   *)
(* the closure.                                                             *)
RECURSIVE Widen(_, _, _)
Widen(succ(_), U, W) ==
    LET more == Last(W) \cup UNION {{p[1]} \X (succ(p[2]) \cap U) : p \in Last(W)}
    IN  IF more = Last(W) THEN W ELSE Widen(succ, U, Append(W, more))
Within(succ(_), U) == Widen(succ, U, <<{<<a, a>> : a \in U}>>)

(* deps, rdeps, allpaths, somepath and tests mean what their documentation  *)
(* says on every graph, cyclic ones too: reachability within the depth,     *)
(* reverse reachability inside the universe, all nodes of paths, the nodes  *)
(* of one shortest path, test_suites expanded through one another           *)
(* (graph.rs, and Tests in eval.rs).                                        *)
QueryMeaning ==
    stage = "done" =>
        LET g == Graph
            K == KnownLabels(g) \cup answer.set
            arg(i) == go(g, ws.lock, tree.x[i], <<>>).set
            Upto(R) == R[IF tree.n = None \/ tree.n >= Len(R) THEN Len(R) ELSE tree.n + 1]
            succ(l) == successors(g, l)
            members(l) == IF l \in DOMAIN g /\ g[l].class = "test_suite" THEN AttrLabels(g, l, "tests") ELSE {}
            W == Within(succ, K)
            Far(A, B) == {n \in 0..(Len(W) - 1) : \E p \in W[n + 1] : p[1] \in A /\ p[2] \in B}
        IN  CASE tree.op = "deps" ->
                     answer.set = {b \in K : \E a \in arg(1) : <<a, b>> \in Upto(W)}
              [] tree.op = "rdeps" ->
                     LET U == arg(1)
                     IN  answer.set = {a \in U : \E b \in arg(2) : <<a, b>> \in Upto(Within(succ, U))}
              [] tree.op = "somepath" ->
                     IF Far(arg(1), arg(2)) = {} THEN answer.set = {}
                     ELSE LET d  == Min(Far(arg(1), arg(2)))
                              at == [k \in 0..d |-> {l \in answer.set : Min(Far(arg(1), {l})) = k}]
                          IN  /\ Cardinality(answer.set) = d + 1
                              /\ \A k \in 0..d : Cardinality(at[k]) = 1
                              /\ \A k \in 1..d : \E a \in at[k - 1] : at[k] \subseteq successors(g, a)
                              /\ at[d] \subseteq arg(2)
              [] tree.op = "allpaths" ->
                     answer.set = {l \in K : Far(arg(1), {l}) # {} /\ Far({l}, arg(2)) # {}}
              [] tree.op = "tests" ->
                     answer.set = {b \in DOMAIN g : g[b].class \in TestClasses
                                                   /\ \E a \in arg(1) : <<a, b>> \in Last(Within(members, K \cup arg(1)))}
              [] OTHER -> TRUE

Concrete(e) == \A w \in collect_patterns(e) : Spelling[w].form = "one"
Closing == {"deps", "somepath", "allpaths", "labels", "tests", "kind"}

(* A query is understood as it was written, and its answer means what it says. *)
QueryTrue == ParserInverts /\ QueryMeaning

(* Loading stops only when nothing is missing: the answer to a question     *)
(* about concrete targets is the one the graph of the whole workspace and   *)
(* of every repository gives (patterns.rs: deps() must "reach the NODE with *)
(* its real rule_class, not a dangling edge").                              *)
LoadedEnough ==
    stage = "done" /\ Concrete(tree) /\ tree.op \in Closing
        => answer = go(finalize_edges(ws, DOMAIN ws.decl), ws.lock, tree, <<>>)
=============================================================================
