----------------------------- MODULE QueryEval -----------------------------
(***************************************************************************)
(* The query language of razel-query: parse.rs (tokens to expressions),    *)
(* graph.rs (closures, paths and patterns over the loaded graph), eval.rs  *)
(* and output.rs.                                                          *)
(*                                                                         *)
(* A token is [q, w]: a word, quoted or not; parentheses and commas are    *)
(* unquoted words.  An expression is [op, s, n, x]: its string arguments,  *)
(* its depth (None when absent) and its operands.  A graph maps the label  *)
(* of each loaded rule target to [class, attrs, edges].                    *)
(***************************************************************************)
EXTENDS LoadedGraph, Integers, TLC

CONSTANTS Spelling,  \* pattern word -> the pattern it spells
          Numeral,   \* depth word -> its value
          Regex,     \* regex word that compiles -> what it matches
          Lex        \* the labels in lexicographic order

None == -1
Word(w) == [q |-> FALSE, w |-> w]
Quoted(w) == [q |-> TRUE, w |-> w]
Node(op, s, n, x) == [op |-> op, s |-> s, n |-> n, x |-> x]

-----------------------------------------------------------------------------
(* parse.rs.  A parser takes the tokens left and returns [ok, e, ts].       *)

Parsed(e, ts) == [ok |-> TRUE, e |-> e, ts |-> ts]
ParseErr == [ok |-> FALSE, e |-> Node("error", <<>>, None, <<>>), ts |-> <<>>]
Starts(ts, w) == ts # <<>> /\ ts[1] = Word(w)

Operators == [w \in {"+", "union"} |-> "union"] @@ [w \in {"-", "except"} |-> "except"]
             @@ [w \in {"^", "intersect"} |-> "intersect"]

(* The argument list of each function: s a string, x an expression, n an     *)
(* optional depth.                                                          *)
Signature ==
    ("deps" :> <<"x", "n">>) @@ ("rdeps" :> <<"x", "x", "n">>) @@ ("attr" :> <<"s", "s", "x">>)
    @@ [f \in {"kind", "filter", "labels"} |-> <<"s", "x">>]
    @@ [f \in {"somepath", "allpaths", "visible"} |-> <<"x", "x">>]
    @@ [f \in {"siblings", "same_pkg_direct_rdeps", "tests"} |-> <<"x">>]

Deferred == {"set", "buildfiles", "loadfiles", "rbuildfiles"}
Punctuation == {"(", ")", ","}

RECURSIVE expr(_), Chain(_, _), primary(_), Args(_, _, _)

(* Plausible bug: operators associate to the right. *)
ChainRight(left, ts) ==
    IF ts = <<>> \/ ts[1].q \/ ts[1].w \notin DOMAIN Operators THEN Parsed(left, ts)
    ELSE LET r == expr(Tail(ts))
         IN  IF r.ok THEN Parsed(Node(Operators[ts[1].w], <<>>, None, <<left, r.e>>), r.ts) ELSE ParseErr

(* Set operators associate to the left, at one precedence. *)
expr(ts) == LET p == primary(ts) IN IF p.ok THEN Chain(p.e, p.ts) ELSE ParseErr

Chain(left, ts) ==
    IF ts = <<>> \/ ts[1].q \/ ts[1].w \notin DOMAIN Operators THEN Parsed(left, ts)
    ELSE LET r == primary(Tail(ts))
         IN  IF r.ok THEN Chain(Node(Operators[ts[1].w], <<>>, None, <<left, r.e>>), r.ts) ELSE ParseErr

(* parse_let, after the keyword. *)
parse_let(ts) ==
    IF Len(ts) < 2 \/ ts[1].q \/ ts[1].w \in Punctuation \/ ts[2] # Word("=") THEN ParseErr
    ELSE LET v == expr(SubSeq(ts, 3, Len(ts)))
         IN  IF ~v.ok \/ ~Starts(v.ts, "in") THEN ParseErr
             ELSE LET b == expr(Tail(v.ts))
                  IN  IF b.ok THEN Parsed(Node("let", <<ts[1].w>>, None, <<v.e, b.e>>), b.ts) ELSE ParseErr

(* parse_deps, parse_rdeps, parse_filter2, parse_attr, parse_path2 and       *)
(* parse_unary: the arguments sig of the call so far read into e, each       *)
(* after its separator.                                                      *)
Args(sig, e, ts) ==
    LET first == e.s = <<>> /\ e.x = <<>>
        open  == Starts(ts, IF first THEN "(" ELSE ",")
        rest  == IF ts = <<>> THEN <<>> ELSE Tail(ts)
        arg   == expr(rest)
    IN  CASE sig = <<>> -> IF Starts(ts, ")") THEN Parsed(e, Tail(ts)) ELSE ParseErr
          [] sig # <<>> /\ sig[1] = "n" ->
                 CASE ~open -> Args(Tail(sig), e, ts)
                   [] open /\ rest # <<>> /\ rest[1].w \in DOMAIN Numeral ->
                          Args(Tail(sig), [e EXCEPT !.n = Numeral[rest[1].w]], Tail(rest))
                   [] OTHER -> ParseErr
          [] sig # <<>> /\ sig[1] = "s" ->
                 IF open /\ rest # <<>> /\ (rest[1].q \/ rest[1].w \notin Punctuation)
                 THEN Args(Tail(sig), [e EXCEPT !.s = Append(@, rest[1].w)], Tail(rest))
                 ELSE ParseErr
          [] OTHER ->
                 IF open /\ arg.ok THEN Args(Tail(sig), [e EXCEPT !.x = Append(@, arg.e)], arg.ts)
                 ELSE ParseErr

Variables == {"$v", "$w"}
VarName == ("$v" :> "v") @@ ("$w" :> "w")

primary(ts) ==
    IF ts = <<>> THEN ParseErr
    ELSE LET w == ts[1].w
             inner == expr(Tail(ts))
         IN  CASE ts[1].q -> Parsed(Node("pattern", <<w>>, None, <<>>), Tail(ts))
               [] ~ts[1].q /\ w = "(" ->
                      IF inner.ok /\ Starts(inner.ts, ")") THEN Parsed(inner.e, Tail(inner.ts)) ELSE ParseErr
               [] ~ts[1].q /\ w = "let" -> parse_let(Tail(ts))
               [] ~ts[1].q /\ w \in DOMAIN Signature -> Args(Signature[w], Node(w, <<>>, None, <<>>), Tail(ts))
               [] ~ts[1].q /\ w \in Variables -> Parsed(Node("var", <<VarName[w]>>, None, <<>>), Tail(ts))
               [] ~ts[1].q /\ w \in Deferred \cup DOMAIN Operators \cup {"in", ")", ","} -> ParseErr
               [] OTHER -> Parsed(Node("pattern", <<w>>, None, <<>>), Tail(ts))

parse(ts) == LET p == expr(ts) IN IF p.ok /\ p.ts = <<>> THEN p ELSE ParseErr

(* canonicalize_patterns (run.rs): a pattern in a crate repository is read   *)
(* under the canonical name of that repository.                             *)
CanonPattern(lock, w) == canonicalize_crate_repo(lock, Spelling[w])

(* collect_patterns (run.rs): the pattern words of an expression. *)
RECURSIVE collect_patterns(_)
collect_patterns(e) ==
    IF e.op = "pattern" THEN {e.s[1]} ELSE UNION {collect_patterns(e.x[i]) : i \in DOMAIN e.x}

-----------------------------------------------------------------------------
(* graph.rs *)

successors(g, l) == IF l \in DOMAIN g THEN {e.to : e \in g[l].edges} ELSE {}
Rev(g, l) == {p \in DOMAIN g : \E e \in g[p].edges : e.to = l}

(* kinds: of every target and of every file an edge names. *)
FileLeaves(g) ==
    {e \in UNION {g[l].edges : l \in DOMAIN g} : e.to \notin DOMAIN g /\ e.kind \in {"source file", "generated file"}}
KnownLabels(g) == DOMAIN g \cup {e.to : e \in FileLeaves(g)}
kind(g, l) == IF l \in DOMAIN g THEN g[l].class ELSE (CHOOSE e \in FileLeaves(g) : e.to = l).kind

(* deps and rdeps: breadth first, a level per traversed edge. *)
RECURSIVE Levels(_, _, _, _)
Levels(arcs, seen, frontier, left) ==
    LET next == {a[2] : a \in {b \in arcs : b[1] \in frontier}} \ seen
    IN  IF frontier = {} \/ left = 0 THEN seen ELSE Levels(arcs, seen \cup next, next, left - 1)

Arcs(g) == UNION {{<<l, t>> : t \in successors(g, l)} : l \in DOMAIN g}
RevArcs(g) == {<<a[2], a[1]>> : a \in Arcs(g)}

deps(g, roots, depth) == Levels(Arcs(g), roots, roots, depth)

(* Plausible bug: the search leaves the universe and is cut to it at the end. *)
rdepsOutside(g, universe, roots, depth) ==
    universe \cap Levels(RevArcs(g), roots, roots, depth)

rdeps(g, universe, roots, depth) ==
    Levels({a \in RevArcs(g) : a[2] \in universe}, roots \cap universe, roots \cap universe, depth)

same_pkg_direct_rdeps(g, roots) ==
    UNION {{p \in Rev(g, t) : pkg_of(p) = pkg_of(t)} : t \in roots}

allpaths(g, from, to) == rdeps(g, deps(g, from, None), to, None)

(* somepath: breadth-first search from all of from, successors in label     *)
(* order, then back along the parents (a source is its own parent).         *)
Sorted(S) == SelectSeq(Lex, LAMBDA l : l \in S)

RECURSIVE PathTo(_, _), Search(_, _, _, _)
PathTo(parent, l) == IF parent[l] = l THEN {l} ELSE {l} \cup PathTo(parent, parent[l])

Search(g, to, queue, parent) ==
    IF queue = <<>> THEN {}
    ELSE LET cur == Head(queue)
             new == Sorted(successors(g, cur) \ DOMAIN parent)
         IN  IF cur \in to THEN PathTo(parent, cur)
             ELSE Search(g, to, Tail(queue) \o new, parent @@ [l \in ToSet(new) |-> cur])

somepath(g, from, to) == Search(g, to, Sorted(from), [l \in from |-> l])

(* match_pattern.  The star forms read the kinds of main-repo labels only   *)
(* and always add a BUILD file under the main repo.                         *)
match_pattern(g, p) ==
    CASE p.form = "rec" /\ p.repo = "" /\ p.pkg = <<>> -> DOMAIN g
      [] p.form = "rec" /\ ~(p.repo = "" /\ p.pkg = <<>>) ->
             {l \in DOMAIN g : p.repo = "" /\ l.repo = "" /\ IsPrefix(p.pkg, l.pkg)}
      [] p.form = "star" ->
             {l \in KnownLabels(g) : p.repo = "" /\ l.repo = "" /\ l.pkg = p.pkg}
             \cup {Label("", (IF p.repo = "" THEN <<>> ELSE <<p.repo>>) \o p.pkg, "BUILD")}
      [] p.form = "all" -> {l \in DOMAIN g : pkg_of(l) = PkgKey(p.repo, p.pkg)}
      [] p.form = "one" -> DOMAIN g \cap {Label(p.repo, p.pkg, p.name)}

-----------------------------------------------------------------------------
(* eval.rs.  A value is [ok, set]. *)

Value(S) == [ok |-> TRUE, set |-> S]
EvalErr == [ok |-> FALSE, set |-> {}]

(* canonical_label: relative to the owning target; what is absolute stays   *)
(* as it is written, a shorthand too (its name is empty).                   *)
canonical_label(raw, owner) ==
    IF raw.form = "here" THEN Label(owner.repo, owner.pkg, raw.name) ELSE Label(raw.repo, raw.pkg, raw.name)

(* The labels an attribute of a target lists. *)
AttrLabels(g, l, attr) ==
    IF l \in DOMAIN g /\ attr \in DOMAIN g[l].attrs
    THEN {canonical_label(r, l) : r \in ToSet(attr_labels(g[l].attrs[attr]))} ELSE {}

TestClasses == {"rust_test", "cc_test", "py_test", "sh_test"}  \* those that end in _test

(* tests: the test rules of S, a test_suite replaced by its members.        *)
RECURSIVE TestsIn(_, _, _)
TestsIn(g, stack, visited) ==
    LET suites == {t \in stack \cap DOMAIN g : g[t].class = "test_suite"}
        next   == UNION {AttrLabels(g, t, "tests") : t \in suites} \ visited
        own    == {t \in stack \cap DOMAIN g : g[t].class \in TestClasses}
    IN  IF stack = {} THEN {} ELSE own \cup TestsIn(g, next, visited \cup next)

(* spec_grants: yes, no, or an error for a package_group. *)
spec_grants(spec, from) ==
    CASE spec.form = "abs" /\ spec.pkg = <<"visibility">> /\ spec.name = "public"  -> "yes"
      [] spec.form = "abs" /\ spec.pkg = <<"visibility">> /\ spec.name = "private" -> "no"
      [] spec.form = "abs" /\ spec.name = "__pkg__" -> IF from = spec.pkg THEN "yes" ELSE "no"
      [] spec.form = "abs" /\ spec.name = "__subpackages__" ->
             IF IsPrefix(spec.pkg, from) /\ (spec.pkg # <<>> \/ from = <<>>) THEN "yes" ELSE "no"
      [] OTHER -> "error"

(* is_visible_to: the first specification that does not say no decides.     *)
is_visible_to(g, t, from) ==
    LET specs == IF t \in DOMAIN g /\ "visibility" \in DOMAIN g[t].attrs
                 THEN attr_labels(g[t].attrs["visibility"]) ELSE <<>>
        says  == SelectSeq([i \in DOMAIN specs |-> spec_grants(specs[i], from)], LAMBDA v : v # "no")
    IN  CASE t.pkg = from -> "yes"
          [] t.pkg # from /\ says = <<>> -> "no"
          [] OTHER -> says[1]

(* visible: t is kept when every predicate package says yes; the first that *)
(* does not decides for t, and one error fails the query.                   *)
visible(g, pred, S) ==
    LET says(t) == SelectSeq([i \in DOMAIN Sorted(pred) |-> is_visible_to(g, t, Sorted(pred)[i].pkg)],
                             LAMBDA v : v # "yes")
    IN  IF \E t \in S : says(t) # <<>> /\ says(t)[1] = "error" THEN EvalErr
        ELSE Value({t \in S : says(t) = <<>>})

(* go: implicit edges do not occur, nothing in the loader makes one. *)
RECURSIVE go(_, _, _, _)
go(g, lock, e, env) ==
    LET v    == [i \in DOMAIN e.x |-> go(g, lock, e.x[i], env)]
        fine == \A i \in DOMAIN v : v[i].ok
        a    == v[1].set
        b    == v[2].set
        rx   == e.s[Len(e.s)]
    IN  IF e.op = "let"
        THEN LET val == go(g, lock, e.x[1], env)
             IN  IF val.ok THEN go(g, lock, e.x[2], (e.s[1] :> val.set) @@ env) ELSE EvalErr
        ELSE IF ~fine THEN EvalErr
        ELSE CASE e.op = "pattern" -> Value(match_pattern(g, CanonPattern(lock, e.s[1])))
               [] e.op = "var"     -> IF e.s[1] \in DOMAIN env THEN Value(env[e.s[1]]) ELSE EvalErr
               [] e.op = "deps"    -> Value(deps(g, a, e.n))
               [] e.op = "rdeps"   -> Value(rdeps(g, a, b, e.n))
               [] e.op = "union"   -> Value(a \cup b)
               [] e.op = "except"  -> Value(a \ b)
               [] e.op = "intersect" -> Value(a \cap b)
               [] e.op \in {"kind", "filter", "attr"} /\ rx \notin DOMAIN Regex -> EvalErr
               [] e.op = "kind" /\ rx \in DOMAIN Regex ->
                      Value({l \in a \cap KnownLabels(g) : kind(g, l) \in Regex[rx]})
               [] e.op = "filter" /\ rx \in DOMAIN Regex -> Value({l \in a : l.name \in Regex[rx]})
               [] e.op = "attr" /\ rx \in DOMAIN Regex ->
                      Value({l \in a \cap DOMAIN g : /\ e.s[1] \in DOMAIN g[l].attrs
                                                     /\ \E r \in extract_label_refs(g[l].attrs[e.s[1]]) :
                                                            r.raw.name \in Regex[rx]})
               [] e.op = "labels"  -> Value(UNION {AttrLabels(g, l, e.s[1]) : l \in a})
               [] e.op = "somepath" -> Value(somepath(g, a, b))
               [] e.op = "allpaths" -> Value(allpaths(g, a, b))
               [] e.op = "siblings" ->
                      Value(UNION {match_pattern(g, Pattern(l.repo, l.pkg, "star", "")) : l \in a})
               [] e.op = "same_pkg_direct_rdeps" -> Value(same_pkg_direct_rdeps(g, a))
               [] e.op = "tests"   -> Value(TestsIn(g, a, a))
               [] e.op = "visible" -> visible(g, a, b)

(* output.rs: what each output mode shows of a result. *)
format(g, S, mode) ==
    CASE mode = "label"      -> S
      [] mode = "label_kind" -> {<<l, IF l \in KnownLabels(g) THEN {kind(g, l)} ELSE {}>> : l \in S}
      [] mode = "package"    -> {pkg_of(l) : l \in S}
      [] mode = "graph"      -> {<<l, s>> \in S \X S : s \in successors(g, l)} \cup {<<l>> : l \in S}
=============================================================================
