---------------------------- MODULE LoadedGraph ----------------------------
(***************************************************************************)
(* The loading-phase graph of razel-loading/src/loaded.rs: attributes are  *)
(* snapshot when a target is declared, their label references become typed *)
(* edges once packages are loaded.                                         *)
(*                                                                         *)
(* A raw attribute is a tree [k, v, xs, conds]: a `leaf' holds the raw     *)
(* label v; `seq' (list, tuple, concat) and `dict' (its keys) hold xs;     *)
(* `select' has a condition conds[i] for the arm xs[i], and one more xs    *)
(* when it has a default; a `scalar' holds nothing.                        *)
(*                                                                         *)
(* A workspace ws has decl (package -> label -> [class, attrs]), aliases,  *)
(* outs and configs (labels the packages index when they load), files      *)
(* (sources on disk), incompatible (targets the platform excludes),        *)
(* dirs (directories with a BUILD file), lock (crate                       *)
(* repositories), host (vendored packages) and crates (a crate lock is     *)
(* seeded, so that any external package can be materialised).              *)
(***************************************************************************)
EXTENDS Labels, FiniteSets

NoRaw        == Raw("here", "", <<>>, "")
Leaf(r)      == [k |-> "leaf", v |-> r, xs |-> <<>>, conds |-> <<>>]
Items(xs)    == [k |-> "seq", v |-> NoRaw, xs |-> xs, conds |-> <<>>]
Keys(xs)     == [k |-> "dict", v |-> NoRaw, xs |-> xs, conds |-> <<>>]
SelectRaw(cs, xs) == [k |-> "select", v |-> NoRaw, xs |-> xs, conds |-> cs]
Scalar       == [k |-> "scalar", v |-> NoRaw, xs |-> <<>>, conds |-> <<>>]

(* label_attrs: the label-valued attributes of a rule class. *)
label_attrs(class) ==
    CASE class = "filegroup"          -> {"srcs", "data"}
      [] class = "alias"              -> {"actual"}
      [] class = "genrule"            -> {"srcs", "tools", "exec_tools"}
      [] class = "config_setting"     -> {"constraint_values", "flag_values"}
      [] class \in {"rust_library", "rust_binary", "rust_shared_library",
                    "rust_library_group", "rust_proc_macro"} ->
             {"srcs", "deps", "proc_macro_deps", "aliases", "compile_data", "data",
              "target_compatible_with"}
      [] class \in {"cc_library", "cc_binary"} -> {"srcs", "hdrs", "deps", "data"}
      [] class = "cargo_build_script" ->
             {"srcs", "deps", "data", "compile_data", "link_deps", "rustc_env_files"}
      [] OTHER                        -> {}

(* extract_label_refs: [raw, cond] for every label of an attribute, the     *)
(* conditions of a select() flagged.                                        *)
RECURSIVE extract_label_refs(_)
extract_label_refs(a) ==
    {[raw |-> a.conds[i], cond |-> TRUE] : i \in DOMAIN a.conds}
    \cup UNION {extract_label_refs(a.xs[i]) : i \in DOMAIN a.xs}
    \cup (IF a.k = "leaf" THEN {[raw |-> a.v, cond |-> FALSE]} ELSE {})

(* attr_labels (eval.rs): the narrower view of labels(), without conditions. *)
RECURSIVE attr_labels(_)
attr_labels(a) ==
    IF a.k = "leaf" THEN <<a.v>>
    ELSE FlattenSeq([i \in DOMAIN a.xs |-> attr_labels(a.xs[i])])

(* capture_loaded: a declared target with its references, which are made    *)
(* canonical while the package is current.  A cargo_build_script also names *)
(* the two children its macro declares (capture_cargo_build_script).        *)
capture_loaded(ws, label, d) ==
    LET refs     == UNION {extract_label_refs(d.attrs[n]) : n \in label_attrs(d.class) \cap DOMAIN d.attrs}
        children == IF d.class = "cargo_build_script" THEN d.children ELSE {}
    IN  [class |-> d.class, attrs |-> d.attrs,
         refs  |-> {[to   |-> canon_label(ws.lock, pkg_of(label), r.raw),
                     cond |-> r.cond] : r \in refs}
                   \cup {[to |-> c, cond |-> FALSE] : c \in children}]

(* classify_kind: the order of the facts matters, an alias is also a rule.  *)
classify_kind(cond, f) ==
    LET ranked == <<<<f.alias, "alias">>, <<f.generated, "generated file">>,
                    <<cond /\ f.config, "config">>, <<f.declared, "rule">>,
                    <<f.source, "source file">>, <<TRUE, "unresolved">>>>
    IN  ranked[SelectInSeq(ranked, LAMBDA r : r[1])][2]

(* gather_facts: what the session knows once the packages in loaded are in; *)
(* only the source check looks at the disk, under the workspace root.       *)
gather_facts(ws, loaded, l) ==
    LET known(S) == l \in S /\ pkg_of(l) \in loaded
        rule     == pkg_of(l) \in loaded \cap DOMAIN ws.decl /\ l \in DOMAIN ws.decl[pkg_of(l)]
    IN  [alias    |-> known(ws.aliases), generated |-> known(ws.outs),
         config   |-> known(ws.configs), declared  |-> rule,
         source   |-> ~known(ws.aliases) /\ ~known(ws.outs) /\ ~rule /\ l \in ws.files]

(* finalize_edges over everything captured: a reference that resolves to    *)
(* nothing is skipped.                                                      *)
finalize_edges(ws, loaded) ==
    LET here == loaded \cap DOMAIN ws.decl
        node(l) == LET c == capture_loaded(ws, l, ws.decl[pkg_of(l)][l])
                       typed == {[to |-> r.to, kind |-> classify_kind(r.cond, gather_facts(ws, loaded, r.to))] :
                                   r \in c.refs}
                   IN  [class |-> c.class, attrs |-> c.attrs, refs |-> c.refs,
                        edges |-> {e \in typed : e.kind # "unresolved"}]
    IN  [l \in UNION {DOMAIN ws.decl[k] : k \in here} |-> node(l)]

(* drive_tree as the query uses it: the entry packages and, through the     *)
(* analysis of their targets, the workspace packages their references name. *)
RECURSIVE drive_tree(_, _)
drive_tree(ws, pkgs) ==
    LET g    == finalize_edges(ws, pkgs)
        more == {pkg_of(r.to) : r \in UNION {g[l].refs : l \in DOMAIN g}}
                \cap {k \in DOMAIN ws.decl : k.repo = ""}
    IN  IF more \subseteq pkgs THEN pkgs ELSE drive_tree(ws, pkgs \cup more)

(* Plausible bug: only resolved edges are followed into other packages. *)
WantedByEdge(ws, attempted, g) ==
    {k \in UNION {{pkg_of(e.to) : e \in g[l].edges} : l \in DOMAIN g} \ attempted :
        k \in ws.host \/ (ws.crates /\ k.repo # "")}

(* One round of load_query_graph: the packages reached but not attempted    *)
(* that are vendored or, with a crate lock, external.                       *)
Wanted(ws, attempted, g) ==
    LET reached == UNION {{pkg_of(r.to) : r \in g[l].refs} \cup {pkg_of(e.to) : e \in g[l].edges} : l \in DOMAIN g}
    IN  {k \in reached \ attempted : k \in ws.host \/ (ws.crates /\ k.repo # "")}
=============================================================================
