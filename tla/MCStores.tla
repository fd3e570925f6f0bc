----------------------------- MODULE MCStores ------------------------------
(***************************************************************************)
(* The stores a command goes through, on small instances: the options it   *)
(* is given (CommandLine), the crates it fetches (Crates), the facts its   *)
(* rules assert (Facts), the cc features they enable (Features), the       *)
(* snapshots of its analysis (DepsEngine), the flags of its build scripts  *)
(* (Wrapper) and the outputs it builds (ExecStore).                        *)
(* They share no state, so a behaviour is about one of them.               *)
(***************************************************************************)
EXTENDS CommandLine, Crates, DepsEngine, ExecStore, FactOrders, CommandLines, Wrapper

VARIABLE part

Tokens == {Word("//a"), DashDash, Long("daemon"), LongNo("daemon"), LongV("jobs", "8"), Long("copt"),
           LongV("workspace", "/v"), Long("workspace"), Word("sub"), LongV("scope", "s"),
           Long("no_daemon")}
\* Which program, verb and GRAZEL_SCOPE; the arguments are up to three tokens.
Programs == {<<"razel", "build", None>>, <<"grazel", "build", None>>, <<"grazel", "build", "s">>,
             <<"grazel", "run", None>>, <<"grazel", "daemon", None>>}
MCLines == {[by |-> "line", prog |-> p[1], verb |-> p[2], args |-> a, cwd |-> Word("/w"), env |-> p[3]] :
              p \in Programs, a \in UNION {[1..n -> Tokens] : n \in 0..3}}
MCRcs == ("/w" :> <<[cmd |-> "build", flags |-> <<LongV("jobs", "1"), LongV("copt", "r")>>]>>) @@
         ("/v" :> <<[cmd |-> "common", flags |-> <<Long("daemon"), LongV("compilation_mode", "dbg")>>],
                    [cmd |-> "test", flags |-> <<Long("bogus")>>]>>)
MCScopes == ("/w" :> [service_scope |-> None, in_razelrc |-> FALSE]) @@
            ("/v" :> [service_scope |-> "s", in_razelrc |-> FALSE])

LockSpec(rule, sha, attrs) == [rule |-> rule, sha |-> sha, attrs |-> attrs]
Whole == {"urls", "sha256", "build_file_content"}
Lock1 == [version |-> 26, extension |-> TRUE,
          specs |-> [crates |-> LockSpec("_generate_repo", "root1", {"contents"}),
                     blake |-> LockSpec("http_archive", "b1", Whole),
                     serde |-> LockSpec("http_archive", "s1", Whole)]]
Lock2 == [version |-> 26, extension |-> TRUE,
          specs |-> [crates |-> LockSpec("_generate_repo", "root2", {"contents"}),
                     blake |-> LockSpec("http_archive", "b1", Whole)]]
MCLockFiles == {Lock1, Lock2, [Lock1 EXCEPT !.version = 28],
                [Lock1 EXCEPT !.specs.serde.attrs = {"urls"}], NoLock}

\* Two commands that differ in their thread count only, and one whose mode no
\* select of the source matches.
MCRequest == [c1 |-> [src |-> "a", mode |-> "opt", layout |-> "tree", threads |-> 1],
              c2 |-> [src |-> "a", mode |-> "dbg", layout |-> "tree", threads |-> 8],
              c3 |-> [src |-> "a", mode |-> "opt", layout |-> "tree", threads |-> 8]]
Str(x) == [t |-> "str", v |-> x]
Fact(s, mode, layout) ==
  [name |-> "lib", deps |-> <<"base">>, default_info |-> <<layout>>,
   actions |-> <<[mnemonic |-> "Compile", argv |-> <<"cc", mode>>, inputs |-> <<s>>,
                  outputs |-> <<layout>>, description |-> "compiling lib"]>>,
   providers |-> <<[ty |-> "CcInfo", field |-> "hdrs", value |-> [kind |-> "set", of |-> <<Str("h1"), Str("h2")>>]],
                   [ty |-> "CcInfo", field |-> "libs", value |-> [kind |-> "depset", of |-> <<Str("l2"), Str("l1")>>]],
                   [ty |-> "CcInfo", field |-> "pic", value |-> [kind |-> "scalar", of |-> [t |-> "bool", v |-> TRUE]]]>>]
MCAnalysed == [s \in {"a"}, m \in {"opt", "dbg"}, l \in {"tree"} |->
                 IF m = "opt" THEN <<"ok", <<Fact(s, m, l)>> >> ELSE <<"err">>]

\* A generator with two outputs and a link step; the second BUILD adds a header to it.
MCOuts == [gen |-> <<"g", "d">>, link |-> <<"x">>]
MCDecl == [b1 |-> [gen |-> {"s"}, link |-> {"g"}], b2 |-> [gen |-> {"s"}, link |-> {"g", "h"}]]

\* Three targets, every dependency graph of at most two deps each (cycles too); a
\* fact per kind of field, one in conflict, one ill-typed, one of an unknown type.
Fld(k, v) == [kind |-> k, v |-> v]
MCFacts == {[target |-> "t1", ty |-> "CcInfo", fields |-> [hdrs |-> Fld("set", {"h1"})]],
            [target |-> "t1", ty |-> "CcInfo", fields |-> [cflags |-> Fld("set", {"c1"}), hdrs |-> Fld("set", {"h3"})]],
            [target |-> "t2", ty |-> "CcInfo", fields |-> [hdrs |-> Fld("set", {"h2"})]],
            [target |-> "t2", ty |-> "DefaultInfo", fields |-> [files |-> Fld("set", {"f2"})]],
            [target |-> "t3", ty |-> "CcInfo", fields |-> [hdrs |-> Fld("depset", <<"h4">>)]],
            [target |-> "t3", ty |-> "GoInfo", fields |-> [hdrs |-> Fld("set", {"h5"})]],
            [target |-> "t2", ty |-> "JavaInfo", fields |-> [jars |-> Fld("depset", <<"j1", "j2">>), neverlink |-> Fld("scalar", TRUE)]],
            [target |-> "t2", ty |-> "JavaInfo", fields |-> [jars |-> Fld("depset", <<"j3", "j1">>), neverlink |-> Fld("scalar", FALSE)]],
            [target |-> "t3", ty |-> "JavaInfo", fields |-> [jars |-> Fld("depset", <<"j4">>)]]}
MCFieldOrder == <<"cflags", "files", "hdrs", "jars", "neverlink">>
MCGraphs == {g \in [{"t1", "t2", "t3"} -> {<<"t1">>, <<"t2">>, <<"t3">>, <<"t2", "t3">>, <<"t3", "t2">>, << >>}] :
               g["t1"] = <<"t2", "t3">>}
MCDeclared == [providers |-> cc_decl.providers @@ [JavaInfo |-> [jars |-> "depset", neverlink |-> "scalar"]],
               provides |-> cc_decl.provides]

\* Three features: which are on by default, and what each implies and requires;
\* and the toolchain razel ships.
Feature3(n, on, imp, req) == [name |-> n, enabled |-> on, implies |-> imp, requires |-> req, flag_sets |-> << >>]
Config3(c, i1, i2, r1, r2, r3) ==
  [features |-> <<Feature3("a", c[1], i1, r1), Feature3("b", c[2], i2, r2), Feature3("c", c[3], {}, r3)>>,
   action_configs |-> << >>]
\* Off by default; a tool per mode; nested groups gated on the variable iterated over.
GatedConfig ==
  LET inner == [flag_group(<<flagv("-I", "quote_include_paths")>>, {}, NoVar) EXCEPT
                  !.if_equal = {[var |-> "quote_include_paths", value |-> "gen"]}]
      outer == [flag_group(<< >>, {}, "quote_include_paths") EXCEPT !.flag_groups = <<inner>>, !.if_not_available = {"asm"}]
      set   == [flag_set(Compile, <<outer>>) EXCEPT !.with_features = {[features |-> {"a"}, not_features |-> {"c"}]}]
  IN [features |-> <<Feature3("a", FALSE, {}, {}), [Feature3("b", TRUE, {"x"}, {}) EXCEPT !.flag_sets = <<set>>],
                     Feature3("c", FALSE, {}, {{"a"}})>>,
      action_configs |-> <<[action |-> Compile, path |-> "cc-c", with_features |-> {[features |-> {"c"}, not_features |-> {}]}],
                           [action |-> Compile, path |-> "cc", with_features |-> {}]>>]
MCToolchains ==
  {Config3(on, i1, i2, r1, r2, r3) :
     on \in {<<TRUE, TRUE, TRUE>>, <<TRUE, FALSE, FALSE>>, <<FALSE, FALSE, TRUE>>},
     i1 \in {{}, {"b"}}, i2 \in {{}, {"c"}, {"x"}},
     r1 \in {{}, {{"b"}}, {{"b", "c"}}, {{"b"}, {"x"}}}, r2 \in {{}, {{"a"}}, {{"c"}}, {{"a"}, {"c"}}},
     r3 \in {{}, {{"a"}}, {{"b"}}, {{"x"}}}} \cup {macos_core_config, GatedConfig}
Paths(vs) == [scalar |-> FALSE, of |-> vs]
MCInputs == (Compile :> [source_file |-> Scalar("a.cc"), output_file |-> Scalar("a.o"), dependency_file |-> Scalar("a.d"),
                         minimum_os_version |-> Scalar("14"),
                         quote_include_paths |-> Paths(<<".", "gen">>)]) @@
            (Archive :> [output_execpath |-> Scalar("liba.a"), libraries_to_link |-> Paths(<<"a.o", "b.o">>)])

\* z links a native library and publishes where; m has a script that reads it; bin
\* links both, through a library without a script.
MCCrateDeps == [z |-> {}, m |-> {"z"}, p |-> {"m"}, bin |-> {"p"}]
MCLinksDeps == [z |-> {}, m |-> {"z"}]
SaysLine(n, k, p) == [colons |-> n, key |-> k, path |-> p]
MCStdouts == {<<SaysLine(1, "rustc-cfg", "no"), SaysLine(1, "rustc-link-search", "sandbox"), SaysLine(0, "hello", "no")>>,
              <<SaysLine(2, "metadata", "sandbox"), SaysLine(2, "rustc-link-lib", "no"), SaysLine(1, "root", "sandbox"),
                SaysLine(2, "root", "no")>>,
              <<SaysLine(1, "rustc-env", "sandbox"), SaysLine(1, "rustc-flags", "no"), SaysLine(1, "rustc-link-arg", "no")>>,
              <<SaysLine(1, "error", "no"), SaysLine(1, "rustc-cfg", "no")>>, << >>}

vars == <<part, cmdVars, cratesVars, depsVars, execVars, factVars, featVars, wrapVars>>
NoChain == [features |-> << >>, action_configs |-> << >>]
Init == /\ part \in {"options", "crates", "snapshots", "outputs", "facts", "features", "scripts"}
        /\ CmdInit /\ DepsInit /\ WrapInit
        /\ CratesInit /\ (part # "crates" => lockfile = NoLock)
        /\ ExecInit /\ (part # "outputs" => ~forest)
        /\ IF part = "facts" THEN FactInit
           ELSE /\ schemas = << >> /\ providers = << >> /\ edges = [t \in FactTargets |-> << >>]
                /\ said = [f \in Producible |-> "none"] /\ fold = NoFold
        /\ IF part = "features" THEN FeatInit
           ELSE toolchain = NoChain /\ requested = {} /\ stage = "seed" /\ enabled = {} /\ pass = {} /\ removed = FALSE
                /\ argv = << >>
Options == part = "options" /\ CmdNext /\ UNCHANGED <<part, cratesVars, depsVars, execVars, factVars, featVars, wrapVars>>
CrateRepos == part = "crates" /\ CratesNext /\ UNCHANGED <<part, cmdVars, depsVars, execVars, factVars, featVars, wrapVars>>
Snapshots == part = "snapshots" /\ DepsNext /\ UNCHANGED <<part, cmdVars, cratesVars, execVars, factVars, featVars, wrapVars>>
Outputs == part = "outputs" /\ ExecNext /\ UNCHANGED <<part, cmdVars, cratesVars, depsVars, factVars, featVars, wrapVars>>
Asserted == part = "facts" /\ FactNext /\ UNCHANGED <<part, cmdVars, cratesVars, depsVars, execVars, featVars, wrapVars>>
Enabled == part = "features" /\ FeatNext /\ UNCHANGED <<part, cmdVars, cratesVars, depsVars, execVars, factVars, wrapVars>>
Wrapped == part = "scripts" /\ WrapNext /\ UNCHANGED <<part, cmdVars, cratesVars, depsVars, execVars, factVars, featVars>>
Next == Options \/ CrateRepos \/ Snapshots \/ Outputs \/ Asserted \/ Enabled \/ Wrapped
Spec == Init /\ [][Next]_vars
=============================================================================
