----------------------------- MODULE MCAnalysis -----------------------------
(* A workspace with every kind of rule, forward and cross-package           *)
(* references, selects, a package in error and one that fails to analyse.   *)
EXTENDS Analysis

P(n) == PkgKey("", <<n>>)
L(p, n) == Label("", <<p>>, n)
OS(n) == Label("", <<"cfg", "os">>, n)
Deps(ls) == <<Values([i \in DOMAIN ls |-> Ref(ls[i])])>>
Names(ls) == <<Values([i \in DOMAIN ls |-> File(ls[i])])>>
Crate(kind, l, deps) == Statement(kind, l, [srcs |-> Names(<<L(l.pkg[1], "src")>>), deps |-> Deps(deps)])
On(c, yes, no) == Select(<<Branch(<<c>>, yes), Branch(<<>>, no)>>)

MCBuild ==
    (P("cfg") :> <<
        [Statement("config_setting", L("cfg", "dbg"), <<>>) EXCEPT
            !.spec = Setting({<<"compilation_mode", "dbg">>}, {}, {})],
        [Statement("config_setting", L("cfg", "dbgx"), <<>>) EXCEPT
            !.spec = Setting({<<"compilation_mode", "dbg">>}, {"x"}, {})],
        [Statement("config_setting_group", L("cfg", "either"), <<>>) EXCEPT
            !.spec = Group(FALSE, <<L("cfg", "dbg"), L("cfg", "dbgx")>>)],
        [Statement("config_setting", L("cfg", "flag"), <<>>) EXCEPT !.spec = Unmodeled] >>)
 @@ (PkgKey("", <<"cfg", "os">>) :> <<
        Statement("constraint_value", OS("linux"), <<>>), Statement("constraint_value", OS("none"), <<>>),
        Statement("platform", OS("host"), <<>>) >>)
 @@ (P("lib") :> <<
        Statement("alias", L("lib", "cur"), [actual |->
            <<On(L("cfg", "either"), <<Ref(L("lib", "mid"))>>, <<Ref(L("lib", "base"))>>)>>]),
        Statement("rust_library", L("lib", "mid"),
            [srcs |-> Names(<<L("lib", "src")>>),
             deps |-> Deps(<<L("lib", "base")>>) \o
                      <<Select(<<Branch(<<L("cfg", "dbg")>>, <<>>),
                                 Branch(<<L("cfg", "dbgx")>>, <<Ref(L("lib", "base2"))>>),
                                 Branch(<<>>, <<>>)>>)>>]),
        Crate("rust_library", L("lib", "base"), <<L("mac", "bs")>>),
        Statement("rust_library", L("lib", "base2"),
            [srcs |-> Names(<<L("lib", "src")>>),
             deps |-> <<On(L("cfg", "flag"), <<Ref(L("lib", "none"))>>, <<>>)>>]),
        Statement("label_setting", L("lib", "unset"), <<>>),
        Statement("label_setting", L("lib", "set"), [build_setting_default |-> Deps(<<L("lib", "mid")>>)]),
        [Statement("genrule", L("lib", "gen"), [srcs |-> Names(<<L("lib", "src")>>)]) EXCEPT
            !.outs = {L("lib", "gen.txt")}],
        Statement("filegroup", L("lib", "fg"),
            [srcs |-> <<Values(<<Ref(L("lib", "gen.txt")), File(L("lib", "src"))>>)>>]),
        [Statement("genrule", L("lib", "tgen"),
            [srcs |-> Deps(<<L("lib", "src"), L("app", "app")>>)]) EXCEPT !.outs = {L("lib", "tgen.txt")}],
        [Crate("rust_library", L("lib", "win"), <<>>) EXCEPT
            !.tcw = <<Label("platforms", <<"os">>, "windows")>>] >>)
 @@ (P("mac") :> <<
        Statement("cargo_build_script", L("mac", "bs"),
            [srcs |-> Names(<<L("mac", "src")>>), data |-> Deps(<<L("lib", "fg")>>),
             rustc_env_files |-> Deps(<<L("mac", "env")>>)]),
        Statement("cargo_toml_env_vars", L("mac", "env"), <<>>),
        Crate("rust_proc_macro", L("mac", "m"), <<>>) >>)
 @@ (P("app") :> <<
        Statement("rust_binary", L("app", "app"),
            [srcs |-> Names(<<L("app", "src")>>), deps |-> Deps(<<L("lib", "cur")>>),
             proc_macro_deps |-> Deps(<<L("mac", "m")>>), compile_data |-> Deps(<<L("app", "src")>>)]),
        Statement("rust_library", L("app", "util"),
            [srcs |-> Names(<<L("app", "src")>>),
             deps |-> Deps(<<L("lib", "cur")>>) \o
                      <<On(OS("linux"), <<Ref(L("lib", "set"))>>, <<Ref(L("lib", "none"))>>),
                        On(OS("none"), <<Ref(L("lib", "none"))>>, <<>>)>>]),
        [Crate("rust_test", L("app", "test"), <<>>) EXCEPT !.crate = <<L("app", "util")>>],
        Crate("rust_shared_library", L("app", "so"), <<L("app", "util")>>),
        Crate("rust_library_group", L("app", "grp"), <<L("app", "util")>>),
        Crate("rust_library", L("app", "winuser"), <<L("lib", "win")>>),
        Statement("alias", L("app", "top"), [actual |-> Deps(<<L("lib", "cur")>>)]) >>)
 @@ (P("misc") :> <<
        Statement("cc_library", L("misc", "c1"),
            [srcs |-> Names(<<L("misc", "src")>>), hdrs |-> Names(<<L("misc", "h")>>), deps |-> Deps(<<L("misc", "c2")>>)]),
        Statement("cc_library", L("misc", "c2"), [srcs |-> <<>>, hdrs |-> Names(<<L("misc", "h2")>>)]),
        Statement("cc_binary", L("misc", "cc"),
            [srcs |-> Names(<<L("misc", "src")>>), deps |-> Deps(<<L("misc", "c1")>>)]),
        Crate("py_library", L("misc", "pl"), <<>>), Crate("py_binary", L("misc", "pb"), <<L("misc", "pl")>>),
        Crate("sh_binary", L("misc", "sh"), <<>>), Crate("js_binary", L("misc", "jb"), <<>>),
        Crate("js_library", L("misc", "jl"), <<>>), Crate("ts_project", L("misc", "ts"), <<>>),
        Statement("test_suite", L("misc", "tests"), <<>>) >>)
 @@ (P("star") :> <<
        [Statement("rule", L("star", "s1"),
            [deps |-> Deps(<<L("star", "s2"), L("lib", "gen.txt")>>), _tool |-> Deps(<<L("misc", "sh")>>)])
            EXCEPT !.aspect = TRUE],
        Statement("rule", L("star", "s2"), [deps |-> Deps(<<L("star", "src")>>)]) >>)
 @@ (P("broken") :> <<
        Statement("rule", L("broken", "fine"), [deps |-> Deps(<<L("star", "s2")>>)]),
        Statement("filegroup", L("broken", "bad"), [srcs |-> Deps(<<L("lib", "none")>>)]) >>)
 @@ (P("user") :> <<
        Statement("rule", L("user", "u"), [deps |-> Deps(<<L("broken", "fine"), L("star", "s2")>>)]) >>)
 @@ (P("bust") :> << Statement("filegroup", L("bust", "f"), [srcs |-> Names(<<L("bust", "src")>>)]),
                     Statement("bad", L("bust", "oops"), <<>>) >>)
 @@ (P("hit") :> << Statement("filegroup", L("hit", "x"), [srcs |-> Deps(<<L("hit", "y")>>)]),
                    Statement("filegroup", L("hit", "y"), [srcs |-> Deps(<<L("hit", "x")>>)]),
                    Statement("filegroup", L("hit", "z"), [srcs |-> Deps(<<L("bust", "f")>>)]) >>)
 @@ (P("near") :> << Statement("filegroup", L("near", "z"), [srcs |-> Deps(<<L("hit", "z")>>)]) >>)

MCDisk == {L(p, "src") : p \in {"lib", "mac", "app", "misc", "star", "bust"}}
            \cup {L("misc", "h"), L("misc", "h2")}
MCWorkspaces == {MCBuild}
MCAllPkgs == {P(n) : n \in {"cfg", "lib", "mac", "app", "misc", "star", "broken", "user", "bust", "hit", "near", "gone"}}
                \cup {PkgKey("", <<"cfg", "os">>), PkgKey("platforms", <<"os">>)}
Config(mode, defines) ==
    [mode |-> mode, defines |-> defines, os |-> {"linux"}, cpu |-> {"x86_64"},
     cpuName |-> "k8", triple |-> "x86_64-unknown-linux-gnu"]
MCConfigs == {Config("fastbuild", {}), Config("dbg", {"x"})}

Trees(S, n) == {q \in UNION {[1..k -> {Drive(P(p)) : p \in S}] : k \in 1..n} :
                   \A i, j \in DOMAIN q : i # j => q[i] # q[j]}
MCRequests ==
    Trees({"lib", "app", "mac", "star", "cfg"}, 3) \cup Trees({"broken", "user", "star"}, 3)
        \cup Trees({"hit", "near"}, 2) \cup {<<Drive(P("misc")), Drive(P("bust")), Drive(P("hit"))>>}
        \cup {<<Top(l)>> : l \in {L("app", "winuser"), L("app", "top"), L("lib", "tgen"), L("gone", "g")}}
=============================================================================
