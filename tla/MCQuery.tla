------------------------------- MODULE MCQuery -------------------------------
(***************************************************************************)
(* razel query over two workspaces that differ in whether a crate lock is  *)
(* present: package //a (binary, library, tests, two test suites that name *)
(* each other), //b (an alias, its target, a config_setting), //b/sub,     *)
(* crates @c and @d, the second reached only through the first, and a      *)
(* vendored package @h.                                                    *)
(***************************************************************************)
EXTENDS Query

A(n) == Label("", <<"a">>, n)
B(n) == Label("", <<"b">>, n)
Sub(n) == Label("", <<"b", "sub">>, n)
C == Label("cu_c", <<>>, "c")
D == Label("cu_d", <<>>, "d")
H == Label("h", <<"p">>, "p")

Here(n) == Leaf(Raw("here", "", <<>>, n))
Abs(p, n) == Leaf(Raw("abs", "", p, n))
Bare(r) == Leaf(Raw("bare", r, <<>>, ""))
ExtPkg(r, p) == Leaf(Raw("extpkg", r, p, ""))
NoAttrs == [n \in {} |-> Scalar]
Rule(class, attrs) == [class |-> class, attrs |-> attrs, children |-> {}]

Decl ==
    (PkgKey("", <<"a">>) :>
        (A("bin") :> Rule("rust_binary", ("srcs" :> Items(<<Here("main.rs")>>))
                          @@ ("deps" :> Items(<<Here("lib"), Leaf(Raw("abspkg", "", <<"b">>, ""))>>)))
         @@ A("lib") :> Rule("rust_library", ("deps" :> Items(<<Bare("c"), Abs(<<"b">>, "impl")>>))
                             @@ ("visibility" :> Items(<<Abs(<<"b">>, "__subpackages__")>>)))
         @@ A("t") :> Rule("rust_test", NoAttrs)
         @@ A("u") :> Rule("cc_test", NoAttrs)
         @@ A("s1") :> Rule("test_suite", "tests" :> Items(<<Here("t"), Here("s2")>>))
         @@ A("s2") :> Rule("test_suite", "tests" :> Items(<<Here("s1"), Here("u")>>))))
    @@ (PkgKey("", <<"b">>) :>
        (B("b") :> Rule("alias", "actual" :> SelectRaw(<<Raw("here", "", <<>>, "cfg")>>, <<Here("impl"), Abs(<<"b", "sub">>, "sub")>>))
         @@ B("impl") :> Rule("rust_library", "deps" :> Items(<<Bare("c")>>))
         @@ B("cfg") :> Rule("config_setting", NoAttrs)))
    @@ (PkgKey("", <<"b", "sub">>) :>
        (Sub("sub") :> Rule("cc_library", ("data" :> Keys(<<ExtPkg("h", <<"p">>)>>))
                            @@ ("visibility" :> Items(<<Abs(<<"b">>, "__pkg__"), Abs(<<"grp">>, "g")>>)))))
    @@ (PkgKey("cu_c", <<>>) :> (C :> Rule("rust_library", "deps" :> Items(<<Bare("d")>>))))
    @@ (PkgKey("cu_d", <<>>) :> (D :> Rule("rust_library", NoAttrs)))
    @@ (PkgKey("h", <<"p">>) :> (H :> Rule("filegroup", NoAttrs)))

Crates == [r \in {"c", "cu_c"} |-> "cu_c"] @@ [r \in {"d", "cu_d"} |-> "cu_d"]

Workspace(crates) ==
    [decl |-> Decl, aliases |-> {B("b")}, outs |-> {}, configs |-> {B("cfg")}, files |-> {A("main.rs")},
     incompatible |-> {}, dirs |-> {<<"a">>, <<"b">>, <<"b", "sub">>, <<"external", "x">>},
     lock |-> IF crates THEN Crates ELSE <<>>, host |-> {PkgKey("h", <<"p">>)}, crates |-> crates]

MCQueried == {Workspace(TRUE), Workspace(FALSE)}

MCLex == <<Label("", <<"a">>, "BUILD"), A("bin"), A("lib"), A("main.rs"), A("s1"), A("s2"), A("t"), A("u"),
           Sub("sub"), Label("", <<"b">>, "BUILD"), B("b"), B("cfg"), B("impl"), C, D, H>>

One(l) == Pattern(l.repo, l.pkg, "one", l.name)
MCSpelling ==
    ("//a:bin" :> One(A("bin"))) @@ ("//a:lib" :> One(A("lib"))) @@ ("//a:s1" :> One(A("s1")))
    @@ ("//b:impl" :> One(B("impl"))) @@ ("//b" :> One(B("b"))) @@ ("@d" :> Pattern("d", <<>>, "one", "d"))
    @@ ("//b/sub" :> One(Sub("sub"))) @@ ("//b/..." :> Pattern("", <<"b">>, "rec", ""))
    @@ ("//..." :> Pattern("", <<>>, "rec", "")) @@ ("//a:*" :> Pattern("", <<"a">>, "star", ""))
    @@ ("//b:all" :> Pattern("", <<"b">>, "all", "")) @@ ("//x:all" :> Pattern("", <<"x">>, "all", ""))
    @@ ("@c//..." :> Pattern("c", <<>>, "rec", ""))
MCNumeral == ("0" :> 0) @@ ("1" :> 1) @@ ("2" :> 2)
MCRegex == ("rust" :> {"rust_binary", "rust_library", "rust_test"}) @@ ("impl" :> {"impl"})

Pat(w) == Node("pattern", <<w>>, None, <<>>)
V == Node("var", <<"v">>, None, <<>>)
Fn(f, s, n, x) == Node(f, s, n, x)

Roots == {Pat("//a:bin"), Pat("//a:lib"), Pat("//b"), Pat("//b:impl"), Pat("@d"), Pat("//b/..."), Pat("//a:*")}
Inner == {Node(op, <<>>, None, <<Pat("//a:bin"), Pat("//b/...")>>) : op \in {"union", "except", "intersect"}}
MCQuestions ==
    Roots \cup Inner \cup {Pat("//x:all"), Pat("@c//..."), V}
    \cup {Fn("deps", <<>>, n, <<x>>) : n \in {None, 0, 1, 2}, x \in Roots \cup Inner}
    \cup {Fn("rdeps", <<>>, n, <<u, x>>) : n \in {None, 1}, u \in {Pat("//..."), Pat("//a:*"), Fn("deps", <<>>, None, <<Pat("//a:bin")>>)},
                                           x \in {Pat("//b:impl"), Pat("@d"), Pat("//b/...")}}
    \cup {Fn(f, <<>>, None, <<x, y>>) : f \in {"somepath", "allpaths"}, x \in {Pat("//a:bin"), Pat("//a:*"), Pat("//b")},
                                        y \in {Pat("//b:impl"), Pat("@d"), Pat("//b/..."), Fn("deps", <<>>, None, <<Pat("//b/sub")>>)}}
    \cup {Fn(f, <<>>, None, <<x>>) : f \in {"tests", "siblings", "same_pkg_direct_rdeps"},
                                     x \in {Pat("//a:s1"), Pat("//a:*"), Pat("//..."), Pat("//b:impl")}}
    \cup {Fn(f, <<"rust">>, None, <<Fn("deps", <<>>, None, <<Pat("//a:bin")>>)>>) : f \in {"kind", "filter"}}
    \cup {Fn("attr", <<"deps", r>>, None, <<Pat("//...")>>) : r \in {"impl", "bad"}}
    \cup {Fn("labels", <<"deps">>, None, <<x>>) : x \in {Pat("//a:lib"), Pat("//...")}}
    \cup {Fn("visible", <<>>, None, <<p, Pat("//...")>>) : p \in {Pat("//b/sub"), Pat("//b"), Pat("//a:bin")}}
    \cup {Node(op, <<>>, None, x) : op \in {"union", "except"}, x \in {<<Pat("//b:impl"), i>> : i \in Inner} \cup {<<i, Pat("//b")>> : i \in Inner}}
    \cup {Node("let", <<"v">>, None, <<Pat("//a:lib"), Node("union", <<>>, None, <<V, Fn("deps", <<>>, 1, <<V>>)>>)>>)}

MCGarbled == {<<>>, <<Word(")")>>, <<Word("deps"), Word("("), Word("//a:bin")>>,
              <<Word("//a:bin"), Word("//b")>>, <<Word("//a:bin"), Word("+")>>,
              <<Word("set"), Word("("), Word(")")>>,
              <<Word("deps"), Word("("), Word("//a:bin"), Word(","), Word("rust"), Word(")")>>,
              <<Word("let"), Word("v"), Word("="), Word("//b"), Word("//b")>>}

=============================================================================
