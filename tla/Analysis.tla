------------------------------ MODULE Analysis ------------------------------
(***************************************************************************)
(* One analysis Session of razel-loading: packages are loaded on demand,   *)
(* their declarations recorded, and targets analysed when they are needed  *)
(* (rules/pkg.rs, rules/eval.rs, decls/, deps.rs, dialect.rs).             *)
(*                                                                         *)
(* Only an ENTRY package is driven; a package loaded as a dependency keeps *)
(* its declarations for later demand.  A declaration is run again from the *)
(* start after everything it asked for has been loaded or analysed: the    *)
(* Session only grows meanwhile, so it gets as far as before and further.  *)
(***************************************************************************)
EXTENDS Rules

CONSTANTS
    Workspaces, \* what may be on disk: the BUILD file of each package that has one
    Disk,      \* the source files that exist, as labels
    AllPkgs,   \* every package some label names
    Configs,   \* the configurations to analyse under
    Requests   \* the sequences of requests to one Session

VARIABLES build, sess, loads, entry, analyzing, todo, report
analysisVars == <<build, sess, loads, entry, analyzing, todo, report>>

(* A statement of a BUILD file; attrs maps an attribute to its parts. *)
Statement(kind, l, attrs) ==
    [kind |-> kind, l |-> l, attrs |-> attrs, outs |-> {}, spec |-> Plain,
     tcw |-> <<>>, aspect |-> FALSE, crate |-> <<>>, links |-> {}]

Eager == {"sh_binary", "js_binary", "js_library", "ts_project", "test_suite", "platform"}
Settings == {"config_setting", "config_setting_group", "constraint_value"}
Rust == {"rust_library", "rust_binary", "rust_proc_macro"}

PkgDecls(p) == IF p \in DOMAIN build THEN build[p] ELSE <<>>
DeclOf(l) ==
    LET b == PkgDecls(pkg_of(l))
    IN  b[CHOOSE i \in DOMAIN b : b[i].l = l]
InPkg(labels, p) == {l \in labels : pkg_of(l) = p}
Without(f, S) == [x \in DOMAIN f \ S |-> f[x]]

(* A request is a package to drive (drive_tree) or a label to build.        *)
Drive(p) == [pkg |-> p, top |-> <<>>]
Top(l) == [pkg |-> pkg_of(l), top |-> <<l>>]

AnalysisInit ==
    /\ build \in Workspaces
    /\ \E f \in Configs :
         sess = [flags |-> f, pkgs |-> [p \in AllPkgs |-> "no"], specs |-> <<>>, aliases |-> <<>>,
                 outs |-> <<>>, pending |-> {}, deferred |-> {}, failed |-> {}, rows |-> <<>>,
                 facts |-> <<>>, captured |-> <<>>, cross |-> <<>>, incompat |-> {}, ran |-> <<>>]
    /\ todo \in Requests
    /\ loads = <<>> /\ entry = <<>> /\ analyzing = <<>> /\ report = <<>>

-----------------------------------------------------------------------------
(* What a declaration asks of the Session before it can be recorded: st is  *)
(* "ok", "load" (of: the label whose package), "demand" or "fail".          *)
Ok == Answer("ok", <<>>)
Fail == Answer("fail", <<>>)
OnStack(l) == \E i \in DOMAIN analyzing : analyzing[i].l = l

(* ensure_analyzed.  A pending declaration of another module cannot be met  *)
(* in one thread: only the entry's own module is ever driven.               *)
ensure_analyzed(s, l) ==
    CASE l \in DOMAIN s.rows -> Ok
      [] l \notin DOMAIN s.rows /\ OnStack(l) -> Fail
      [] OTHER ->
           IF l \in s.pending THEN Answer("demand", <<l>>)
           ELSE CASE s.pkgs[pkg_of(l)] = "no" -> Answer("load", <<l>>)
                  [] s.pkgs[pkg_of(l)] = "error" -> Fail
                  [] OTHER -> IF l \in s.failed THEN Fail
                              ELSE IF l \in s.deferred THEN Answer("demand", <<l>>) ELSE Ok

(* Aliases forward to their actual, which is ensured in turn. *)
RECURSIVE Forwarded(_, _, _)
Forwarded(s, l, fuel) ==
    IF fuel > 0 /\ l \in DOMAIN s.aliases THEN Forwarded(s, s.aliases[l], fuel - 1) ELSE l
RECURSIVE Forward(_, _, _)
Forward(s, l, fuel) ==
    LET a == ensure_analyzed(s, l)
    IN  IF a.st = "ok" /\ fuel > 0 /\ l \in DOMAIN s.aliases
        THEN Forward(s, s.aliases[l], fuel - 1) ELSE a

(* The instances a Starlark consumer sees: its own module's, then harvested. *)
Instance(s, t) ==
    IF t \in DOMAIN s.captured THEN <<s.captured[t]>>
    ELSE IF t \in DOMAIN s.cross THEN <<s.cross[t]>> ELSE <<>>

(* A dep that has a row but no visible instance is analysed again here. *)
Reanalyse(s, t) ==
    /\ Instance(s, t) = <<>> /\ ~OnStack(t)
    /\ t \in s.deferred /\ DeclOf(t).kind = "rule"

(* resolve_dep and resolve_label_attr: a target, a generated file (its      *)
(* producer is ensured), a source file, or an error.                        *)
resolve_dep_unproduced(s, l, starlark) ==
    LET a == Forward(s, l, 32)
        t == Forwarded(s, l, 32)
    IN  IF a.st = "ok" /\ t \notin DOMAIN s.rows /\ t \notin DOMAIN s.outs \cup Disk THEN Fail ELSE a
resolve_dep(s, l, starlark) ==
    LET Of(a, t) ==
          CASE a.st # "ok" -> a
            [] a.st = "ok" /\ t \in DOMAIN s.rows ->
                 IF starlark /\ Reanalyse(s, t) THEN Answer("demand", <<t>>) ELSE Ok
            [] a.st = "ok" /\ t \notin DOMAIN s.rows ->
                 IF t \in DOMAIN s.outs THEN ensure_analyzed(s, s.outs[t].by)
                 ELSE IF t \in Disk THEN Ok ELSE Fail
    IN  Only({Of(a, t) : a \in {Forward(s, l, 32)}, t \in {Forwarded(s, l, 32)}})
DepInfo(s, l) ==
    LET Of(t) == IF t \in DOMAIN s.rows THEN TargetDep(s.rows, s.facts, t)
                 ELSE IF t \in DOMAIN s.outs THEN FileDep(t, s.outs[t].path)
                 ELSE FileDep(t, Qualified(t))
    IN  Only({Of(t) : t \in {Forwarded(s, l, 32)}})

(* The label a Starlark target records for a dep: none for a source file.   *)
DepLabels(s, l) ==
    LET t == Forwarded(s, l, 32)
    IN  IF t \in DOMAIN s.rows THEN {t}
        ELSE IF t \in DOMAIN s.outs THEN {s.outs[t].by} ELSE {}

-----------------------------------------------------------------------------
(* The attributes of a kind in the order its body reads them: the selects   *)
(* of a group are resolved, then its labels.                                *)
Groups(kind) ==
    CASE kind \in Rust -> << <<"srcs", "deps", "proc_macro_deps">>, <<"compile_data">>, <<"rustc_env_files">> >>
      [] kind = "cargo_build_script" ->
           << <<"srcs", "deps">>, <<"data">>, <<"compile_data">>, <<"rustc_env_files">>, <<"link_deps">> >>
      [] kind = "rule" -> << <<"deps", "_tool">> >>
      [] kind \in {"genrule", "filegroup"} -> << <<"srcs">> >>
      [] OTHER -> << <<"srcs", "hdrs", "deps">> >>

Parts(d, a) == IF a \in DOMAIN d.attrs THEN d.attrs[a] ELSE <<>>

(* rust_test(crate = :lib) takes the sources and adds the deps of the       *)
(* library as it was declared: the plain parts, no select.                  *)
PlainParts(d, a) == SelectSeq(Parts(d, a), LAMBDA p : ~p.sel)
AttrParts(d, a) ==
    IF d.crate = <<>> THEN Parts(d, a)
    ELSE CASE a = "srcs" -> PlainParts(DeclOf(d.crate[1]), "srcs")
           [] a = "deps" -> Parts(d, "deps") \o PlainParts(DeclOf(d.crate[1]), "deps")
           [] OTHER      -> Parts(d, a)

(* The first answer of a sequence that is not "ok". *)
FirstOpen(answers) ==
    LET Pick(q) == LET open == {i \in DOMAIN q : q[i].st # "ok"}
                   IN  IF open = {} THEN Ok ELSE q[CHOOSE i \in open : \A j \in open : i <= j]
    IN  Only({Pick(q) : q \in {answers}})

Resolved(s, d, a, probe) == Only({resolve_parts(s, parts, probe) : parts \in {AttrParts(d, a)}})
Refs(s, d, a, probe) ==
    Only({IF r.st = "ok" THEN SelectSeq(r.of, LAMBDA v : v.dep) ELSE <<>> : r \in {Resolved(s, d, a, probe)}})
RefsNeed(s, d, a, probe) ==
    Only({FirstOpen([i \in DOMAIN vals |-> resolve_dep(s, vals[i].l, d.kind = "rule")]) :
             vals \in {Refs(s, d, a, probe)}})
GroupNeed(s, d, g, probe) ==
    FirstOpen([i \in DOMAIN g |-> Resolved(s, d, g[i], probe)]
              \o [i \in DOMAIN g |-> RefsNeed(s, d, g[i], probe)])

(* is_incompatible: some target_compatible_with condition does not hold.    *)
Compatibility(s, d, probe) ==
    LET ask == [i \in DOMAIN d.tcw |-> condition_matches(s, d.tcw[i], TRUE, probe, 32)]
        off == {i \in DOMAIN ask : ask[i].st # "yes"}
        a   == ask[CHOOSE i \in off : \A j \in off : i <= j]
    IN  IF off = {} THEN Ok
        ELSE IF a.st \in {"load", "error"} THEN a ELSE Answer("incompatible", <<>>)

(* The aspect of a Starlark rule's deps, as the set of targets it visits:   *)
(* it goes on through the dep's declaration, when that can be found.        *)
Original(s, l) == (entry # <<>> /\ pkg_of(l) = entry[1].pkg) \/ l \in s.deferred
AspectDeps(s, t) ==
    IF t \in DOMAIN s.rows /\ Original(s, t) /\ DeclOf(t).kind = "rule"
    THEN {Forwarded(s, v.l, 32) : v \in Range(Refs(s, DeclOf(t), "deps", <<>>))} ELSE {}
RECURSIVE AspectOf(_, _)
AspectOf(s, visited) ==
    UNION {IF more \subseteq visited THEN visited ELSE AspectOf(s, visited \cup more) :
              more \in {UNION {AspectDeps(s, t) : t \in visited}}}

-----------------------------------------------------------------------------
(* Phase 2: the row a declaration records once nothing is open. *)
Infos(s, d, a, probe) ==
    {DepInfo(s, v.l) : v \in Range(Refs(s, d, a, probe))}
AttrNames == {"srcs", "hdrs", "deps", "proc_macro_deps", "compile_data", "data",
              "rustc_env_files", "link_deps", "links"}
Resolution(s, d, probe) ==
    LET From(a) == IF a = "deps" /\ d.kind \in {"genrule", "filegroup"} THEN "srcs" ELSE a
    IN  [a \in AttrNames |->
            CASE a \in {"srcs", "hdrs"} -> Resolved(s, d, a, probe).of
              [] a = "links"           -> d.links
              [] OTHER                 -> Infos(s, d, From(a), probe)]

(* A Starlark rule (its implementation is the user's): it reads the files   *)
(* of its deps, writes one file and returns a provider that collects the    *)
(* instances, or what the aspect visited, of its deps.                      *)
Collected(s, d, deps) ==
    {d.l} \cup UNION {UNION Range(Instance(s, Forwarded(s, l, 32))) : l \in deps}
          \cup (IF d.aspect THEN AspectOf(s, {Forwarded(s, l, 32) : l \in deps}) ELSE {})
StarlarkRow(s, d, deps, all) ==
    LET t == Target(UNION {DepLabels(s, l) : l \in all},
                    << Action("Starlark", UNION {DepInfo(s, l).libs : l \in all}, {Bin(d.l, "out")}) >>,
                    {Bin(d.l, "out")})
    IN  [t EXCEPT !.prov.info = Collected(s, d, deps)]
analyze_rule_decl(s, d, probe) ==
    LET Of(a) == {v.l : v \in Range(Refs(s, d, a, probe))}
    IN  Only({StarlarkRow(s, d, deps, deps \cup tool) : deps \in {Of("deps")}, tool \in {Of("_tool")}})

RowOf(s, d, probe, R) ==
    CASE d.kind = "rust_library"        -> rust_library(s.rows, d.l, R)
      [] d.kind = "rust_binary"         -> rust_binary(s.rows, d.l, R)
      [] d.kind = "rust_proc_macro"     -> rust_proc_macro(s.rows, d.l, R)
      [] d.kind = "rust_test"           -> rust_test(s.rows, d.l, R)
      [] d.kind = "rust_shared_library" -> rust_shared_library(s.rows, d.l, R)
      [] d.kind = "rust_library_group"  -> rust_library_group(s.rows, d.l, R)
      [] d.kind = "cargo_build_script"  -> cargo_build_script(s.rows, d.l, R)
      [] d.kind = "cargo_toml_env_vars" -> cargo_toml_env_vars(d.l)
      [] d.kind = "cc_library"          -> cc_library(d.l, R)
      [] d.kind = "cc_binary"           -> cc_binary(d.l, R)
      [] d.kind = "py_library"          -> py_library(d.l, R)
      [] d.kind = "py_binary"           -> py_executable(d.l, R)
      [] d.kind = "genrule"             -> genrule(d.outs, R)
      [] d.kind = "filegroup"           -> filegroup(R)
      [] d.kind = "rule"                -> analyze_rule_decl(s, d, probe)
Body(s, d, probe) == Only({RowOf(s, d, probe, R) : R \in {Resolution(s, d, probe)}})

(* What running a declaration comes to: its first open question, or a row.  *)
Progress(s, d, probe) ==
    LET groups == Groups(d.kind)
        Crate  == IF d.crate # <<>> /\ s.pkgs[pkg_of(d.crate[1])] = "no" THEN Fail ELSE Ok
        Script == IF d.kind \in Rust
                     /\ ~OneScript(Infos(s, d, "deps", probe) \cup Infos(s, d, "proc_macro_deps", probe))
                  THEN Fail ELSE Ok
    IN  FirstOpen(<<Compatibility(s, d, probe), Crate>>
                  \o [i \in DOMAIN groups |-> GroupNeed(s, d, groups[i], probe)] \o <<Script>>)

(* record_target: into results and into the fact store. *)
Record(s, l, t) == [s EXCEPT !.rows = (l :> t) @@ @, !.facts = (l :> t) @@ @]

-----------------------------------------------------------------------------
Idle == loads = <<>> /\ analyzing = <<>>

(* load_package_entry on the next request. *)
LoadEntry ==
    /\ Idle /\ entry = <<>> /\ todo # <<>>
    /\ sess.pkgs[Head(todo).pkg] = "no"
    /\ sess' = [sess EXCEPT !.pkgs[Head(todo).pkg] = "loading"]
    /\ loads' = <<[pkg |-> Head(todo).pkg, i |-> 1, probe |-> <<>>]>>
    /\ entry' = <<[pkg |-> Head(todo).pkg, i |-> 1]>>
    /\ UNCHANGED <<analyzing, todo, report>>

(* The verdict on a label whose package is loaded: an alias goes on to its  *)
(* actual; a target that reaches an incompatible one is refused.            *)
Required(s, l) == Closure(s.rows, {l}, {})
Finish(s, ok) ==
    LET r == Head(todo)
        v == IF ~ok THEN "error"
             ELSE IF r.top # <<>> /\ Required(s, r.top[1]) \cap s.incompat # {} THEN "incompatible"
             ELSE "ok"
    IN  IF ok /\ r.top # <<>> /\ r.top[1] \in DOMAIN s.aliases
        THEN todo' = <<Top(s.aliases[r.top[1]])>> \o Tail(todo) /\ report' = report
        ELSE todo' = Tail(todo) /\ report' = Append(report, [pkg |-> r.pkg, top |-> r.top, v |-> v])

(* The package was loaded before, as an entry or for a dependent: nothing   *)
(* is driven.  A package in error answers its cached error.                 *)
EntryKnown ==
    /\ Idle /\ entry = <<>> /\ todo # <<>>
    /\ sess.pkgs[Head(todo).pkg] \in {"done", "error"}
    /\ Finish(sess, sess.pkgs[Head(todo).pkg] = "done")
    /\ UNCHANGED <<sess, loads, entry, analyzing>>

Loading == loads[Len(loads)]
IsEntry == Len(loads) = 1 /\ entry # <<>> /\ entry[1].pkg = Loading.pkg
Stmt == PkgDecls(Loading.pkg)[Loading.i]
Reading == loads # <<>> /\ Loading.pkg \in DOMAIN build /\ Loading.i <= Len(build[Loading.pkg])
NextStatement == loads' = [loads EXCEPT ![Len(loads)].i = @ + 1, ![Len(loads)].probe = <<>>]
PushLoad(l) == Append(loads, [pkg |-> pkg_of(l), i |-> 1, probe |-> <<>>])

(* The declare phase, one statement at a time.  A constraint_value holds on *)
(* the host or never.                                                       *)
SpecOf(flags, d) ==
    IF d.kind # "constraint_value" THEN d.spec
    ELSE IF host_constraint_matches(flags, d.l) THEN Plain ELSE Unmodeled
DeclareSetting ==
    /\ Reading /\ Stmt.kind \in Settings
    /\ sess' = Record([sess EXCEPT !.specs = (Stmt.l :> SpecOf(sess.flags, Stmt)) @@ @], Stmt.l, NamedOnly)
    /\ NextStatement
    /\ UNCHANGED <<entry, analyzing, todo, report>>

EagerRow(d) ==
    LET vals == IF "srcs" \in DOMAIN d.attrs THEN d.attrs["srcs"][1].vals ELSE <<>>
    IN  CASE d.kind = "sh_binary"  -> sh_binary(d.l, vals)
          [] d.kind = "js_binary"  -> js_binary(d.l, vals)
          [] d.kind = "js_library" -> js_library(vals)
          [] d.kind = "ts_project" -> ts_project(vals)
          [] d.kind \in {"test_suite", "platform"} -> NamedOnly
DeclareEager ==
    /\ Reading /\ Stmt.kind \in Eager
    /\ sess' = Record(sess, Stmt.l, EagerRow(Stmt))
    /\ NextStatement
    /\ UNCHANGED <<entry, analyzing, todo, report>>

(* alias resolves its select at once: the package of a condition may load.  *)
Actual == resolve_parts(sess, Parts(Stmt, "actual"), Loading.probe)
DeclareAlias ==
    /\ Reading /\ Stmt.kind = "alias" /\ Actual.st = "ok"
    /\ sess' = Record([sess EXCEPT !.aliases = (Stmt.l :> Actual.of[1].l) @@ @], Stmt.l, NamedOnly)
    /\ NextStatement
    /\ UNCHANGED <<entry, analyzing, todo, report>>
AliasLoads ==
    /\ Reading /\ Stmt.kind = "alias" /\ Actual.st = "load"
    /\ sess' = [sess EXCEPT !.pkgs[pkg_of(Actual.of[1])] = "loading"]
    /\ loads' = Append([loads EXCEPT ![Len(loads)].probe = Actual.of],
                       [pkg |-> pkg_of(Actual.of[1]), i |-> 1, probe |-> <<>>])
    /\ UNCHANGED <<entry, analyzing, todo, report>>

(* A label_flag or label_setting forwards to its default, if it has one. *)
DefaultOf(d) ==
    IF "build_setting_default" \in DOMAIN d.attrs
    THEN d.l :> d.attrs["build_setting_default"][1].vals[1].l ELSE <<>>
DeclareLabelSetting ==
    /\ Reading /\ Stmt.kind = "label_setting"
    /\ sess' = Record([sess EXCEPT !.aliases = DefaultOf(Stmt) @@ @], Stmt.l, NamedOnly)
    /\ NextStatement
    /\ UNCHANGED <<entry, analyzing, todo, report>>

(* A rule records its declaration, and its outputs as file labels. *)
DeclareTarget ==
    /\ Reading /\ Stmt.kind \notin Settings \cup Eager \cup {"alias", "label_setting", "bad"}
    /\ sess' = [sess EXCEPT !.pending = @ \cup {Stmt.l},
                  !.outs = [o \in Stmt.outs |-> [by |-> Stmt.l, path |-> Qualified(o)]] @@ @]
    /\ NextStatement
    /\ UNCHANGED <<entry, analyzing, todo, report>>

(* purge_partial_package: results and pending lose the package; the rest    *)
(* of the Session keeps what the failed evaluation put there.               *)
purge_partial_package(s, p) ==
    [s EXCEPT !.rows = Without(@, InPkg(DOMAIN @, p)), !.pending = @ \ InPkg(@, p)]

(* No BUILD file, or an error while it is read: the package is in error,    *)
(* for good.                                                                *)
DeclareFails ==
    /\ loads # <<>>
    /\ \/ Loading.pkg \notin DOMAIN build
       \/ Reading /\ (Stmt.kind = "bad" \/ (Stmt.kind = "alias" /\ Actual.st = "error"))
    /\ sess' = purge_partial_package([sess EXCEPT !.pkgs[Loading.pkg] = "error"], Loading.pkg)
    /\ loads' = Front(loads)
    /\ IF IsEntry THEN entry' = <<>> /\ Finish(sess', FALSE) ELSE UNCHANGED <<entry, todo, report>>
    /\ UNCHANGED analyzing

(* The end of the file: a dependency's declarations are kept for demand; an *)
(* entry goes on to drive its own.                                          *)
Declared ==
    /\ loads # <<>> /\ Loading.pkg \in DOMAIN build /\ Loading.i > Len(build[Loading.pkg])
    /\ LET mine == InPkg(sess.pending, Loading.pkg)
       IN  sess' = IF IsEntry THEN sess
                   ELSE [sess EXCEPT !.pkgs[Loading.pkg] = "done", !.pending = @ \ mine,
                                     !.deferred = @ \cup mine]
    /\ loads' = Front(loads)
    /\ UNCHANGED <<entry, analyzing, todo, report>>

-----------------------------------------------------------------------------
Push(s, l) == [s EXCEPT !.pending = @ \ {l}]
Frame(l) == [l |-> l, probe |-> <<>>]

(* drive_decls: the entry's declarations in order; one that a dependent     *)
(* pulled earlier has an empty slot.                                        *)
drive_decls ==
    /\ Idle /\ entry # <<>> /\ entry[1].i <= Len(build[entry[1].pkg])
    /\ LET l == build[entry[1].pkg][entry[1].i].l
       IN  IF l \in sess.pending
           THEN sess' = Push(sess, l) /\ analyzing' = <<Frame(l)>>
           ELSE UNCHANGED <<sess, analyzing>>
    /\ entry' = [entry EXCEPT ![1].i = @ + 1]
    /\ UNCHANGED <<loads, todo, report>>

(* index_harvest: what the entry's module captured becomes visible to all.  *)
Harvest(s) == [s EXCEPT !.cross = s.captured @@ @, !.captured = <<>>]
Driven ==
    /\ Idle /\ entry # <<>> /\ entry[1].i > Len(build[entry[1].pkg])
    /\ sess' = Harvest([sess EXCEPT !.pkgs[entry[1].pkg] = "done"])
    /\ entry' = <<>>
    /\ Finish(sess', TRUE)
    /\ UNCHANGED <<loads, analyzing>>

Running == analyzing[Len(analyzing)]


(* A dependency's package is loaded first; conditions are then asked again  *)
(* with loads forbidden.                                                    *)
DemandPackage(a) ==
    /\ a.st = "load"
    /\ sess' = [sess EXCEPT !.pkgs[pkg_of(a.of[1])] = "loading"]
    /\ loads' = PushLoad(a.of[1])
    /\ analyzing' = [analyzing EXCEPT ![Len(analyzing)].probe = a.of]
    /\ UNCHANGED <<entry, todo, report>>

DemandTarget(a) ==
    /\ a.st = "demand"
    /\ sess' = Push(sess, a.of[1])
    /\ analyzing' = Append(analyzing, Frame(a.of[1]))
    /\ UNCHANGED <<loads, entry, todo, report>>

Count(f, l) == IF l \in DOMAIN f THEN f[l] ELSE 0
RecordTarget(a, d, probe) ==
    /\ a.st \in {"ok", "incompatible"}
    /\ LET row == IF a.st = "ok" THEN Body(sess, d, probe) ELSE NamedOnly
           s   == Record(sess, Running.l, row)
       IN  sess' = [s EXCEPT
                 !.captured = IF d.kind = "rule" THEN (Running.l :> row.prov.info) @@ @ ELSE @,
                 !.incompat = IF a.st = "ok" THEN @ ELSE @ \cup {Running.l},
                 !.ran = (Running.l :> Count(sess.ran, Running.l) + 1) @@ @]
    /\ analyzing' = Front(analyzing)
    /\ UNCHANGED <<loads, entry, todo, report>>

(* An error ends every declaration on the stack and the entry's drive.  The *)
(* native bodies run on demand are consumed, and their error is kept; the   *)
(* entry may be loaded again; what its module captured is salvaged.         *)
Unwound_unsalvaged(s) ==
    LET p == entry[1].pkg
    IN  purge_partial_package([s EXCEPT !.captured = <<>>, !.pkgs[p] = "no"], p)
Unwound_poisoned(s) ==
    LET p == entry[1].pkg
    IN  purge_partial_package(Harvest([s EXCEPT !.pkgs[p] = "error"]), p)
Unwound(s) ==
    LET frames == {analyzing[i].l : i \in DOMAIN analyzing}
        p      == entry[1].pkg
        native == {l \in frames \cap s.deferred : DeclOf(l).kind # "rule"}
    IN  purge_partial_package(Harvest([s EXCEPT !.failed = @ \cup native, !.pkgs[p] = "no"]), p)
AnalysisFails(a) ==
    /\ a.st \in {"fail", "error"}
    /\ sess' = Unwound(sess)
    /\ analyzing' = <<>> /\ entry' = <<>>
    /\ Finish(sess', FALSE)
    /\ UNCHANGED loads

Analyze ==
    /\ loads = <<>> /\ analyzing # <<>>
    /\ \E d \in {DeclOf(Running.l)}, probe \in {Running.probe} : \E a \in {Progress(sess, d, probe)} :
         DemandPackage(a) \/ DemandTarget(a) \/ RecordTarget(a, d, probe) \/ AnalysisFails(a)

Finished == Idle /\ entry = <<>> /\ todo = <<>>
Done == Finished /\ UNCHANGED analysisVars

Step ==
    \/ LoadEntry \/ EntryKnown
    \/ DeclareSetting \/ DeclareEager \/ DeclareAlias \/ AliasLoads \/ DeclareLabelSetting
    \/ DeclareTarget \/ DeclareFails \/ Declared
    \/ drive_decls \/ Driven
    \/ Analyze
    \/ Done
AnalysisNext == Step /\ UNCHANGED build

-----------------------------------------------------------------------------
(* What the workspace means, read off the BUILD files as a whole: the       *)
(* settings and aliases of all of them, and the least set of targets whose  *)
(* labels all resolve.                                                      *)
AllDecls == UNION {Range(build[p]) : p \in DOMAIN build}
InError == {p \in AllPkgs : p \notin DOMAIN build \/ \E d \in Range(build[p]) : d.kind = "bad"}
Known == {d \in AllDecls : pkg_of(d.l) \notin InError}
Whole(flags) ==
    LET of(kinds) == {d \in Known : d.kind \in kinds}
        s == [flags |-> flags, aliases |-> <<>>,
              pkgs |-> [p \in AllPkgs |-> IF p \in InError THEN "error" ELSE "done"],
              specs |-> [l \in {d.l : d \in of(Settings)} |-> SpecOf(flags, DeclOf(l))]]
        defaults == FoldSet(LAMBDA d, f : DefaultOf(d) @@ f, <<>>, of({"label_setting"}))
    IN  [s EXCEPT !.aliases = defaults @@ [l \in {d.l : d \in of({"alias"})} |->
                                  resolve_parts(s, DeclOf(l).attrs["actual"], <<>>).of[1].l]]
Meant(w, d) ==
    LET Of(ans) == IF \A a \in DOMAIN ans : ans[a].st = "ok"
                   THEN Answer("ok", {Forwarded(w, v.l, 32) :
                                         v \in {u \in UNION {Range(ans[a].of) : a \in DOMAIN ans} : u.dep}})
                   ELSE Fail
    IN  Only({Of(ans) : ans \in {[a \in DOMAIN d.attrs \cup {"deps"} |-> Resolved(w, d, a, <<>>)]}})
RECURSIVE Grow(_, _)
Grow(needs, X) ==
    LET files   == {f \in Disk : pkg_of(f) \notin InError} \cup UNION {d.outs : d \in {k \in Known : k.l \in X}}
        next(F) == {d.l : d \in {k \in Known : needs[k].st = "ok" /\ needs[k].of \subseteq X \cup F}}
    IN  Only({IF more \subseteq X THEN X ELSE Grow(needs, X \cup more) : more \in {next(files)}})
Analysable(flags) ==
    Only({Grow(needs, {}) : needs \in
             {[d \in Known |-> Meant(w, d)] : w \in {Whole(flags)}}})

(* A row says what the target's body would say now: nothing it read was     *)
(* incomplete when it was read.  What an aspect visits is left out: it      *)
(* depends on whose declarations the reader can see.                        *)
StableRows ==
    Finished =>
        \A d \in {DeclOf(l) : l \in (DOMAIN sess.rows \ sess.incompat) \cap DOMAIN sess.ran} :
            /\ Progress(sess, d, <<>>).st = "ok"
            /\ d.aspect \/ Body(sess, d, <<>>) = sess.rows[d.l]

Reads(t) == UNION {a.inputs : a \in Range(t.actions)}
Writes(t) == UNION {a.outputs : a \in Range(t.actions)}

(* Every file an action reads is a source file, or some recorded action     *)
(* writes it: configure_targets takes any other input for a source file.    *)
InputsProduced ==
    Finished =>
    LET made == UNION {Writes(sess.facts[l]) : l \in DOMAIN sess.facts}
    IN  \A l \in DOMAIN sess.rows : \A f \in Reads(sess.rows[l]) :
            f \in made \/ (~f.bin /\ f.l \in Disk)

(* A package fails only if it, or a target of it, has no meaning: not for   *)
(* the order of the requests, nor for an earlier failure.                   *)
NoFalseError ==
    Finished => \E good \in {Analysable(sess.flags)} :
        \A i \in DOMAIN report : report[i].v = "error" =>
            \/ report[i].pkg \in InError
            \/ \E d \in Range(build[report[i].pkg]) : d.l \notin good

(* A target with a row is not analysed a second time. *)
AnalysedOnce ==
    [][\A l \in DOMAIN sess'.ran :
          Count(sess'.ran, l) > Count(sess.ran, l) => l \notin DOMAIN sess.rows]_analysisVars
=============================================================================
