-------------------------------- MODULE Rules --------------------------------
(***************************************************************************)
(* The native rule bodies of razel-loading: what each records for a target *)
(* once its attributes and dependencies are resolved (rust_rules.rs,       *)
(* rust_common.rs, rust_attrs.rs, cargo_rules.rs, native_cc.rs,            *)
(* py_rules.rs, sh_rules.rs, js_rules.rs, and genrule, filegroup and the   *)
(* declare-only rules of dialect.rs), with the provider fold of dds.rs.    *)
(*                                                                         *)
(* An action keeps the files it reads and writes; argv is left out.  A     *)
(* value of an attribute is [dep, l]: a label, or (dep FALSE) the name of  *)
(* a file of the declaring package.                                        *)
(***************************************************************************)
EXTENDS Selects

Ref(l) == [dep |-> TRUE, l |-> l]
File(l) == [dep |-> FALSE, l |-> l]

(* A path: a file of the workspace (qualify) or below the output directory. *)
Qualified(l) == [bin |-> FALSE, l |-> l, ext |-> ""]
Bin(l, ext) == [bin |-> TRUE, l |-> l, ext |-> ext]

Action(mnemonic, inputs, outputs) ==
    [mnemonic |-> mnemonic, inputs |-> inputs, outputs |-> outputs]

(* AnalyzedTarget: providers are sets of paths, keyed as in the registry. *)
NoProviders == [hdrs |-> {}, py_srcs |-> {}, bs_flags |-> {},
                flags_file |-> {}, out_dir |-> {}, links |-> {}, marker |-> {}, info |-> {}]
Target(deps, actions, files) ==
    [deps |-> deps, actions |-> actions, default_info |-> files, prov |-> NoProviders]
NamedOnly == Target({}, <<>>, {})

(* fold_dep_fields: a folded field of a target is the union over its deps,  *)
(* transitively, over the fact store, which keeps what results drops.       *)
(* Own-only fields are read off the target itself.                          *)
RECURSIVE Closure(_, _, _)
Closure(rows, todo, seen) ==
    LET next == (UNION {rows[t].deps : t \in todo \cap DOMAIN rows}) \ (seen \cup todo)
    IN  IF next = {} THEN seen \cup todo ELSE Closure(rows, next, seen \cup todo)
FoldField(rows, l, f) ==
    UNION {rows[t].prov[f] : t \in Closure(rows, {l}, {}) \cap DOMAIN rows}

(* DepInfo: what resolve_dep hands to a native rule.  For a file label,     *)
(* source or generated, canon is the label of the file.                     *)
FileDep(l, path) ==
    [libs |-> {path}, canon |-> l, headers |-> {}, py_srcs |-> {}, link_flags |-> {},
     script |-> {}, links |-> {}, proc_macro |-> FALSE]
TargetDep(rows, facts, l) ==
    [libs |-> rows[l].default_info, canon |-> l,
     headers |-> FoldField(facts, l, "hdrs"), py_srcs |-> FoldField(facts, l, "py_srcs"),
     link_flags |-> FoldField(facts, l, "bs_flags"),
     script |-> rows[l].prov.flags_file \cup rows[l].prov.out_dir,
     links |-> rows[l].prov.links, proc_macro |-> rows[l].prov.marker # {}]

Canons(infos) == {d.canon : d \in infos}
Libs(infos) == UNION {d.libs : d \in infos}
Srcs(vals) == {Qualified(vals[i].l) : i \in DOMAIN vals}

-----------------------------------------------------------------------------
(* transitive_rlibs: the first rlib (else dylib) of each crate reached,     *)
(* going on through crates that have an rlib only.                          *)
RECURSIVE RlibClosure(_, _, _)
RlibClosure(rows, todo, seen) ==
    LET rlib(t) == \E f \in rows[t].default_info : f.ext = "rlib"
        next == (UNION {rows[t].deps : t \in {u \in todo \cap DOMAIN rows : rlib(u)}})
                    \ (seen \cup todo)
    IN  IF todo = {} THEN seen ELSE RlibClosure(rows, next, seen \cup todo)
FirstOf(files) ==
    LET rlibs  == {f \in files : f.ext = "rlib"}
        dylibs == {f \in files : f.ext = "dylib"}
    IN  IF rlibs # {} THEN {CHOOSE f \in rlibs : TRUE}
        ELSE IF dylibs # {} THEN {CHOOSE f \in dylibs : TRUE} ELSE {}
transitive_rlibs(rows, roots) ==
    UNION {FirstOf(rows[t].default_info) : t \in RlibClosure(rows, roots, {}) \cap DOMAIN rows}

(* extern_args: build scripts become an edge, proc macros are read as host  *)
(* libraries, every other dep is a root of the rlib closure.                *)
Scripts(infos) == {d \in infos : d.script # {}}
extern_inputs(rows, infos) ==
    LET macros == {d \in infos \ Scripts(infos) : d.proc_macro}
        crates == (infos \ Scripts(infos)) \ macros
    IN  Libs(macros) \cup transitive_rlibs(rows, Canons(crates))

(* apply_build_script_edge: at most one build script; its flags file and    *)
(* OUT_DIR, the env files and the linked flags files are inputs.            *)
build_script_inputs(infos, envs, link_flags) ==
    UNION {d.script : d \in Scripts(infos)} \cup Libs(envs)
        \cup link_flags \cup {[f EXCEPT !.ext = "out_dir"] : f \in link_flags}
OneScript(infos) == Cardinality(Scripts(infos)) <= 1

(* rust_library, rust_binary and rust_proc_macro; R.deps, R.proc_macro_deps, *)
(* R.compile_data and R.rustc_env_files are sets of DepInfo.                 *)
RustCrate(rows, R, out, link_flags) ==
    LET infos == R.deps \cup R.proc_macro_deps
    IN  Target(Canons(infos) \cup Canons(R.rustc_env_files),
               << Action("Rustc",
                         Srcs(R.srcs) \cup extern_inputs(rows, infos) \cup Libs(R.compile_data)
                            \cup build_script_inputs(infos, R.rustc_env_files, link_flags),
                         {out}) >>,
               {out})
rust_library(rows, l, R) ==
    LET out == Bin(l, "rlib")
        t   == RustCrate(rows, R, out, {})
    IN  [t EXCEPT !.prov.bs_flags = {f \in UNION {d.script : d \in Scripts(R.deps)} : f.ext = "out"}]
rust_binary(rows, l, R) ==
    RustCrate(rows, R, Bin(l, ""), UNION {d.link_flags : d \in R.deps})
rust_proc_macro(rows, l, R) ==
    [RustCrate(rows, R, Bin(l, "so"), {}) EXCEPT !.prov.marker = {"1"}]
(* rust_test: the deps of the crate under test are appended as written, its *)
(* selects dropped, and no build-script edge is applied.                    *)
rust_test(rows, l, R) ==
    Target(Canons(R.deps),
           << Action("Rustc", Srcs(R.srcs) \cup extern_inputs(rows, R.deps), {Bin(l, "")}) >>,
           {Bin(l, "")})
rust_shared_library(rows, l, R) ==
    Target(Canons(R.deps),
           << Action("Rustc", Srcs(R.srcs) \cup extern_inputs(rows, R.deps), {Bin(l, "dylib")}) >>,
           {Bin(l, "dylib")})
rust_library_group(rows, l, R) == Target(Canons(R.deps), <<>>, extern_inputs(rows, R.deps))

(* cargo_build_script: compile, then run; the run reads data and the flags  *)
(* files of link_deps that declare `links'.                                 *)
cargo_build_script(rows, l, R) ==
    LET linked == {d \in R.link_deps : d.script # {} /\ d.links # {}}
        flags  == Bin(l, "out")
        outdir == Bin(l, "out_dir")
        t == Target(Canons(R.deps) \cup Canons(R.rustc_env_files) \cup Canons(linked),
               << Action("Rustc",
                         Srcs(R.srcs) \cup extern_inputs(rows, R.deps) \cup Libs(R.rustc_env_files),
                         {Bin(l, "_")}),
                  Action("CargoBuildScriptRun",
                         {Bin(l, "_")} \cup Srcs(R.srcs) \cup Libs(R.data) \cup Libs(R.compile_data)
                            \cup Libs(R.rustc_env_files)
                            \cup {f \in UNION {d.script : d \in linked} : f.ext = "out"},
                         {flags, outdir}) >>,
               {})
    IN  [t EXCEPT !.prov.flags_file = {flags}, !.prov.out_dir = {outdir}, !.prov.links = R.links]
cargo_toml_env_vars(l) ==
    Target({}, << Action("FileWrite", {}, {Bin(l, "")}) >>, {Bin(l, "")})

-----------------------------------------------------------------------------
(* cc: a compile per source with all available headers, then archive or     *)
(* link; a binary links the libraries of its direct deps.                   *)
Compiles(vals, hdrs) ==
    [i \in DOMAIN vals |->
        Action("CppCompile", {Qualified(vals[i].l)} \cup hdrs, {Bin(vals[i].l, "o")})]
Objects(vals) == {Bin(vals[i].l, "o") : i \in DOMAIN vals}
Headers(infos) == UNION {d.headers : d \in infos}
cc_library(l, R) ==
    LET t == Target(Canons(R.deps),
                    Append(Compiles(R.srcs, Srcs(R.hdrs) \cup Headers(R.deps)),
                           Action("CppArchive", Objects(R.srcs), {Bin(l, "a")})),
                    {Bin(l, "a")})
    IN  [t EXCEPT !.prov.hdrs = Srcs(R.hdrs)]
cc_binary(l, R) ==
    Target(Canons(R.deps),
           Append(Compiles(R.srcs, Headers(R.deps)),
                  Action("CppLink", Objects(R.srcs) \cup Libs(R.deps), {Bin(l, "")})),
           {Bin(l, "")})

(* py: a library exports its sources and those of its deps; a binary is a   *)
(* launcher that reads them all.                                            *)
PySources(R) == Srcs(R.srcs) \cup UNION {d.py_srcs : d \in R.deps}
py_library(l, R) ==
    [Target(Canons(R.deps), <<>>, Srcs(R.srcs)) EXCEPT !.prov.py_srcs = PySources(R)]
py_executable(l, R) ==
    Target(Canons(R.deps), << Action("PyLauncher", PySources(R), {Bin(l, "")}) >>, {Bin(l, "")})

(* sh and js: recorded while the BUILD file is read, with no dependencies. *)
sh_binary(l, vals) ==
    Target({}, << Action("ShBinary", {Qualified(vals[1].l)}, {Qualified(l)}) >>, {Qualified(l)})
js_binary(l, vals) == Target({}, << Action("JsBinary", Srcs(vals), {Bin(l, "")}) >>, {Bin(l, "")})
js_library(vals) == Target({}, <<>>, Srcs(vals))
ts_project(vals) ==
    LET outs == {Bin(vals[i].l, "js") : i \in DOMAIN vals}
    IN  Target({}, << Action("TsProject", Srcs(vals), outs) >>, outs)

(* genrule: labels of srcs and tools are deps, names are files; its outputs *)
(* live in the source tree.  filegroup passes files on and records no deps. *)
PlainFiles(vals) == {Qualified(vals[i].l) : i \in {j \in DOMAIN vals : ~vals[j].dep}}
genrule(outs, R) ==
    LET made == {Qualified(o) : o \in outs}
    IN  Target(Canons(R.deps), << Action("Genrule", PlainFiles(R.srcs) \cup Libs(R.deps), made) >>, made)
filegroup(R) == Target({}, <<>>, PlainFiles(R.srcs) \cup Libs(R.deps))
=============================================================================
