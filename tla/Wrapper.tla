------------------------------ MODULE Wrapper ------------------------------
(***************************************************************************)
(* razel-process-wrapper: the shim every cargo build script and every      *)
(* rustc that depends on one is run through, over a crate graph whose      *)
(* scripts are edited, fail and run again. A script's stdout becomes a     *)
(* flags file; the crate's own rustc reads it whole, the binary that links *)
(* the crate reads its link directives only, and the scripts of the crates *)
(* that name it in link_deps read its metadata only.                       *)
(*                                                                         *)
(* A line a script prints is [colons, key, path]: the number of colons     *)
(* after `cargo` (0: not a directive), the key, and whether its value has  *)
(* the OUT_DIR path in it. What the value says is abstracted to the script *)
(* run that printed it. What is kept of an output keeps the numbers of its *)
(* lines: a selection is a function on some of them.                       *)
(***************************************************************************)
EXTENDS Integers, Sequences, FiniteSets, SequencesExt

CONSTANTS Scripted,    \* crates with a build script
          Plains,      \* library crates without one
          Binary,      \* the rust_binary
          CrateDeps,   \* crate or binary -> the crates it depends on
          LinksDeps,   \* scripted crate -> the crates in its link_deps
          HasLinks,    \* crates with a `links` name
          Stdouts,     \* what a script may print: sequences of lines
          MaxRuns      \* bound on the runs of a script

ASSUME WrapAssumption ==
  /\ CrateDeps \in [Scripted \cup Plains \cup {Binary} -> SUBSET (Scripted \cup Plains \cup {Binary})]
  /\ HasLinks \subseteq Scripted

VARIABLES flags_file,  \* scripted crate -> records of its flags file, by line
          script_env,  \* scripted crate -> environment its last run saw
          rustc_run,   \* crate or binary -> arguments and environment of its last rustc
          runs,        \* scripted crate -> number of runs
          stale        \* build actions the engine still has to run
wrapVars == <<flags_file, script_env, rustc_run, runs, stale>>

WCrates == Scripted \cup Plains \cup {Binary}
ScriptOf(c) == <<"script", c>>
RustcOf(c) == <<"rustc", c>>
WActions == {ScriptOf(c) : c \in Scripted} \cup {RustcOf(c) : c \in WCrates}
\* The transitive dependencies: in every set that has the direct ones and their own.
Beneath(c) ==
  {d \in WCrates : \A S \in SUBSET WCrates :
     CrateDeps[c] \subseteq S /\ (\A x \in S : CrateDeps[x] \subseteq S) => d \in S}

NotRun == [args |-> << >>, linked |-> << >>, env |-> << >>]
WrapInit ==
  /\ flags_file = [c \in Scripted |-> << >>]
  /\ script_env = [c \in Scripted |-> << >>]
  /\ rustc_run = [c \in WCrates |-> NotRun]
  /\ runs = [c \in Scripted |-> 0]
  /\ stale = WActions

-----------------------------------------------------------------------------
\* The parser: the reserved keys whatever the colons; of the others, one colon
\* is `links` metadata and two a deviation. A line without a value (no key) or
\* without `cargo:` is noise.
SINGLE_ARG_FLAGS == {"rustc-cfg", "rustc-env", "rustc-link-lib", "rustc-link-search", "rustc-link-arg"}
IsMetadata(l) == l.colons > 0 /\ (l.key = "metadata" \/ (l.key = "root" /\ l.colons = 1))
parse_build_script_output(out) ==
  [flags    |-> {i \in DOMAIN out : out[i].colons > 0 /\ out[i].key \in SINGLE_ARG_FLAGS \cup {"rustc-flags"}},
   metadata |-> {i \in DOMAIN out : IsMetadata(out[i])},
   error    |-> \E i \in DOMAIN out : out[i].colons > 0 /\ out[i].key = "error"]
metadata_records(l) == [l EXCEPT !.key = "metadata"]
\* The flags file: the directives, then the metadata. A reader takes some kinds
\* only, in the order of their lines.
process_script_output(out) ==
  LET p == parse_build_script_output(out)
  IN [i \in p.flags \cup p.metadata |-> IF i \in p.metadata THEN metadata_records(out[i]) ELSE out[i]]
\* The records of some kinds.
Only(recs, kinds) == [i \in {j \in DOMAIN recs : recs[j].key \in kinds} |-> recs[i]]

\* The stdout of the n-th run of c's script: each line with the run that printed it.
Said(out, c, n) ==
  [i \in DOMAIN out |-> [colons |-> out[i].colons, key |-> out[i].key, path |-> out[i].path, by |-> c, at |-> n]]
\* The script ran with an absolute OUT_DIR inside a sandbox that is gone
\* afterwards: its path is replaced by the relative one.
rewritten(out) == [i \in DOMAIN out |-> [out[i] EXCEPT !.path = IF @ = "sandbox" THEN "relative" ELSE @]]

-----------------------------------------------------------------------------
(***************************************************************************)
(* Environments: a variable is <<name, links crate or "">>, its value      *)
(* where it came from and the records it was made of. Later layers win.    *)
(***************************************************************************)
Over(env, more) == [k \in DOMAIN env \cup DOMAIN more |-> IF k \in DOMAIN more THEN more[k] ELSE env[k]]
Entry(ks, from) == [k \in {<<n, "">> : n \in ks} |-> [from |-> from, recs |-> << >>]]
Told(recs) == [from |-> "script", recs |-> recs]
\* Unix has no baseline; an env-file and the literal --env entries.
base_env(files, env) == Over(Entry(files, "env-file"), env)
assemble_child_env(files, env) == Over(base_env(files, env), Entry({"OUT_DIR"}, "sandbox"))
\* DEP_<LINKS>_<KEY> from the metadata of each links crate in link_deps.
dep_env_vars(c) ==
  LET from == {d \in LinksDeps[c] \cap HasLinks : \E i \in DOMAIN flags_file[d] : flags_file[d][i].key = "metadata"}
  IN [k \in {<<"DEP", d>> : d \in from} |-> Told(Only(flags_file[k[2]], {"metadata"}))]

CargoVars == {"TARGET", "CARGO_PKG_VERSION"}
EnvFileVars == {"CARGO_PKG_VERSION", "CARGO_PKG_AUTHORS"}

-----------------------------------------------------------------------------
\* What the engine runs after a: the actions that read its outputs. A library
\* is compiled against the libraries beneath it.
Readers(a) ==
  LET c == a[2]
  IN IF a[1] = "script"
     THEN {RustcOf(c)} \cup {ScriptOf(d) : d \in {x \in Scripted : c \in LinksDeps[x] \cap HasLinks}}
          \cup (IF c \in Beneath(Binary) THEN {RustcOf(Binary)} ELSE {})
     ELSE {RustcOf(d) : d \in {x \in WCrates : c \in Beneath(x)}}
Runnable(a) == a \in stale /\ \A b \in stale : a \notin Readers(b)
\* What has to run again after some actions: they, and all readers of readers.
After(as) == {a \in WActions : \A S \in SUBSET WActions : as \subseteq S /\ (\A b \in S : Readers(b) \subseteq S) => a \in S}

\* run_build_script: create OUT_DIR, run, parse; a failed script or an `error`
\* line fails the action and writes no flags file.
run_build_script(c, out, code) ==
  LET said == Said(out, c, runs[c] + 1)
      env  == Over(assemble_child_env(EnvFileVars, Entry(CargoVars, "literal")),
                   Over(dep_env_vars(c), Entry({"CARGO_MANIFEST_DIR"}, "rundir")))
      ok   == code = 0 /\ ~parse_build_script_output(said).error
  IN /\ Runnable(ScriptOf(c)) /\ runs[c] < MaxRuns
     /\ runs' = [runs EXCEPT ![c] = @ + 1]
     /\ script_env' = [script_env EXCEPT ![c] = env]
     /\ IF ok
        THEN /\ flags_file' = [flags_file EXCEPT ![c] = process_script_output(rewritten(said))]
             /\ stale' = stale \ {ScriptOf(c)}
        ELSE UNCHANGED <<flags_file, stale>>
     /\ UNCHANGED rustc_run

\* apply_flags for the crate's own records; link_args_only for the others'.
LinkKinds == {"rustc-link-lib", "rustc-link-search", "rustc-link-arg"}
apply_flags(recs) ==
  [args |-> Only(recs, LinkKinds \cup {"rustc-cfg", "rustc-flags"}), env |-> Only(recs, {"rustc-env"})]
link_args_and_cfg(recs) == Only(recs, LinkKinds \cup {"rustc-cfg"})
link_args_only(recs) == Only(recs, LinkKinds)

\* Only a binary is given the flags files of its closure, in the order of their
\* names; each library publishes its own script's.
link_flags_files(c) == IF c = Binary THEN Beneath(c) \cap Scripted ELSE {}
\* The arguments and the environment of a rustc: the literal --env entries win,
\* OUT_DIR and CARGO_MANIFEST_DIR are made absolute.
Command(c) ==
  LET own == apply_flags(IF c \in Scripted THEN flags_file[c] ELSE << >>)
      bs  == IF DOMAIN own.env = {} THEN << >> ELSE [k \in {<<"CARGO_PKG_VERSION", "">>, <<"FROM_SCRIPT", "">>} |-> Told(own.env)]
      lit == Entry({"CARGO_MANIFEST_DIR", "CARGO_PKG_VERSION"} \cup (IF c \in Scripted THEN {"OUT_DIR"} ELSE {}), "literal")
  IN [args |-> own.args, linked |-> [d \in link_flags_files(c) |-> link_args_only(flags_file[d])],
      env |-> Over(base_env(EnvFileVars, bs), lit)]
run_rustc(c) ==
  /\ Runnable(RustcOf(c))
  /\ rustc_run' = [rustc_run EXCEPT ![c] = Command(c)]
  /\ stale' = stale \ {RustcOf(c)}
  /\ UNCHANGED <<flags_file, script_env, runs>>

\* A script's source changes: its run and everything that reads it is stale.
EditScript(c) ==
  /\ ScriptOf(c) \notin stale /\ runs[c] < MaxRuns
  /\ stale' = After(stale \cup {ScriptOf(c)})
  /\ UNCHANGED <<flags_file, script_env, rustc_run, runs>>

WrapNext == \/ \E c \in Scripted : \E out \in Stdouts, code \in {0, 1} : run_build_script(c, out, code)
            \/ \E c \in WCrates : run_rustc(c)
            \/ \E c \in Scripted : EditScript(c)

-----------------------------------------------------------------------------
LastRunOf(x, c) == x.by = c /\ x.at = runs[c] /\ x.path # "sandbox"
\* The arguments, the environment and the linked records of c's rustc.
CommandScoped(r, c) ==
  /\ \A i \in DOMAIN r.args : LastRunOf(r.args[i], c)
  /\ \A d \in DOMAIN r.linked : \A i \in DOMAIN r.linked[d] :
       c = Binary /\ LastRunOf(r.linked[d][i], d) /\ r.linked[d][i].key \in LinkKinds
  /\ c = Binary => \A d \in Beneath(c) \cap Scripted :
       /\ d \in DOMAIN r.linked
       /\ {i \in DOMAIN flags_file[d] : flags_file[d][i].key \in LinkKinds} \subseteq DOMAIN r.linked[d]
  /\ \A k \in DOMAIN r.env : \A i \in DOMAIN r.env[k].recs : LastRunOf(r.env[k].recs[i], c)
  /\ r.env[<<"CARGO_PKG_VERSION", "">>].from = "literal"
\* What c's script is told.
EnvScoped(env, c) ==
  /\ env[<<"OUT_DIR", "">>].from = "sandbox"
  /\ env[<<"CARGO_PKG_VERSION", "">>].from = "literal"
  /\ \A k \in DOMAIN env :
       /\ env[k].from = "script" => k[2] \in LinksDeps[c]
       /\ \A i \in DOMAIN env[k].recs :
            env[k].recs[i].path # "sandbox" /\ env[k].recs[i].key = "metadata" /\ env[k].recs[i].by = k[2]

\* Directives stay where they belong. Once nothing a rustc reads is stale: cfg
\* and rustc-env come from the crate's own script and from its last run; the link
\* directives of every script beneath the binary reach its link, and nothing else
\* of them, and no library's; no argument and no DEP_ value names a sandbox that
\* is gone; a script is never told OUT_DIR or its own cargo variables by another
\* crate.
FlagsScoped ==
  /\ \A c \in WCrates : RustcOf(c) \notin stale => CommandScoped(rustc_run[c], c)
  /\ \A c \in Scripted : runs[c] > 0 => EnvScoped(script_env[c], c)
=============================================================================
