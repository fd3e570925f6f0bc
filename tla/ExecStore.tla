----------------------------- MODULE ExecStore -----------------------------
(***************************************************************************)
(* Executing actions: the content-addressed output cache and the executor  *)
(* (razel-exec/src/lib.rs), the reused per-action sandbox                  *)
(* (razel-exec/src/sandbox.rs), and the builder that owns one sandbox per  *)
(* action (razel-build/src/incremental.rs, drive.rs). The engine between   *)
(* them is IncrementalGraph's promise: an action is computed again exactly *)
(* when the values it was computed from have changed.                      *)
(*                                                                         *)
(* Files on disk outlive the process: the workspace's sources, the exec    *)
(* root's outputs, the cache and the sandbox directories. A Sandbox value  *)
(* remembers in `linked` which inputs it has placed, and is made anew with *)
(* every builder.                                                          *)
(***************************************************************************)
EXTENDS Integers, Sequences, FiniteSets, SequencesExt

CONSTANTS Sources,     \* source files of the workspace
          Bytes,       \* what a source file may hold; Bad makes a tool fail
          Bad,
          Absent,      \* no such file
          Builds,      \* versions of the BUILD file
          Actions,     \* action keys, the same in every version
          Outs,        \* [Actions -> sequence of declared outputs]
          Decl,        \* [Builds -> [Actions -> declared inputs]]
          Reads,       \* [Builds -> [Actions -> paths the tool opens]]
          MaxEdits,    \* edits of a behaviour
          MaxCrashes,  \* killed processes of a behaviour
          CrashInStore \* may the process be killed inside Cache::store

OutSet(a) == ToSet(Outs[a])
AllOuts == UNION {OutSet(a) : a \in Actions}

\* No path is written by two actions, and a declared input is a source or an output.
ASSUME ExecAssumption ==
  /\ Builds # {} /\ Absent \notin Builds
  /\ Outs \in [Actions -> Seq(AllOuts)]
  /\ AllOuts \cap Sources = {}
  /\ \A a, c \in Actions : a # c => OutSet(a) \cap OutSet(c) = {}
  /\ \A b \in Builds, a \in Actions : Decl[b][a] \subseteq Sources \cup AllOuts
  /\ CrashInStore \in BOOLEAN

VARIABLES src,      \* source file -> bytes
          bld,      \* the BUILD version on disk
          root,     \* exec root: output -> content, Absent
          store,    \* cache: key -> outputs copied so far and their content
          box,      \* action -> [links, outs] in its sandbox directory
          builder,  \* NoBuilder, or [build, digest, linked, val, seen]: the process's builder
          at,       \* action -> step of execute_action
          todo,     \* action -> outputs still to be copied into the cache
          phase,    \* "idle", "building", "ok", "failed"
          forest,   \* has the workspace fetched crates: its exec root is then .razel-exec
          edits, crashes

execVars == <<src, bld, root, store, box, builder, at, todo, phase, forest, edits, crashes>>

NoBuilder == [build |-> Absent]
NoFiles == [o \in AllOuts |-> Absent]
NoBoxes == [a \in Actions |-> [links |-> {}, outs |-> [o \in OutSet(a) |-> Absent]]]
\* configure_targets: the action that produces a generated path.
producer(p) == CHOOSE a \in Actions : p \in OutSet(a)

-----------------------------------------------------------------------------
(***************************************************************************)
(* Keys and values. A digest stands for the bytes it is the digest of.     *)
(***************************************************************************)
digest_path(files, p) == files[p]
leaf_value(p) == digest_path(src, p)

\* The command line follows the BUILD version; the rest of the key is the
\* digests of the declared inputs and the declared outputs.
content_key(b, a, ins) == [a |-> a, b |-> b, ins |-> ins, outs |-> Outs[a]]

\* run_action: the digests of the inputs, by name, out of the values of the
\* nodes the action depends on; a generated input is looked up in its
\* producer's manifest.
DepValue(p) == IF p \in Sources THEN builder.digest[p]
               ELSE IF p \in DOMAIN builder.val[producer(p)] THEN builder.val[producer(p)][p]
               ELSE Absent
InputDigests(a) == [p \in Decl[builder.build][a] |-> DepValue(p)]
KeyOf(a) == content_key(builder.build, a, InputDigests(a))

output_manifest(a, files) ==
  [o \in {q \in OutSet(a) : digest_path(files, q) # Absent} |-> digest_path(files, o)]

\* What the tool writes: a function of its command line and of the bytes it opens.
ToolOutput(b, a, ins, o) == <<b, a, o, [p \in Reads[b][a] |-> ins[p]]>>

\* Computed from the values its dependencies have now; an action is ready once
\* everything below it is.
Fresh(a) == builder.val[a] # << >> /\ builder.seen[a] = InputDigests(a)
Deps(a) == {producer(p) : p \in Decl[builder.build][a] \ Sources}
UpToDate(done) == \A a \in done : Fresh(a) /\ Deps(a) \subseteq done
Ready(a) == \E done \in SUBSET Actions : UpToDate(done) /\ Deps(a) \subseteq done

-----------------------------------------------------------------------------
ExecInit ==
  /\ src = [s \in Sources |-> CHOOSE c \in Bytes \ {Bad} : TRUE]
  /\ bld = CHOOSE b \in Builds : TRUE
  /\ root = NoFiles
  /\ store = << >>
  /\ box = NoBoxes
  /\ builder = NoBuilder
  /\ at = [a \in Actions |-> "none"]
  /\ todo = [a \in Actions |-> << >>]
  /\ phase = "idle" /\ forest \in BOOLEAN /\ edits = 0 /\ crashes = 0

Quiet == phase # "building"

\* A source is edited; a builder that knows the leaf is fed its digest (sync_file).
sync_file(s, c) ==
  /\ src' = [src EXCEPT ![s] = c]
  /\ builder' = IF builder # NoBuilder /\ \E a \in Actions : s \in Decl[builder.build][a]
                THEN [builder EXCEPT !.digest[s] = c] ELSE builder
EditSource(s, c) ==
  /\ Quiet /\ edits < MaxEdits /\ c # src[s]
  /\ sync_file(s, c)
  /\ edits' = edits + 1 /\ phase' = "idle"
  /\ UNCHANGED <<bld, root, store, box, at, todo, forest, crashes>>

\* A BUILD edit is not a leaf: the next builder is configured from it.
EditBuild(b) ==
  /\ Quiet /\ edits < MaxEdits /\ b # bld
  /\ bld' = b /\ builder' = NoBuilder
  /\ edits' = edits + 1 /\ phase' = "idle"
  /\ UNCHANGED <<src, root, store, box, at, todo, forest, crashes>>

\* An exec root that is a forest of links is laid out anew, its outputs and the
\* sandboxes in it gone.
prepare_exec_root ==
  /\ root' = IF forest THEN NoFiles ELSE root
  /\ box' = IF forest THEN NoBoxes ELSE box

\* A cold builder: leaves are digested, each action gets a Sandbox over the
\* directory it has always had; without a forest nothing in it is removed.
configure_targets ==
  /\ Quiet /\ builder = NoBuilder
  /\ builder' = [build |-> bld, digest |-> [s \in Sources |-> leaf_value(s)],
                 linked |-> [a \in Actions |-> {}],
                 val |-> [a \in Actions |-> << >>], seen |-> [a \in Actions |-> << >>]]
  /\ prepare_exec_root
  /\ UNCHANGED <<src, bld, store, at, todo, phase, forest, edits, crashes>>

build ==
  /\ Quiet /\ builder # NoBuilder
  /\ phase' = "building"
  /\ UNCHANGED <<src, bld, root, store, box, builder, at, todo, forest, edits, crashes>>

\* The engine computes an action whose dependencies are up to date; a generated
\* input its producer did not write is an error before anything runs.
Start(a) ==
  /\ phase = "building" /\ at[a] = "none" /\ Ready(a) /\ ~Fresh(a)
  /\ \A b \in Actions : at[b] # "failed"
  /\ at' = [at EXCEPT ![a] = IF \E p \in Decl[builder.build][a] : InputDigests(a)[p] = Absent
                             THEN "failed" ELSE "restore"]
  /\ UNCHANGED <<src, bld, root, store, box, builder, todo, phase, forest, edits, crashes>>

\* The engine keeps the value beside the digests it was computed from.
Value(a, files) ==
  builder' = [builder EXCEPT !.val[a] = output_manifest(a, files), !.seen[a] = InputDigests(a)]

\* restore: the key's directory is all that is asked for; what it holds is copied.
Restored_missing(a) ==
  [o \in AllOuts |-> IF o \in DOMAIN store[KeyOf(a)] /\ root[o] = Absent
                     THEN store[KeyOf(a)][o] ELSE root[o]]
Restored(a) ==
  [o \in AllOuts |-> IF o \in DOMAIN store[KeyOf(a)] THEN store[KeyOf(a)][o] ELSE root[o]]
restore(a) ==
  /\ at[a] = "restore" /\ KeyOf(a) \in DOMAIN store
  /\ root' = Restored(a) /\ Value(a, Restored(a))
  /\ at' = [at EXCEPT ![a] = "none"]
  /\ UNCHANGED <<src, bld, store, box, todo, phase, forest, edits, crashes>>

\* sync_inputs: links this Sandbox made and no longer wants are removed, the
\* missing ones are added; links of an earlier Sandbox stay.
sync_inputs(a) ==
  LET want == Decl[builder.build][a]
      had  == builder.linked[a]
  IN /\ at[a] = "restore" /\ KeyOf(a) \notin DOMAIN store
     /\ box' = [box EXCEPT ![a].links = (@ \ (had \ want)) \cup (want \ had)]
     /\ builder' = [builder EXCEPT !.linked[a] = want]
     /\ at' = [at EXCEPT ![a] = "run"]
     /\ UNCHANGED <<src, bld, root, store, todo, phase, forest, edits, crashes>>

\* The tool reads through the links; it fails on a file that is not there and
\* on bytes it rejects.
Through(a, p) == IF p \notin box[a].links THEN Absent
                 ELSE IF p \in Sources THEN src[p] ELSE root[p]
ToolFails(a) == \E p \in Reads[builder.build][a] : Through(a, p) \in {Absent, Bad}
Wrote(a) == [o \in OutSet(a) |->
               ToolOutput(builder.build, a, [p \in Reads[builder.build][a] |-> Through(a, p)], o)]
run(a) ==
  /\ at[a] = "run"
  /\ box' = [box EXCEPT ![a].outs = IF ToolFails(a) THEN @ ELSE Wrote(a)]
  /\ at' = [at EXCEPT ![a] = IF ToolFails(a) THEN "failed" ELSE "capture"]
Run(a) == run(a) /\ UNCHANGED <<src, bld, root, store, builder, todo, phase, forest, edits, crashes>>

\* copy_path: an absent file is copied as nothing.
copy_path(to, from, outs) == [o \in DOMAIN to |-> IF o \in outs /\ from[o] # Absent THEN from[o] ELSE to[o]]

capture_outputs(a) ==
  /\ at[a] = "capture"
  /\ root' = copy_path(root, box[a].outs, OutSet(a))
  /\ at' = [at EXCEPT ![a] = "store"]
  /\ todo' = [todo EXCEPT ![a] = Outs[a]]
  /\ UNCHANGED <<src, bld, store, box, builder, phase, forest, edits, crashes>>

\* Cache::store, one output at a time, straight into the key's directory.
store_output(a) ==
  /\ at[a] = "store" /\ todo[a] # << >>
  /\ LET k   == KeyOf(a)
         o   == Head(todo[a])
         old == IF k \in DOMAIN store THEN store[k] ELSE << >>
         new == IF root[o] = Absent THEN old
                ELSE [q \in DOMAIN old \cup {o} |-> IF q = o THEN root[o] ELSE old[q]]
     IN store' = IF new = << >> THEN store
                 ELSE [q \in DOMAIN store \cup {k} |-> IF q = k THEN new ELSE store[q]]
  /\ todo' = [todo EXCEPT ![a] = Tail(@)]
  /\ UNCHANGED <<src, bld, root, box, builder, at, phase, forest, edits, crashes>>

\* execute_action's outcome Executed: the manifest is read back off the exec root.
execute_action(a) ==
  /\ at[a] = "store" /\ todo[a] = << >>
  /\ Value(a, root)
  /\ at' = [at EXCEPT ![a] = "none"]
  /\ UNCHANGED <<src, bld, root, store, box, todo, phase, forest, edits, crashes>>

\* The request returns when nothing is in flight: Err after a failure, Ok when
\* every action is up to date.
execute_jobs ==
  /\ phase = "building" /\ \A a \in Actions : at[a] \in {"none", "failed"}
  /\ \/ /\ \E a \in Actions : at[a] = "failed"
        /\ phase' = "failed"
     \/ /\ \A a \in Actions : at[a] = "none" /\ Fresh(a)
        /\ phase' = "ok"
  /\ at' = [a \in Actions |-> "none"]
  /\ UNCHANGED <<src, bld, root, store, box, builder, todo, forest, edits, crashes>>

\* The process is killed: the disk stays as it is, everything else is gone.
InStore(a) == at[a] = "store" /\ todo[a] # << >> /\ todo[a] # Outs[a]
Crash ==
  /\ crashes < MaxCrashes /\ builder # NoBuilder
  /\ (\E a \in Actions : InStore(a)) => CrashInStore
  /\ builder' = NoBuilder /\ phase' = "idle"
  /\ at' = [a \in Actions |-> "none"] /\ todo' = [a \in Actions |-> << >>]
  /\ crashes' = crashes + 1
  /\ UNCHANGED <<src, bld, root, store, box, forest, edits>>

ExecAction(a) ==
  Start(a) \/ restore(a) \/ sync_inputs(a) \/ Run(a) \/ capture_outputs(a)
  \/ store_output(a) \/ execute_action(a)
ExecNext ==
  \/ \E s \in Sources, c \in Bytes : EditSource(s, c)
  \/ \E b \in Builds : EditBuild(b)
  \/ configure_targets \/ build \/ execute_jobs \/ Crash
  \/ \E a \in Actions : ExecAction(a)

-----------------------------------------------------------------------------
(***************************************************************************)
(* Properties.                                                             *)
(***************************************************************************)
\* A clean build of the files on disk makes each output of what stands at the
\* paths its tool opens; there is one such result, an action that needs its own
\* output being never ready.
OnDisk == [p \in Sources \cup AllOuts |-> IF p \in Sources THEN src[p] ELSE root[p]]

\* After a build that succeeded, warm or cold, from the cache or not, after
\* edits, reverts and restarts in any order, the declared outputs in the exec
\* root are what a clean build of the files on disk makes.
BuiltIsClean ==
  phase = "ok" => \A a \in Actions : \A o \in OutSet(a) : root[o] = ToolOutput(bld, a, OnDisk, o)

\* Every file of the cache is what its key's command line makes of the inputs
\* whose digests the key holds: no stale, foreign or failed result is under a key.
StoreIsTrue ==
  \A k \in DOMAIN store : \A o \in DOMAIN store[k] :
     store[k][o] = ToolOutput(k.b, k.a, k.ins, o)

\* A build that succeeds leaves what a clean build makes, and the cache it reads
\* holds under each key what the key names (restore_or_run and its key).
BuildsTrue == BuiltIsClean /\ StoreIsTrue
=============================================================================
