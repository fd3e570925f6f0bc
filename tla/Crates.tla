------------------------------- MODULE Crates ------------------------------
(***************************************************************************)
(* External crates: reading MODULE.bazel.lock (razel-loading lock.rs),     *)
(* seeding a session with it (rules/pkg.rs) and materialising a repository *)
(* under .razel-crates the first time a package or a load() needs it       *)
(* (materialize.rs, rules/pkg.rs, rules/load.rs). The network, tar and the *)
(* process may fail; a later session finds what is on disk.                *)
(***************************************************************************)
EXTENDS Integers, FiniteSets

CONSTANTS CrateNames,  \* apparent names of per-crate repositories
          LockFiles,   \* what MODULE.bazel.lock may hold: records, see parse_lock
          Loaders,     \* loader threads of a session
          Faults,      \* of "curl", "corrupt", "tar", "kill" (the last: while extracting)
          MaxSessions

VARIABLES lockfile,  \* MODULE.bazel.lock on disk
          session,   \* [n, lock]: the session and its crate_lock
          disk,      \* repository -> file -> what it was made from; NoFile
          made,      \* repositories whose directory exists
          download,  \* repository -> the bytes at dest.crate.download; NoFile
          thread,    \* loader -> [pc, repo]
          loaded,    \* per-crate repositories whose package this session has loaded
          errors     \* loads this session has failed

cratesVars == <<lockfile, session, disk, made, download, thread, loaded, errors>>

Root == "crates"
Repos == CrateNames \cup {Root}
NoFile == "no file"
NoLock == [version |-> 0]
RootFiles == {"BUILD.bazel", "defs.bzl"}
CrateFiles == {"Cargo.toml", "src", "BUILD.bazel"}

\* A spec's digest is that of an archive.
ASSUME CratesAssumption ==
  /\ Root \notin CrateNames
  /\ \A l \in LockFiles : l.version # 0 =>
       \A r \in CrateNames \cap DOMAIN l.specs : l.specs[r].sha # NoFile

\* A lock: its version, whether the crate extension is in it, and its repository
\* specs: name -> [rule, attrs], attrs the required attributes that are there.
ACCEPTED_VERSIONS == {26}
parse_root(spec) == "contents" \in spec.attrs
parse_crate(spec) == {"urls", "sha256", "build_file_content"} \subseteq spec.attrs
parse_lock(l) ==
  IF /\ l.version \in ACCEPTED_VERSIONS /\ l.extension
     /\ \E r \in DOMAIN l.specs : l.specs[r].rule = "_generate_repo"
     /\ \A r \in DOMAIN l.specs :
          \/ l.specs[r].rule = "_generate_repo" /\ parse_root(l.specs[r])
          \/ l.specs[r].rule = "http_archive" /\ parse_crate(l.specs[r])
  THEN l ELSE NoLock
canonical_repo(lock, r) == r = Root \/ r \in DOMAIN lock.specs

\* seed_crate_lock_and_base: a malformed lock is no lock.
seed_crate_lock_and_base(l) == IF l.version = 0 THEN NoLock ELSE parse_lock(l)

CratesInit ==
  /\ lockfile \in LockFiles
  /\ session = [n |-> 1, lock |-> seed_crate_lock_and_base(lockfile)]
  /\ disk = [r \in Repos |-> [f \in RootFiles \cup CrateFiles |-> NoFile]]
  /\ made = {}
  /\ download = [r \in Repos |-> NoFile]
  /\ thread = [t \in Loaders |-> [pc |-> "idle", repo |-> Root]]
  /\ loaded = {} /\ errors = {}

Step(t, pc) == thread' = [thread EXCEPT ![t].pc = pc]
Fail(t) == Step(t, "idle") /\ errors' = errors \cup {thread[t].repo}
Put(r, fs, what) == disk' = [disk EXCEPT ![r] = [f \in DOMAIN @ |-> IF f \in fs THEN what ELSE @[f]]]

\* load_package_body of a crate's package (one thread at a time: the wait graph
\* grants a package to one worker): the directory is all that is looked for.
external_repo_dir(r) == r \in made
load_package_body(t, r) ==
  /\ thread[t].pc = "idle" /\ r \in CrateNames \ (loaded \cup errors)
  /\ \A u \in Loaders : thread[u].pc = "idle" \/ thread[u].repo # r
  /\ thread' = [thread EXCEPT ![t] = [pc |-> IF external_repo_dir(r) THEN "use" ELSE "make", repo |-> r]]
  /\ UNCHANGED <<lockfile, session, disk, made, download, loaded, errors>>

\* materialize_one_repo of a crate: not in the lock, or already extracted, or fetched.
materialize_one_repo(t) ==
  LET r == thread[t].repo
  IN /\ thread[t].pc = "make" /\ r \in CrateNames
     /\ IF session.lock = NoLock \/ ~canonical_repo(session.lock, r)
        THEN Fail(t)
        ELSE /\ Step(t, IF disk[r]["Cargo.toml"] # NoFile THEN "use" ELSE "curl")
             /\ UNCHANGED errors
     /\ UNCHANGED <<lockfile, session, disk, made, download, loaded>>

\* fetch_crate: download, compare the digest, make the directory, extract, write BUILD.
Curl(t) ==
  LET r == thread[t].repo
  IN /\ thread[t].pc = "curl"
     /\ \/ /\ "curl" \in Faults /\ Fail(t) /\ UNCHANGED download
        \/ \E bytes \in {session.lock.specs[r].sha} \cup (IF "corrupt" \in Faults THEN {"corrupt"} ELSE {}) :
             /\ download' = [download EXCEPT ![r] = bytes]
             /\ Step(t, "verify") /\ UNCHANGED errors
     /\ UNCHANGED <<lockfile, session, disk, made, loaded>>
sha_unchecked(r) == TRUE
sha_matches(r) == download[r] = session.lock.specs[r].sha
Verify(t) ==
  LET r == thread[t].repo
  IN /\ thread[t].pc = "verify"
     /\ IF sha_matches(r)
        THEN /\ made' = made \cup {r} /\ Step(t, "tar") /\ UNCHANGED <<errors, download>>
        ELSE /\ download' = [download EXCEPT ![r] = NoFile]
             /\ Fail(t) /\ UNCHANGED made
     /\ UNCHANGED <<lockfile, session, disk, loaded>>
\* Extraction that fails leaves some of the files.
Tar(t) ==
  LET r == thread[t].repo
  IN /\ thread[t].pc = "tar"
     /\ \E fs \in {{"Cargo.toml", "src"}} \cup (IF "tar" \in Faults THEN SUBSET {"Cargo.toml"} ELSE {}) :
          /\ Put(r, fs, download[r])
          /\ IF "src" \in fs THEN Step(t, "build_file") /\ UNCHANGED errors ELSE Fail(t)
     /\ download' = [download EXCEPT ![r] = NoFile]
     /\ UNCHANGED <<lockfile, session, made, loaded>>
BuildFile(t) ==
  /\ thread[t].pc = "build_file"
  /\ Put(thread[t].repo, {"BUILD.bazel"}, session.lock.specs[thread[t].repo].sha) /\ Step(t, "use")
  /\ UNCHANGED <<lockfile, session, made, download, loaded, errors>>

\* The package is evaluated off the directory; without a BUILD file it is an error.
Use(t) ==
  LET r == thread[t].repo
  IN /\ thread[t].pc = "use"
     /\ IF disk[r]["BUILD.bazel"] = NoFile
        THEN Fail(t) /\ UNCHANGED loaded
        ELSE loaded' = loaded \cup {r} /\ Step(t, "idle") /\ UNCHANGED errors
     /\ UNCHANGED <<lockfile, session, disk, made, download>>

\* resolve_external_bzl of @crates//:defs.bzl: a file that is there is used,
\* otherwise the root repository is written out, unless its BUILD file is there.
resolve_external_bzl(t) ==
  /\ thread[t].pc = "idle" /\ Root \notin errors /\ session.lock # NoLock
  /\ disk[Root]["defs.bzl"] = NoFile
  /\ IF disk[Root]["BUILD.bazel"] = NoFile
     THEN thread' = [thread EXCEPT ![t] = [pc |-> "root", repo |-> Root]] /\ UNCHANGED errors
     ELSE errors' = errors \cup {Root} /\ UNCHANGED thread
  /\ UNCHANGED <<lockfile, session, disk, made, download, loaded>>
\* materialize_root, file by file in the order of the names.
materialize_root(t) ==
  LET todo == {f \in RootFiles : disk[Root][f] = NoFile}
  IN /\ thread[t].pc = "root"
     /\ IF "BUILD.bazel" \in todo
        THEN Put(Root, {"BUILD.bazel"}, session.lock.specs[Root].sha) /\ made' = made \cup {Root} /\ UNCHANGED thread
        ELSE Put(Root, {"defs.bzl"}, session.lock.specs[Root].sha) /\ Step(t, "idle") /\ UNCHANGED made
     /\ UNCHANGED <<lockfile, session, download, loaded, errors>>

\* The process ends, between loads or killed in one ("kill": even while it
\* extracts); the next one reads the lock there is then.
NextSession ==
  /\ session.n < MaxSessions
  /\ "kill" \in Faults \/ \A t \in Loaders : thread[t].pc \notin {"tar", "build_file"}
  /\ \E l \in LockFiles :
       /\ lockfile' = l
       /\ session' = [n |-> session.n + 1, lock |-> seed_crate_lock_and_base(l)]
  /\ thread' = [t \in Loaders |-> [pc |-> "idle", repo |-> Root]]
  /\ loaded' = {} /\ errors' = {}
  /\ UNCHANGED <<disk, made, download>>

CratesNext ==
  \/ NextSession
  \/ \E t \in Loaders :
       \/ \E r \in CrateNames : load_package_body(t, r)
       \/ materialize_one_repo(t) \/ Curl(t) \/ Verify(t) \/ Tar(t) \/ BuildFile(t) \/ Use(t)
       \/ resolve_external_bzl(t) \/ materialize_root(t)

-----------------------------------------------------------------------------
\* A crate's package is loaded only from a repository that is whole and comes
\* from the archive whose digest a lock names: through failed and corrupted
\* downloads, other threads' fetches and later sessions.
LoadedIsWhole ==
  \A r \in loaded : \A f \in CrateFiles :
    disk[r][f] \in {l.specs[r].sha : l \in {k \in LockFiles : k.version # 0 /\ r \in DOMAIN k.specs}}
=============================================================================
