---------------------------- MODULE StoresProofs ----------------------------
(***************************************************************************)
(* What the stores on disk promise, for any number of threads or actions,  *)
(* sessions and faults: a crate's package is loaded only from a whole      *)
(* repository (Crates), and a build that succeeds leaves what a clean      *)
(* build makes (ExecStore).                                                *)
(*                                                                         *)
(* Of crates: a package is loaded when the BUILD file is there, wherever   *)
(* it came from, so what is inductive is what a BUILD file on disk means,  *)
(* in this session or a later one, and what a thread knows at each stage   *)
(* of the fetch that will write it.                                        *)
(*                                                                         *)
(* Of outputs: an entry of the cache is trusted for being there, and a     *)
(* value of the builder for being what its dependencies were computed      *)
(* from; so what is inductive is what an entry and a value mean, and what  *)
(* each step of an action has left for the next.                           *)
(*                                                                         *)
(* Of the rest: what a command publishes is what it was answered           *)
(* (DepsEngine); a fold reads what is reachable (Facts); the selected      *)
(* features are the largest set that holds (Features); the directives of a *)
(* script stay with its crate and its link (Wrapper).                      *)
(***************************************************************************)
EXTENDS Crates, ExecStore, DepsEngine, Facts, Features, Wrapper, SequenceTheorems, TLAPS


-----------------------------------------------------------------------------
Files == RootFiles \cup CrateFiles
(* The digests some lock names for repository r. *)
Shas(r) == {l.specs[r].sha : l \in {k \in LockFiles : k.version # 0 /\ r \in DOMAIN k.specs}}
(* What a file or a download may hold. *)
Contents == {NoFile, "corrupt"} \cup {l.specs[r].sha : l \in LockFiles, r \in Repos}

TypeOK ==
  /\ disk \in [Repos -> [Files -> Contents]]
  /\ download \in [Repos -> Contents]
  /\ thread \in [Loaders -> [pc : {"idle", "make", "curl", "verify", "tar", "build_file", "use", "root"},
                             repo : Repos]]
  /\ loaded \subseteq CrateNames
  /\ session.lock # NoLock => session.lock \in LockFiles /\ session.lock.version # 0

(* What is in a crate's repository came from an archive a lock names, and  *)
(* the BUILD file is written last.                                         *)
DiskTrue ==
  /\ \A r \in CrateNames, f \in Files : disk[r][f] \in Shas(r) \cup {NoFile}
  /\ \A r \in CrateNames : disk[r]["BUILD.bazel"] # NoFile =>
       \A f \in CrateFiles : disk[r][f] # NoFile
  /\ \A r \in loaded : disk[r]["BUILD.bazel"] # NoFile

(* Each stage of a fetch knows what the one before has made true, and no   *)
(* two threads are at one repository.                                      *)
Fetching(t) == thread[t].pc \in {"curl", "verify", "tar", "build_file"}
ThreadsTrue ==
  /\ \A t \in Loaders : thread[t].pc \notin {"idle", "root"} => thread[t].repo \in CrateNames
  /\ \A t, u \in Loaders :
       /\ thread[t].pc \notin {"idle", "root"} /\ thread[u].pc \notin {"idle", "root"}
       /\ thread[t].repo = thread[u].repo
       => t = u
  /\ \A t \in Loaders : thread[t].pc = "root" => session.lock # NoLock
  /\ \A t \in Loaders : Fetching(t) =>
       session.lock # NoLock /\ thread[t].repo \in DOMAIN session.lock.specs
  /\ \A t \in Loaders : thread[t].pc = "tar" =>
       download[thread[t].repo] = session.lock.specs[thread[t].repo].sha
  /\ \A t \in Loaders : thread[t].pc = "build_file" =>
       \A f \in {"Cargo.toml", "src"} : disk[thread[t].repo][f] # NoFile

CratesInv == TypeOK /\ DiskTrue /\ ThreadsTrue
CratesSpec == CratesInit /\ [][CratesNext]_cratesVars

-----------------------------------------------------------------------------
LEMMA InitCrates == CratesInit => CratesInv
<1> SUFFICES ASSUME CratesInit PROVE CratesInv
  OBVIOUS
<1>1. \A r \in Repos, f \in Files : disk[r][f] = NoFile
  BY DEF CratesInit, Files
<1>2. \A t \in Loaders : thread[t].pc = "idle"
  BY DEF CratesInit
<1>3. TypeOK
  <2>1. disk \in [Repos -> [Files -> Contents]] /\ download \in [Repos -> Contents]
    BY DEF CratesInit, Files, Contents
  <2>2. Root \in Repos
    BY DEF Repos
  <2>3. session.lock # NoLock => session.lock \in LockFiles /\ session.lock.version # 0
    BY DEF CratesInit, seed_crate_lock_and_base, parse_lock
  <2> QED BY <2>1, <2>2, <2>3 DEF TypeOK, CratesInit
<1>4. DiskTrue
  BY <1>1 DEF DiskTrue, CratesInit, Repos, Files, CrateFiles, RootFiles
<1>5. ThreadsTrue
  BY <1>2 DEF ThreadsTrue, Fetching
<1> QED BY <1>3, <1>4, <1>5 DEF CratesInv

(* The invariant says what a run checks. *)
LEMMA InvIsWhole == CratesInv => LoadedIsWhole
<1> SUFFICES ASSUME CratesInv, NEW r \in loaded, NEW f \in CrateFiles PROVE disk[r][f] \in Shas(r)
  BY DEF LoadedIsWhole, Shas
<1>1. r \in CrateNames /\ f \in Files
  BY DEF CratesInv, TypeOK, Files
<1> QED BY <1>1 DEF CratesInv, DiskTrue

-----------------------------------------------------------------------------
(* What writing files and moving a thread on does. *)
LEMMA PutFiles ==
  ASSUME TypeOK, NEW r \in Repos, NEW fs, NEW what \in Contents, Put(r, fs, what)
  PROVE  /\ disk' \in [Repos -> [Files -> Contents]]
         /\ \A q \in Repos \ {r} : disk'[q] = disk[q]
         /\ \A f \in Files : disk'[r][f] = IF f \in fs THEN what ELSE disk[r][f]
<1>1. DOMAIN disk[r] = Files
  BY DEF TypeOK
<1>2. disk' = [disk EXCEPT ![r] = [f \in Files |-> IF f \in fs THEN what ELSE disk[r][f]]]
  BY <1>1 DEF Put
<1>3. [f \in Files |-> IF f \in fs THEN what ELSE disk[r][f]] \in [Files -> Contents]
  BY DEF TypeOK
<1> QED BY <1>2, <1>3 DEF TypeOK

LEMMA Stage ==
  ASSUME TypeOK, NEW t \in Loaders,
         NEW pc \in {"idle", "make", "curl", "verify", "tar", "build_file", "use", "root"}, Step(t, pc)
  PROVE  /\ thread' \in [Loaders -> [pc : {"idle", "make", "curl", "verify", "tar", "build_file", "use", "root"},
                                     repo : Repos]]
         /\ \A u \in Loaders \ {t} : thread'[u] = thread[u]
         /\ thread'[t].pc = pc /\ thread'[t].repo = thread[t].repo
BY DEF TypeOK, Step

(* A thread at a crate moves on and changes no file: what the next stage   *)
(* must know is what is left to show.                                      *)
LEMMA MovesOn ==
  ASSUME CratesInv, NEW t \in Loaders,
         NEW pc \in {"idle", "curl", "verify", "tar", "use"}, Step(t, pc),
         thread[t].pc \notin {"idle", "root"}, UNCHANGED <<session, disk>>,
         download' \in [Repos -> Contents],
         \A r \in Repos \ {thread[t].repo} : download'[r] = download[r],
         pc \in {"curl", "verify", "tar"} =>
           session.lock # NoLock /\ thread[t].repo \in DOMAIN session.lock.specs,
         pc = "tar" => download'[thread[t].repo] = session.lock.specs[thread[t].repo].sha,
         loaded' = loaded \/ (loaded' = loaded \cup {thread[t].repo}
                              /\ disk[thread[t].repo]["BUILD.bazel"] # NoFile)
  PROVE  CratesInv'
<1> USE DEF CratesInv
<1>1. /\ thread' \in [Loaders -> [pc : {"idle", "make", "curl", "verify", "tar", "build_file", "use", "root"},
                                 repo : Repos]]
      /\ \A u \in Loaders \ {t} : thread'[u] = thread[u]
      /\ thread'[t].pc = pc /\ thread'[t].repo = thread[t].repo
  BY Stage
<1>2. thread[t].repo \in CrateNames /\ thread[t].repo \in Repos
  BY DEF ThreadsTrue, Repos
<1>3. TypeOK'
  BY <1>1, <1>2 DEF TypeOK
<1>4. DiskTrue'
  BY DEF DiskTrue
<1>5. \A u \in Loaders \ {t} : thread[u].pc \notin {"idle", "root"} => thread[u].repo # thread[t].repo
  BY DEF ThreadsTrue
<1>6. ThreadsTrue'
  <2>1. \A u \in Loaders : thread'[u].pc \notin {"idle", "root"} =>
          thread'[u].repo \in CrateNames /\ thread'[u].repo \in Repos
    BY <1>1, <1>2 DEF ThreadsTrue, Repos
  <2>2. \A u, v \in Loaders :
          /\ thread'[u].pc \notin {"idle", "root"} /\ thread'[v].pc \notin {"idle", "root"}
          /\ thread'[u].repo = thread'[v].repo
          => u = v
    BY <1>1, <1>5 DEF ThreadsTrue
  <2>3. \A u \in Loaders : Fetching(u)' =>
          session.lock # NoLock /\ thread'[u].repo \in DOMAIN session.lock.specs
    BY <1>1 DEF ThreadsTrue, Fetching
  <2>4. ASSUME NEW u \in Loaders, thread'[u].pc = "tar"
        PROVE  download'[thread'[u].repo] = session.lock.specs[thread'[u].repo].sha
    <3>1. CASE u = t
      BY <1>1, <2>4, <3>1
    <3>2. CASE u # t
      <4>1. thread[u].repo # thread[t].repo /\ thread[u].repo \in Repos /\ thread'[u] = thread[u]
        BY <1>1, <1>5, <2>1, <2>4, <3>2
      <4> QED BY <2>4, <4>1 DEF ThreadsTrue
    <3> QED BY <3>1, <3>2
  <2>5. \A u \in Loaders : thread'[u].pc = "build_file" =>
          \A f \in {"Cargo.toml", "src"} : disk[thread'[u].repo][f] # NoFile
    BY <1>1 DEF ThreadsTrue
  <2>6. \A u \in Loaders : thread'[u].pc = "root" => session.lock # NoLock
    BY <1>1 DEF ThreadsTrue
  <2> QED BY <2>1, <2>2, <2>3, <2>4, <2>5, <2>6 DEF ThreadsTrue
<1> QED BY <1>3, <1>4, <1>6

(* A thread at a crate writes bytes an archive of that digest has. *)
LEMMA Writes ==
  ASSUME CratesInv, NEW t \in Loaders, Fetching(t), NEW fs \in SUBSET CrateFiles,
         NEW pc \in {"idle", "build_file", "use"}, Step(t, pc),
         Put(thread[t].repo, fs, session.lock.specs[thread[t].repo].sha),
         UNCHANGED <<session, loaded>>, download' \in [Repos -> Contents],
         \A r \in Repos \ {thread[t].repo} : download'[r] = download[r],
         pc = "build_file" => {"Cargo.toml", "src"} \subseteq fs,
         "BUILD.bazel" \in fs => thread[t].pc = "build_file"
  PROVE  CratesInv'
<1> USE DEF CratesInv
<1> DEFINE r == thread[t].repo
           sha == session.lock.specs[r].sha
<1>1. /\ thread' \in [Loaders -> [pc : {"idle", "make", "curl", "verify", "tar", "build_file", "use", "root"},
                                 repo : Repos]]
      /\ \A u \in Loaders \ {t} : thread'[u] = thread[u]
      /\ thread'[t].pc = pc /\ thread'[t].repo = r
  BY Stage
<1>2. r \in CrateNames /\ r \in Repos
  BY DEF ThreadsTrue, Repos, Fetching
<1>3. sha \in Shas(r) /\ sha \in Contents /\ sha # NoFile
  <2>1. session.lock \in LockFiles /\ session.lock.version # 0 /\ r \in DOMAIN session.lock.specs
    BY DEF TypeOK, ThreadsTrue
  <2>2. PICK l \in LockFiles, q \in CrateNames : l = session.lock /\ q = r
    BY <1>2, <2>1
  <2>3. l.version # 0 /\ q \in DOMAIN l.specs /\ q \in Repos /\ sha = l.specs[q].sha
    BY <1>2, <2>1, <2>2
  <2>4. l.specs[q].sha # NoFile
    BY <2>3, CratesAssumption
  <2>5. l.specs[q].sha \in Shas(q)
    BY <2>3 DEF Shas
  <2>6. l.specs[q].sha \in Contents
    BY <2>3 DEF Contents
  <2> QED BY <2>2, <2>3, <2>4, <2>5, <2>6
<1>4. /\ disk' \in [Repos -> [Files -> Contents]]
      /\ \A q \in Repos \ {r} : disk'[q] = disk[q]
      /\ \A f \in Files : disk'[r][f] = IF f \in fs THEN sha ELSE disk[r][f]
  BY <1>2, <1>3, PutFiles
<1>f. CrateNames \subseteq Repos /\ CrateFiles \subseteq Files /\ "BUILD.bazel" \in Files
      /\ CrateFiles = {"BUILD.bazel", "Cargo.toml", "src"}
  BY DEF Repos, Files, CrateFiles
<1> HIDE DEF sha
<1>5. TypeOK'
  BY <1>1, <1>4 DEF TypeOK
<1>6. DiskTrue'
  <2>1. ASSUME NEW q \in CrateNames, NEW f \in Files PROVE disk'[q][f] \in Shas(q) \cup {NoFile}
    BY <1>2, <1>3, <1>4, <1>f DEF DiskTrue
  <2>2. ASSUME NEW q \in CrateNames, disk'[q]["BUILD.bazel"] # NoFile, NEW f \in CrateFiles
        PROVE  disk'[q][f] # NoFile
    <3>1. CASE q # r
      BY <1>4, <1>f, <2>2, <3>1 DEF DiskTrue
    <3>2. CASE q = r /\ disk[r]["BUILD.bazel"] # NoFile
      BY <1>2, <1>3, <1>4, <1>f, <3>2 DEF DiskTrue
    <3>3. CASE q = r /\ disk[r]["BUILD.bazel"] = NoFile
      <4>1. "BUILD.bazel" \in fs /\ thread[t].pc = "build_file"
        BY <1>4, <1>f, <2>2, <3>3
      <4>2. \A g \in {"Cargo.toml", "src"} : disk[r][g] # NoFile
        BY <4>1 DEF ThreadsTrue
      <4>3. f \in Files /\ (f \in fs \/ disk[r][f] # NoFile)
        BY <1>f, <4>1, <4>2
      <4> QED BY <1>3, <1>4, <3>3, <4>3
    <3> QED BY <3>1, <3>2, <3>3
  <2>3. \A q \in loaded : disk'[q]["BUILD.bazel"] # NoFile
    BY <1>3, <1>4, <1>f DEF DiskTrue, TypeOK
  <2> QED BY <2>1, <2>2, <2>3 DEF DiskTrue
<1>7. ThreadsTrue'
  <2>0. \A u \in Loaders \ {t} : thread[u].pc \notin {"idle", "root"} => thread[u].repo # r
    BY DEF ThreadsTrue, Fetching
  <2>1. \A u \in Loaders : thread'[u].pc \notin {"idle", "root"} =>
          thread'[u].repo \in CrateNames /\ thread'[u].repo \in Repos
    BY <1>1, <1>2 DEF ThreadsTrue, Repos
  <2>2. \A u, v \in Loaders :
          /\ thread'[u].pc \notin {"idle", "root"} /\ thread'[v].pc \notin {"idle", "root"}
          /\ thread'[u].repo = thread'[v].repo
          => u = v
    BY <1>1, <2>0 DEF ThreadsTrue
  <2>3. \A u \in Loaders : Fetching(u)' =>
          session.lock # NoLock /\ thread'[u].repo \in DOMAIN session.lock.specs
    BY <1>1 DEF ThreadsTrue, Fetching
  <2>4. ASSUME NEW u \in Loaders, thread'[u].pc = "tar"
        PROVE  download'[thread'[u].repo] = session.lock.specs[thread'[u].repo].sha
    <3>1. u # t /\ thread'[u] = thread[u] /\ thread[u].repo # r /\ thread[u].repo \in Repos
      BY <1>1, <2>0, <2>1, <2>4
    <3> QED BY <2>4, <3>1 DEF ThreadsTrue
  <2>5. ASSUME NEW u \in Loaders, thread'[u].pc = "build_file", NEW f \in {"Cargo.toml", "src"}
        PROVE  disk'[thread'[u].repo][f] # NoFile
    <3>1. CASE u = t
      BY <1>1, <1>3, <1>4, <1>f, <2>5, <3>1
    <3>2. CASE u # t
      <4>1. thread'[u] = thread[u] /\ thread[u].repo # r /\ thread[u].repo \in Repos
        BY <1>1, <2>0, <2>1, <2>5, <3>2
      <4> QED BY <1>4, <2>5, <4>1 DEF ThreadsTrue
    <3> QED BY <3>1, <3>2
  <2>6. \A u \in Loaders : thread'[u].pc = "root" => session.lock # NoLock
    BY <1>1 DEF ThreadsTrue
  <2> QED BY <2>1, <2>2, <2>3, <2>4, <2>5, <2>6 DEF ThreadsTrue
<1> QED BY <1>5, <1>6, <1>7

-----------------------------------------------------------------------------
(* A thread takes up a crate or the root repository. *)
LEMMA TakesUp ==
  ASSUME CratesInv, NEW t \in Loaders, NEW r \in Repos, NEW pc \in {"make", "use", "root"},
         thread[t].pc = "idle", thread' = [thread EXCEPT ![t] = [pc |-> pc, repo |-> r]],
         UNCHANGED <<session, disk, download, loaded>>,
         pc = "root" => session.lock # NoLock,
         pc # "root" => r \in CrateNames /\ \A u \in Loaders : thread[u].pc = "idle" \/ thread[u].repo # r
  PROVE  CratesInv'
<1> USE DEF CratesInv
<1>1. /\ \A u \in Loaders \ {t} : thread'[u] = thread[u]
      /\ thread'[t].pc = pc /\ thread'[t].repo = r
  BY DEF TypeOK
<1>2. TypeOK'
  BY DEF TypeOK
<1>3. DiskTrue'
  BY DEF DiskTrue
<1>4. ThreadsTrue'
  <2>1. \A u \in Loaders : thread'[u].pc \notin {"idle", "root"} => thread'[u].repo \in CrateNames
    BY <1>1 DEF ThreadsTrue
  <2>2. \A u, v \in Loaders :
          /\ thread'[u].pc \notin {"idle", "root"} /\ thread'[v].pc \notin {"idle", "root"}
          /\ thread'[u].repo = thread'[v].repo
          => u = v
    BY <1>1 DEF ThreadsTrue
  <2>3. \A u \in Loaders : Fetching(u)' => u # t /\ Fetching(u)
    BY <1>1 DEF Fetching
  <2> QED BY <1>1, <2>1, <2>2, <2>3 DEF ThreadsTrue, Fetching
<1> QED BY <1>2, <1>3, <1>4

(* The root repository's files are no crate's. *)
LEMMA RootWritten ==
  ASSUME CratesInv, NEW t \in Loaders, materialize_root(t)
  PROVE  CratesInv'
<1> USE DEF CratesInv
<1>1. /\ thread[t].pc = "root" /\ UNCHANGED <<session, download, loaded>>
      /\ thread' = thread \/ Step(t, "idle")
      /\ \E fs : Put(Root, fs, session.lock.specs[Root].sha)
  BY DEF materialize_root
<1>2. session.lock # NoLock /\ Root \in Repos /\ Root \notin CrateNames
  BY <1>1, CratesAssumption DEF ThreadsTrue, Repos
<1>3. session.lock.specs[Root].sha \in Contents
  BY <1>2 DEF TypeOK, Contents
<1>4. /\ disk' \in [Repos -> [Files -> Contents]]
      /\ \A q \in CrateNames : disk'[q] = disk[q]
  <2>1. PICK fs : Put(Root, fs, session.lock.specs[Root].sha)
    BY <1>1
  <2>2. /\ disk' \in [Repos -> [Files -> Contents]]
        /\ \A q \in Repos \ {Root} : disk'[q] = disk[q]
    BY <1>2, <1>3, <2>1, PutFiles
  <2> QED BY <1>2, <2>2 DEF Repos
<1>5. /\ thread' \in [Loaders -> [pc : {"idle", "make", "curl", "verify", "tar", "build_file", "use", "root"},
                                 repo : Repos]]
      /\ \A u \in Loaders : thread'[u] = thread[u] \/ thread'[u].pc = "idle"
  <2>1. CASE thread' = thread
    BY <2>1 DEF TypeOK
  <2>2. CASE Step(t, "idle")
    BY <2>2, Stage
  <2> QED BY <1>1, <2>1, <2>2
<1>6. TypeOK'
  BY <1>1, <1>4, <1>5 DEF TypeOK
<1>7. DiskTrue'
  BY <1>1, <1>4 DEF DiskTrue, TypeOK
<1>8. ThreadsTrue'
  <2>1. \A u \in Loaders : thread'[u].pc # "idle" => thread'[u] = thread[u]
    BY <1>5
  <2>2. \A u \in Loaders : thread'[u].pc \notin {"idle", "root"} => disk'[thread'[u].repo] = disk[thread[u].repo]
    BY <1>4, <2>1 DEF ThreadsTrue
  <2> QED BY <1>1, <2>1, <2>2 DEF ThreadsTrue, Fetching
<1> QED BY <1>6, <1>7, <1>8

LEMMA LoaderKeeps ==
  ASSUME CratesInv, NEW t \in Loaders,
         \/ \E r \in CrateNames : load_package_body(t, r)
         \/ materialize_one_repo(t) \/ Curl(t) \/ Verify(t) \/ Tar(t) \/ BuildFile(t) \/ Use(t)
         \/ resolve_external_bzl(t) \/ materialize_root(t)
  PROVE  CratesInv'
<1> USE DEF CratesInv
<1>d. download \in [Repos -> Contents] /\ thread[t].repo \in Repos
  BY DEF TypeOK
<1>1. ASSUME NEW r \in CrateNames, load_package_body(t, r) PROVE CratesInv'
  <2>1. PICK pc \in {"make", "use"} : thread' = [thread EXCEPT ![t] = [pc |-> pc, repo |-> r]]
    BY <1>1 DEF load_package_body
  <2> QED BY <1>1, <2>1, TakesUp DEF load_package_body, Repos
<1>2. CASE materialize_one_repo(t)
  <2>1. thread[t].pc = "make" /\ UNCHANGED <<session, disk, download, loaded>>
    BY <1>2 DEF materialize_one_repo
  <2>2. \/ Step(t, "idle") \/ Step(t, "use")
        \/ /\ Step(t, "curl") /\ session.lock # NoLock
           /\ thread[t].repo \in DOMAIN session.lock.specs
    BY <1>2, CratesAssumption DEF materialize_one_repo, Fail, canonical_repo
  <2>3. CASE Step(t, "idle")
    BY <1>d, <2>1, <2>3, MovesOn
  <2>4. CASE Step(t, "use")
    BY <1>d, <2>1, <2>4, MovesOn
  <2>5. CASE Step(t, "curl") /\ session.lock # NoLock /\ thread[t].repo \in DOMAIN session.lock.specs
    BY <1>d, <2>1, <2>5, MovesOn
  <2> QED BY <2>2, <2>3, <2>4, <2>5
<1>3. CASE Curl(t)
  <2>1. /\ thread[t].pc = "curl" /\ UNCHANGED <<session, disk, loaded>>
        /\ session.lock # NoLock /\ thread[t].repo \in DOMAIN session.lock.specs
    BY <1>3 DEF Curl, ThreadsTrue, Fetching
  <2>2. CASE Step(t, "idle") /\ UNCHANGED download
    BY <1>d, <2>1, <2>2, MovesOn
  <2>3. ASSUME NEW bytes \in {session.lock.specs[thread[t].repo].sha, "corrupt"},
               download' = [download EXCEPT ![thread[t].repo] = bytes], Step(t, "verify")
        PROVE  CratesInv'
    <3>1. bytes \in Contents
      BY <1>d, <2>1 DEF Contents, TypeOK
    <3>2. /\ download' \in [Repos -> Contents]
          /\ \A r \in Repos \ {thread[t].repo} : download'[r] = download[r]
      BY <1>d, <2>3, <3>1
    <3> QED BY <2>1, <2>3, <3>2, MovesOn
  <2> QED BY <1>3, <2>2, <2>3 DEF Curl, Fail
<1>4. CASE Verify(t)
  <2>1. /\ thread[t].pc = "verify" /\ UNCHANGED <<session, disk, loaded>>
        /\ session.lock # NoLock /\ thread[t].repo \in DOMAIN session.lock.specs
    BY <1>4 DEF Verify, ThreadsTrue, Fetching
  <2>2. CASE sha_matches(thread[t].repo)
    <3>1. Step(t, "tar") /\ UNCHANGED download
          /\ download[thread[t].repo] = session.lock.specs[thread[t].repo].sha
      BY <1>4, <2>2 DEF Verify, sha_matches
    <3> QED BY <1>d, <2>1, <3>1, MovesOn
  <2>3. CASE ~sha_matches(thread[t].repo)
    <3>1. Step(t, "idle") /\ download' = [download EXCEPT ![thread[t].repo] = NoFile]
      BY <1>4, <2>3 DEF Verify, Fail
    <3>2. /\ download' \in [Repos -> Contents]
          /\ \A r \in Repos \ {thread[t].repo} : download'[r] = download[r]
      BY <1>d, <3>1 DEF Contents
    <3> QED BY <2>1, <3>1, <3>2, MovesOn
  <2> QED BY <2>2, <2>3
<1>5. CASE Tar(t)
  <2>1. /\ thread[t].pc = "tar" /\ UNCHANGED <<session, loaded>> /\ Fetching(t)
        /\ download[thread[t].repo] = session.lock.specs[thread[t].repo].sha
        /\ download' = [download EXCEPT ![thread[t].repo] = NoFile]
    BY <1>5 DEF Tar, ThreadsTrue, Fetching
  <2>2. /\ download' \in [Repos -> Contents]
        /\ \A r \in Repos \ {thread[t].repo} : download'[r] = download[r]
    BY <1>d, <2>1 DEF Contents
  <2>3. PICK fs \in {{"Cargo.toml", "src"}} \cup SUBSET {"Cargo.toml"} :
          /\ Put(thread[t].repo, fs, session.lock.specs[thread[t].repo].sha)
          /\ IF "src" \in fs THEN Step(t, "build_file") ELSE Step(t, "idle")
    BY <1>5, <2>1 DEF Tar, Fail
  <2>4. fs \in SUBSET CrateFiles /\ "BUILD.bazel" \notin fs
    BY DEF CrateFiles
  <2>5. CASE "src" \in fs
    <3>1. {"Cargo.toml", "src"} \subseteq fs
      BY <2>5
    <3> QED BY <2>1, <2>2, <2>3, <2>4, <2>5, <3>1, Writes
  <2>6. CASE "src" \notin fs
    BY <2>1, <2>2, <2>3, <2>4, <2>6, Writes
  <2> QED BY <2>5, <2>6
<1>6. CASE BuildFile(t)
  <2>1. /\ thread[t].pc = "build_file" /\ UNCHANGED <<session, loaded, download>> /\ Fetching(t)
        /\ Put(thread[t].repo, {"BUILD.bazel"}, session.lock.specs[thread[t].repo].sha)
        /\ Step(t, "use")
    BY <1>6 DEF BuildFile, Fetching
  <2>2. {"BUILD.bazel"} \in SUBSET CrateFiles
    BY DEF CrateFiles
  <2> QED BY <1>d, <2>1, <2>2, Writes
<1>7. CASE Use(t)
  <2>1. thread[t].pc = "use" /\ Step(t, "idle") /\ UNCHANGED <<session, disk, download>>
    BY <1>7 DEF Use, Fail
  <2>2. \/ loaded' = loaded
        \/ loaded' = loaded \cup {thread[t].repo} /\ disk[thread[t].repo]["BUILD.bazel"] # NoFile
    BY <1>7 DEF Use
  <2> QED BY <1>d, <2>1, <2>2, MovesOn
<1>8. CASE resolve_external_bzl(t)
  <2>1. /\ thread[t].pc = "idle" /\ session.lock # NoLock
        /\ UNCHANGED <<session, disk, download, loaded>>
    BY <1>8 DEF resolve_external_bzl
  <2>2. CASE thread' = [thread EXCEPT ![t] = [pc |-> "root", repo |-> Root]]
    BY <2>1, <2>2, TakesUp DEF Repos
  <2>3. CASE UNCHANGED thread
    BY <2>1, <2>3 DEF TypeOK, DiskTrue, ThreadsTrue, Fetching
  <2> QED BY <1>8, <2>2, <2>3 DEF resolve_external_bzl
<1>9. CASE materialize_root(t)
  BY <1>9, RootWritten
<1> QED BY <1>1, <1>2, <1>3, <1>4, <1>5, <1>6, <1>7, <1>8, <1>9

LEMMA SessionKeeps ==
  ASSUME CratesInv, NextSession
  PROVE  CratesInv'
<1> USE DEF CratesInv
<1>1. \A t \in Loaders : thread'[t].pc = "idle"
  BY DEF NextSession
<1>2. session'.lock # NoLock => session'.lock \in LockFiles /\ session'.lock.version # 0
  BY DEF NextSession, seed_crate_lock_and_base, parse_lock
<1>3. TypeOK'
  BY <1>2 DEF TypeOK, NextSession, Repos
<1>4. DiskTrue'
  BY DEF DiskTrue, NextSession
<1>5. ThreadsTrue'
  BY <1>1 DEF ThreadsTrue, Fetching
<1> QED BY <1>3, <1>4, <1>5

(***************************************************************************)
(* A package of an external crate is loaded only from a repository that is *)
(* whole and comes from the archive whose digest a lock names: through     *)
(* downloads that fail or are corrupted, archives that break off, threads  *)
(* that fetch at the same time, sessions killed while they extract and     *)
(* lock files that change in between (materialize.rs, fetch_crate).        *)
(***************************************************************************)
THEOREM LoadedAlwaysWhole == CratesSpec => []LoadedIsWhole
<1>1. CratesInv /\ [CratesNext]_cratesVars => CratesInv'
  <2> SUFFICES ASSUME CratesInv, [CratesNext]_cratesVars PROVE CratesInv'
    OBVIOUS
  <2>1. CASE UNCHANGED cratesVars
    BY <2>1 DEF cratesVars, CratesInv, TypeOK, DiskTrue, ThreadsTrue, Fetching
  <2>2. CASE NextSession
    BY <2>2, SessionKeeps
  <2>3. ASSUME NEW t \in Loaders,
               \/ \E r \in CrateNames : load_package_body(t, r)
               \/ materialize_one_repo(t) \/ Curl(t) \/ Verify(t) \/ Tar(t) \/ BuildFile(t) \/ Use(t)
               \/ resolve_external_bzl(t) \/ materialize_root(t)
        PROVE  CratesInv'
    BY <2>3, LoaderKeeps
  <2> QED BY <2>1, <2>2, <2>3 DEF CratesNext
<1> QED BY <1>1, InitCrates, InvIsWhole, PTL DEF CratesSpec

-----------------------------------------------------------------------------
(* What an action makes of the inputs as they are now. *)
Makes(a, o) == ToolOutput(builder.build, a, InputDigests(a), o)
Moving(a) == at[a] \in {"restore", "run", "capture", "store"}
NoTable == [a \in Actions |-> << >>]

ExecTypes ==
  /\ bld \in Builds /\ src = [s \in Sources |-> src[s]]
  /\ root = [o \in AllOuts |-> root[o]]
  /\ at \in [Actions -> {"none", "restore", "run", "capture", "store", "failed"}]
  /\ todo \in [Actions -> Seq(AllOuts)]
  /\ box = [a \in Actions |-> [links |-> box[a].links, outs |-> box[a].outs]]
  /\ \A a \in Actions : box[a].outs = [o \in OutSet(a) |-> box[a].outs[o]]
  /\ phase \in {"idle", "building", "ok", "failed"}

(* The builder knows the sources it depends on as they are, and each       *)
(* Sandbox only links that are there.                                      *)
BuilderTrue ==
  /\ builder.build = bld
  /\ builder = [build |-> builder.build, digest |-> builder.digest, linked |-> builder.linked,
                val |-> builder.val, seen |-> builder.seen]
  /\ builder.digest = [s \in Sources |-> builder.digest[s]]
  /\ builder.linked = [a \in Actions |-> builder.linked[a]]
  /\ builder.val = [a \in Actions |-> builder.val[a]]
  /\ builder.seen = [a \in Actions |-> builder.seen[a]]
  /\ \A a \in Actions : \A s \in Sources \cap Decl[bld][a] : builder.digest[s] = src[s]
  /\ \A a \in Actions : builder.linked[a] \subseteq box[a].links

(* A value the builder has is what is in the exec root, and is what the    *)
(* action makes of the inputs it is recorded with.                         *)
ValueTrue(a) ==
  builder.val[a] # << >> /\ at[a] # "store" =>
    /\ DOMAIN builder.val[a] = OutSet(a)
    /\ \A o \in OutSet(a) : /\ builder.val[a][o] = root[o]
                            /\ root[o] = ToolOutput(bld, a, builder.seen[a], o)

(* An action runs on up-to-date inputs, and each of its steps finds what   *)
(* the one before has left.                                                *)
MovingTrue(a) ==
  /\ Moving(a) => Ready(a) /\ ~Fresh(a)
  /\ at[a] = "run" => Decl[bld][a] \subseteq box[a].links
  /\ at[a] \in {"run", "capture"} => KeyOf(a) \notin DOMAIN store
  /\ at[a] = "capture" => \A o \in OutSet(a) : box[a].outs[o] = Makes(a, o)
  /\ at[a] = "store" =>
       /\ \A o \in OutSet(a) : root[o] = Makes(a, o)
       /\ ToSet(todo[a]) \subseteq OutSet(a) /\ Len(todo[a]) <= Len(Outs[a])
       /\ KeyOf(a) \in DOMAIN store => todo[a] # Outs[a]
       /\ \A o \in OutSet(a) \ ToSet(todo[a]) : KeyOf(a) \in DOMAIN store /\ o \in DOMAIN store[KeyOf(a)]

BuildingTrue ==
  /\ phase # "building" => \A a \in Actions : at[a] = "none"
  /\ builder = NoBuilder => phase \notin {"building", "ok"}
  /\ builder # NoBuilder => BuilderTrue /\ \A a \in Actions : ValueTrue(a)
  /\ \A a \in Actions : MovingTrue(a)
  /\ phase = "ok" => \A a \in Actions : Fresh(a)

(* A file under a key is what the key says, and an entry lacks a file only *)
(* while its action is copying into it.                                    *)
EntryTrue(k) ==
  /\ k.a \in Actions /\ DOMAIN store[k] \subseteq OutSet(k.a)
  /\ \A o \in DOMAIN store[k] : store[k][o] = ToolOutput(k.b, k.a, k.ins, o)
  /\ \/ DOMAIN store[k] = OutSet(k.a)
     \/ \E a \in Actions : at[a] = "store" /\ k = KeyOf(a) /\ todo[a] # << >>
StoreTrue == \A k \in DOMAIN store : EntryTrue(k)

ExecInv == ExecTypes /\ BuildingTrue /\ StoreTrue
ExecSpec == ExecInit /\ [][ExecNext]_execVars

(* A tool opens declared inputs only, and what it writes is a file.        *)
ToolsDeclare == \A b \in Builds, a \in Actions : Reads[b][a] \subseteq Decl[b][a]
ToolsWrite == \A b, a, ins, o : ToolOutput(b, a, ins, o) # Absent

-----------------------------------------------------------------------------
(* What the builder's values say of the files. *)
LEMMA Producers ==
  /\ \A a \in Actions : \A p \in OutSet(a) : producer(p) = a /\ p \in AllOuts /\ p \notin Sources
  /\ \A p \in AllOuts : producer(p) \in Actions /\ p \in OutSet(producer(p))
<1> USE ExecAssumption
<1>1. \A p \in AllOuts : \E a \in Actions : p \in OutSet(a)
  BY DEF AllOuts
<1>2. \A p \in AllOuts : producer(p) \in Actions /\ p \in OutSet(producer(p))
  BY <1>1 DEF producer
<1>3. \A a \in Actions : \A p \in OutSet(a) : p \in AllOuts
  BY DEF AllOuts
<1> QED BY <1>2, <1>3

LEMMA Dependencies ==
  ASSUME ExecInv, builder # NoBuilder, NEW a \in Actions
  PROVE  /\ Deps(a) \subseteq Actions
         /\ \A p \in Decl[bld][a] \ Sources : p \in AllOuts /\ producer(p) \in Deps(a)
<1>1. builder.build = bld /\ bld \in Builds
  BY DEF ExecInv, ExecTypes, BuildingTrue, BuilderTrue
<1> QED BY <1>1, ExecAssumption, Producers DEF Deps

(* An action that is ready, or fresh over fresh ones, knows its inputs as  *)
(* they stand on disk.                                                     *)
LEMMA InputsOnDisk ==
  ASSUME ExecInv, builder # NoBuilder, NEW a \in Actions, Ready(a)
  PROVE  \A p \in Decl[bld][a] : InputDigests(a)[p] = IF p \in Sources THEN src[p] ELSE root[p]
<1> USE DEF ExecInv, BuildingTrue
<1>1. builder.build = bld
  BY DEF BuilderTrue
<1> SUFFICES ASSUME NEW p \in Decl[bld][a]
             PROVE  DepValue(p) = IF p \in Sources THEN src[p] ELSE root[p]
  BY <1>1 DEF InputDigests
<1>2. CASE p \in Sources
  BY <1>2 DEF DepValue, BuilderTrue
<1>3. CASE p \notin Sources
  <2>1. p \in AllOuts /\ producer(p) \in Deps(a) /\ producer(p) \in Actions /\ p \in OutSet(producer(p))
    BY <1>3, Dependencies, Producers
  <2>2. PICK c \in Actions : c = producer(p)
    BY <2>1
  <2>3. Fresh(c)
    BY <2>1, <2>2 DEF Ready, UpToDate
  <2>4. ~Moving(c)
    BY <2>3 DEF MovingTrue
  <2>5. builder.val[c] # << >> /\ at[c] # "store"
    BY <2>3, <2>4 DEF Fresh, Moving
  <2>6. p \in DOMAIN builder.val[c] /\ builder.val[c][p] = root[p]
    BY <2>1, <2>2, <2>5 DEF ValueTrue
  <2> QED BY <1>3, <2>2, <2>6 DEF DepValue
<1> QED BY <1>2, <1>3

(* What is known of an action depends on these fields of the builder only. *)
LEMMA SameValues ==
  ASSUME builder'.build = builder.build, builder'.digest = builder.digest,
         builder'.val = builder.val, builder'.seen = builder.seen, NEW a \in Actions
  PROVE  /\ InputDigests(a)' = InputDigests(a) /\ KeyOf(a)' = KeyOf(a)
         /\ Fresh(a)' = Fresh(a) /\ Ready(a)' = Ready(a)
         /\ \A o : Makes(a, o)' = Makes(a, o)
<1>1. \A c : InputDigests(c)' = InputDigests(c) /\ Deps(c)' = Deps(c)
  BY DEF InputDigests, DepValue, Deps
<1>2. \A c : Fresh(c)' = Fresh(c)
  BY <1>1 DEF Fresh
<1>3. \A done : UpToDate(done)' = UpToDate(done)
  BY <1>1, <1>2 DEF UpToDate
<1>4. Ready(a)' = Ready(a)
  BY <1>1, <1>3 DEF Ready
<1>5. KeyOf(a)' = KeyOf(a) /\ \A o : Makes(a, o)' = Makes(a, o)
  BY <1>1 DEF KeyOf, Makes
<1> QED BY <1>1, <1>2, <1>4, <1>5

(* When a stale action gets its value, whatever was ready stays so, with   *)
(* the inputs it had: nothing ready was above a stale action.              *)
LEMMA ValueStep ==
  ASSUME ExecInv, builder # NoBuilder, NEW a \in Actions, ~Fresh(a), NEW files, Value(a, files)
  PROVE  /\ builder' = [build |-> bld, digest |-> builder.digest, linked |-> builder.linked,
                        val |-> builder'.val, seen |-> builder'.seen]
         /\ builder'.val = [builder.val EXCEPT ![a] = output_manifest(a, files)]
         /\ builder'.seen = [builder.seen EXCEPT ![a] = InputDigests(a)]
         /\ \A c \in Actions : Ready(c) =>
              /\ InputDigests(c)' = InputDigests(c) /\ KeyOf(c)' = KeyOf(c) /\ Ready(c)'
              /\ c # a => Fresh(c)' = Fresh(c)
              /\ \A o : Makes(c, o)' = Makes(c, o)
<1> USE DEF ExecInv, BuildingTrue
<1>1. /\ builder = [build |-> bld, digest |-> builder.digest, linked |-> builder.linked,
                    val |-> builder.val, seen |-> builder.seen]
      /\ builder.val = [c \in Actions |-> builder.val[c]]
      /\ builder.seen = [c \in Actions |-> builder.seen[c]]
  BY DEF BuilderTrue
<1>2. /\ builder' = [build |-> bld, digest |-> builder.digest, linked |-> builder.linked,
                     val |-> builder'.val, seen |-> builder'.seen]
      /\ builder'.val = [builder.val EXCEPT ![a] = output_manifest(a, files)]
      /\ builder'.seen = [builder.seen EXCEPT ![a] = InputDigests(a)]
  <2> DEFINE m == output_manifest(a, files)
             i == InputDigests(a)
  <2> HIDE DEF m, i, ExecInv, BuildingTrue
  <2>1. builder' = [builder EXCEPT !.val[a] = m, !.seen[a] = i]
    BY DEF Value, m, i
  <2>2. PICK one : one = [builder EXCEPT !.val[a] = m]
    OBVIOUS
  <2>3. one = [build |-> bld, digest |-> builder.digest, linked |-> builder.linked,
               val |-> [builder.val EXCEPT ![a] = m], seen |-> builder.seen]
    BY <1>1, <2>2
  <2>4. builder' = [one EXCEPT !.seen[a] = i]
    BY <1>1, <2>1, <2>2
  <2>5. builder' = [build |-> bld, digest |-> builder.digest, linked |-> builder.linked,
                    val |-> [builder.val EXCEPT ![a] = m], seen |-> [builder.seen EXCEPT ![a] = i]]
    BY <2>3, <2>4
  <2> QED BY <2>5 DEF m, i
<1>3. /\ builder'.build = bld /\ builder'.digest = builder.digest /\ builder.build = bld
      /\ \A c \in Actions \ {a} : builder'.val[c] = builder.val[c] /\ builder'.seen[c] = builder.seen[c]
  BY <1>1, <1>2
<1>4. \A c : Deps(c)' = Deps(c)
  BY <1>3 DEF Deps
<1>5. ASSUME NEW c \in Actions, a \notin Deps(c) PROVE InputDigests(c)' = InputDigests(c)
  <2>1. ASSUME NEW p \in Decl[bld][c] PROVE DepValue(p)' = DepValue(p)
    <3>1. CASE p \in Sources
      BY <1>3, <3>1 DEF DepValue
    <3>2. CASE p \notin Sources
      <4>1. producer(p) \in Actions \ {a}
        BY <1>5, <3>2, Dependencies
      <4>2. builder'.val[producer(p)] = builder.val[producer(p)]
        BY <1>3, <4>1
      <4> QED BY <3>2, <4>2 DEF DepValue
    <3> QED BY <3>1, <3>2
  <2> QED BY <1>3, <2>1 DEF InputDigests
<1>6. ASSUME NEW c \in Actions, c # a, a \notin Deps(c) PROVE Fresh(c)' = Fresh(c)
  BY <1>3, <1>5, <1>6 DEF Fresh
<1>7. ASSUME NEW c \in Actions, Ready(c) PROVE Ready(c)' /\ a \notin Deps(c)
  <2>1. PICK done \in SUBSET Actions : UpToDate(done) /\ Deps(c) \subseteq done
    BY <1>7 DEF Ready
  <2>2. a \notin done
    BY <2>1 DEF UpToDate
  <2>3. UpToDate(done)'
    BY <1>4, <1>6, <2>1, <2>2 DEF UpToDate
  <2> QED BY <1>4, <2>1, <2>2, <2>3 DEF Ready
<1>8. ASSUME NEW c \in Actions, Ready(c)
      PROVE  KeyOf(c)' = KeyOf(c) /\ \A o : Makes(c, o)' = Makes(c, o)
  BY <1>3, <1>5, <1>7, <1>8 DEF KeyOf, Makes
<1> QED BY <1>2, <1>5, <1>6, <1>7, <1>8

-----------------------------------------------------------------------------
(* What a step of one action leaves alone. *)
Undisturbed(c) ==
  /\ InputDigests(c)' = InputDigests(c) /\ KeyOf(c)' = KeyOf(c) /\ Ready(c)' /\ Fresh(c)' = Fresh(c)
  /\ \A o : Makes(c, o)' = Makes(c, o)

LEMMA OtherKeeps ==
  ASSUME ExecInv, NEW a \in Actions, NEW c \in Actions \ {a},
         builder # NoBuilder, bld' = bld, Ready(c) => Undisturbed(c),
         builder'.val[c] = builder.val[c], builder'.seen[c] = builder.seen[c],
         at'[c] = at[c], todo'[c] = todo[c], box'[c] = box[c],
         \A o \in OutSet(c) : root'[o] = root[o],
         \A k : k.a # a => /\ k \in DOMAIN store' <=> k \in DOMAIN store
                           /\ k \in DOMAIN store => store'[k] = store[k]
  PROVE  MovingTrue(c)' /\ ValueTrue(c)'
<1>1. MovingTrue(c) /\ ValueTrue(c)
  BY DEF ExecInv, BuildingTrue
<1>2. ValueTrue(c)'
  BY <1>1 DEF ValueTrue
<1>3. KeyOf(c).a = c
  BY DEF KeyOf, content_key
<1>4. CASE ~Moving(c)
  BY <1>2, <1>4 DEF MovingTrue, Moving
<1>5. CASE Moving(c)
  <2>1. Undisturbed(c) /\ Ready(c) /\ ~Fresh(c)
    BY <1>1, <1>5 DEF MovingTrue
  <2>2. /\ KeyOf(c)' \in DOMAIN store' <=> KeyOf(c) \in DOMAIN store
        /\ KeyOf(c) \in DOMAIN store => store'[KeyOf(c)'] = store[KeyOf(c)]
    BY <1>3, <2>1 DEF Undisturbed
  <2>3. Moving(c)' => Ready(c)' /\ ~Fresh(c)'
    BY <2>1 DEF Undisturbed
  <2>4. at'[c] = "run" => Decl[bld'][c] \subseteq box'[c].links
    BY <1>1 DEF MovingTrue
  <2>5. at'[c] \in {"run", "capture"} => KeyOf(c)' \notin DOMAIN store'
    BY <1>1, <2>2 DEF MovingTrue
  <2>6. at'[c] = "capture" => \A o \in OutSet(c) : box'[c].outs[o] = Makes(c, o)'
    BY <1>1, <2>1 DEF MovingTrue, Undisturbed
  <2>7. at'[c] = "store" =>
          /\ \A o \in OutSet(c) : root'[o] = Makes(c, o)'
          /\ ToSet(todo'[c]) \subseteq OutSet(c) /\ Len(todo'[c]) <= Len(Outs[c])
          /\ KeyOf(c)' \in DOMAIN store' => todo'[c] # Outs[c]
          /\ \A o \in OutSet(c) \ ToSet(todo'[c]) : KeyOf(c)' \in DOMAIN store' /\ o \in DOMAIN store'[KeyOf(c)']
    BY <1>1, <2>1, <2>2 DEF MovingTrue, Undisturbed
  <2> QED BY <1>2, <2>3, <2>4, <2>5, <2>6, <2>7 DEF MovingTrue
<1> QED BY <1>2, <1>4, <1>5

LEMMA EntriesKeep ==
  ASSUME ExecInv, store' = store,
         \A c \in Actions : at[c] = "store" /\ todo[c] # << >> =>
            at'[c] = "store" /\ todo'[c] = todo[c] /\ KeyOf(c)' = KeyOf(c)
  PROVE  StoreTrue'
<1> SUFFICES ASSUME NEW k \in DOMAIN store, EntryTrue(k) PROVE EntryTrue(k)'
  BY DEF ExecInv, StoreTrue
<1> QED BY DEF EntryTrue

(* Between builds nothing moves and every entry is whole. *)
LEMMA EntriesWhole ==
  ASSUME ExecInv, store' = store,
         \A c \in Actions : ~(at[c] = "store" /\ todo[c] # << >>)
  PROVE  StoreTrue'
BY EntriesKeep

(* Parts that hold of every action when none moves. *)
LEMMA Resting ==
  ASSUME \A c \in Actions : at[c] \in {"none", "failed"}
  PROVE  \A c \in Actions : MovingTrue(c)
BY DEF MovingTrue, Moving

-----------------------------------------------------------------------------
LEMMA InitExec == ExecInit => ExecInv
<1> SUFFICES ASSUME ExecInit PROVE ExecInv
  OBVIOUS
<1> USE ExecAssumption
<1>1. bld \in Builds
  BY DEF ExecInit
<1>2. /\ at = [a \in Actions |-> "none"] /\ todo = [a \in Actions |-> << >>]
      /\ box = NoBoxes /\ root = NoFiles /\ phase = "idle" /\ builder = NoBuilder /\ store = << >>
      /\ src = [s \in Sources |-> CHOOSE c \in Bytes \ {Bad} : TRUE]
  BY DEF ExecInit
<1>3. ExecTypes
  <2>1. src = [s \in Sources |-> src[s]]
    BY <1>2
  <2>2. root = [o \in AllOuts |-> root[o]]
    BY <1>2 DEF NoFiles
  <2>3. todo \in [Actions -> Seq(AllOuts)]
    BY <1>2
  <2>4. /\ box = [a \in Actions |-> [links |-> box[a].links, outs |-> box[a].outs]]
        /\ \A a \in Actions : box[a].outs = [o \in OutSet(a) |-> box[a].outs[o]]
    BY <1>2 DEF NoBoxes
  <2> QED BY <1>1, <1>2, <2>1, <2>2, <2>3, <2>4 DEF ExecTypes
<1>4. BuildingTrue
  BY <1>2, Resting DEF BuildingTrue
<1>5. StoreTrue
  <2>1. DOMAIN store = {}
    BY <1>2
  <2> QED BY <2>1 DEF StoreTrue
<1> QED BY <1>3, <1>4, <1>5 DEF ExecInv

-----------------------------------------------------------------------------
(* Steps between builds. *)
LEMMA EditSourceKeeps ==
  ASSUME ExecInv, NEW s \in Sources, NEW c \in Bytes, EditSource(s, c)
  PROVE  ExecInv'
<1> USE DEF ExecInv
<1>1. /\ src' = [src EXCEPT ![s] = c] /\ phase # "building" /\ phase' = "idle"
      /\ UNCHANGED <<bld, root, store, box, at, todo>>
      /\ builder' = IF builder # NoBuilder /\ \E a \in Actions : s \in Decl[builder.build][a]
                    THEN [builder EXCEPT !.digest[s] = c] ELSE builder
  BY DEF EditSource, sync_file, Quiet
<1>2. \A a \in Actions : at[a] = "none"
  BY <1>1 DEF BuildingTrue
<1>3. ExecTypes'
  BY <1>1 DEF ExecTypes
<1>4. \A a \in Actions : MovingTrue(a)'
  BY <1>1, <1>2 DEF MovingTrue, Moving
<1>5. StoreTrue'
  BY <1>1, <1>2, EntriesWhole
<1>6. CASE builder = NoBuilder
  BY <1>1, <1>2, <1>3, <1>4, <1>5, <1>6 DEF BuildingTrue
<1>7. CASE builder # NoBuilder
  <2>1. BuilderTrue /\ \A a \in Actions : ValueTrue(a)
    BY <1>7 DEF BuildingTrue
  <2>2. /\ builder'.build = builder.build /\ builder'.linked = builder.linked
        /\ builder'.val = builder.val /\ builder'.seen = builder.seen
        /\ builder' = [build |-> builder.build, digest |-> builder'.digest, linked |-> builder.linked,
                       val |-> builder.val, seen |-> builder.seen]
        /\ builder'.digest = IF \E a \in Actions : s \in Decl[builder.build][a]
                             THEN [builder.digest EXCEPT ![s] = c] ELSE builder.digest
    BY <1>1, <1>7, <2>1 DEF BuilderTrue
  <2>3. BuilderTrue'
    <3>1. builder'.digest = [x \in Sources |-> builder'.digest[x]]
      BY <2>1, <2>2 DEF BuilderTrue
    <3>2. ASSUME NEW a \in Actions, NEW x \in Sources \cap Decl[bld][a] PROVE builder'.digest[x] = src'[x]
      <4>1. builder.digest[x] = src[x] /\ builder.build = bld
        BY <2>1 DEF BuilderTrue
      <4>2. CASE x = s
        BY <1>1, <2>1, <2>2, <4>1, <4>2 DEF BuilderTrue, ExecTypes
      <4>3. CASE x # s
        BY <1>1, <2>1, <2>2, <4>1, <4>3 DEF BuilderTrue, ExecTypes
      <4> QED BY <4>2, <4>3
    <3> QED BY <1>1, <2>1, <2>2, <3>1, <3>2 DEF BuilderTrue
  <2>4. \A a \in Actions : ValueTrue(a)'
    BY <1>1, <2>1, <2>2 DEF ValueTrue
  <2> QED BY <1>1, <1>2, <1>3, <1>4, <1>5, <2>3, <2>4 DEF BuildingTrue
<1> QED BY <1>6, <1>7

LEMMA EditBuildKeeps ==
  ASSUME ExecInv, NEW b \in Builds, EditBuild(b)
  PROVE  ExecInv'
<1> USE DEF ExecInv
<1>1. /\ phase # "building" /\ phase' = "idle" /\ bld' = b /\ builder' = NoBuilder
      /\ UNCHANGED <<src, root, store, box, at, todo>>
  BY DEF EditBuild, Quiet
<1>2. \A a \in Actions : at[a] = "none"
  BY <1>1 DEF BuildingTrue
<1>3. ExecTypes'
  BY <1>1 DEF ExecTypes
<1>4. BuildingTrue'
  BY <1>1, <1>2 DEF BuildingTrue, MovingTrue, Moving
<1>5. StoreTrue'
  BY <1>1, <1>2, EntriesWhole
<1> QED BY <1>3, <1>4, <1>5

LEMMA ConfigureKeeps ==
  ASSUME ExecInv, configure_targets
  PROVE  ExecInv'
<1> USE DEF ExecInv
<1>1. /\ phase \notin {"building", "ok"} /\ phase' = phase
      /\ builder' = [build |-> bld, digest |-> [s \in Sources |-> src[s]],
                     linked |-> [a \in Actions |-> {}], val |-> NoTable, seen |-> NoTable]
      /\ root' = (IF forest THEN NoFiles ELSE root) /\ box' = (IF forest THEN NoBoxes ELSE box)
      /\ UNCHANGED <<src, bld, store, at, todo>>
  BY DEF configure_targets, Quiet, prepare_exec_root, leaf_value, digest_path, NoTable, BuildingTrue
<1>2. \A a \in Actions : at[a] = "none"
  BY <1>1 DEF BuildingTrue
<1>3. ExecTypes'
  <2>1. root' = [o \in AllOuts |-> root'[o]]
    BY <1>1 DEF ExecTypes, NoFiles
  <2>2. /\ box' = [a \in Actions |-> [links |-> box'[a].links, outs |-> box'[a].outs]]
        /\ \A a \in Actions : box'[a].outs = [o \in OutSet(a) |-> box'[a].outs[o]]
    BY <1>1 DEF ExecTypes, NoBoxes
  <2> QED BY <1>1, <2>1, <2>2 DEF ExecTypes
<1>4. BuilderTrue'
  BY <1>1 DEF BuilderTrue, NoTable
<1>5. \A a \in Actions : ValueTrue(a)'
  BY <1>1 DEF ValueTrue, NoTable
<1>6. StoreTrue'
  BY <1>1, <1>2, EntriesWhole
<1> QED BY <1>1, <1>2, <1>3, <1>4, <1>5, <1>6 DEF BuildingTrue, MovingTrue, Moving

LEMMA BuildKeeps ==
  ASSUME ExecInv, build
  PROVE  ExecInv'
<1> USE DEF ExecInv
<1>1. /\ phase # "building" /\ phase' = "building" /\ builder # NoBuilder
      /\ UNCHANGED <<src, bld, root, store, box, builder, at, todo>>
  BY DEF build, Quiet
<1>2. \A a \in Actions : at[a] = "none"
  BY <1>1 DEF BuildingTrue
<1>3. BuilderTrue' /\ \A a \in Actions : ValueTrue(a)'
  BY <1>1 DEF BuildingTrue, BuilderTrue, ValueTrue
<1>4. ExecTypes'
  BY <1>1 DEF ExecTypes
<1>5. StoreTrue'
  BY <1>1, <1>2, EntriesWhole
<1> QED BY <1>1, <1>2, <1>3, <1>4, <1>5 DEF BuildingTrue, MovingTrue, Moving

LEMMA JobsKeep ==
  ASSUME ExecInv, execute_jobs
  PROVE  ExecInv'
<1> USE DEF ExecInv
<1>1. /\ phase = "building" /\ phase' \in {"failed", "ok"}
      /\ \A a \in Actions : at[a] \in {"none", "failed"}
      /\ phase' = "ok" => \A a \in Actions : Fresh(a)
      /\ at' = [a \in Actions |-> "none"]
      /\ UNCHANGED <<src, bld, root, store, box, builder, todo>>
  BY DEF execute_jobs
<1>2. ExecTypes'
  BY <1>1 DEF ExecTypes
<1>3. builder # NoBuilder /\ BuilderTrue' /\ \A a \in Actions : ValueTrue(a)'
  BY <1>1 DEF BuildingTrue, BuilderTrue, ValueTrue
<1>4. StoreTrue'
  BY <1>1, EntriesWhole
<1>5. \A a \in Actions : Fresh(a)' = Fresh(a)
  BY <1>1, SameValues
<1> QED BY <1>1, <1>2, <1>3, <1>4, <1>5 DEF BuildingTrue, MovingTrue, Moving

LEMMA CrashKeeps ==
  ASSUME ExecInv, Crash, ~CrashInStore
  PROVE  ExecInv'
<1> USE DEF ExecInv
<1>1. /\ builder' = NoBuilder /\ phase' = "idle" /\ builder # NoBuilder
      /\ at' = [a \in Actions |-> "none"] /\ todo' = [a \in Actions |-> << >>]
      /\ UNCHANGED <<src, bld, root, store, box>>
  BY DEF Crash
<1>2. ExecTypes'
  <2>1. todo' \in [Actions -> Seq(AllOuts)] /\ at' \in [Actions -> {"none"}]
    BY <1>1
  <2> QED BY <1>1, <2>1 DEF ExecTypes
<1>3. BuildingTrue'
  BY <1>1 DEF BuildingTrue, MovingTrue, Moving
<1>4. ASSUME NEW k \in DOMAIN store PROVE EntryTrue(k)'
  <2>1. EntryTrue(k)
    BY DEF StoreTrue
  <2>2. ASSUME NEW a \in Actions, at[a] = "store", k = KeyOf(a), todo[a] # << >> PROVE FALSE
    <3>1. ~InStore(a)
      BY ExecAssumption DEF Crash
    <3> QED BY <2>2, <3>1 DEF BuildingTrue, MovingTrue, InStore
  <2> QED BY <1>1, <2>1, <2>2 DEF EntryTrue
<1>5. StoreTrue'
  BY <1>1, <1>4 DEF StoreTrue
<1> QED BY <1>2, <1>3, <1>5

-----------------------------------------------------------------------------
(* Steps of one action. *)
LEMMA StartKeeps ==
  ASSUME ExecInv, NEW a \in Actions, Start(a)
  PROVE  ExecInv'
<1> USE DEF ExecInv
<1>1. /\ phase = "building" /\ at[a] = "none" /\ Ready(a) /\ ~Fresh(a)
      /\ at' \in {[at EXCEPT ![a] = "failed"], [at EXCEPT ![a] = "restore"]}
      /\ UNCHANGED <<src, bld, root, store, box, builder, todo, phase>>
  BY DEF Start
<1>2. builder # NoBuilder
  BY <1>1 DEF BuildingTrue
<1>3. at'[a] \in {"failed", "restore"} /\ \A c \in Actions \ {a} : at'[c] = at[c]
  BY <1>1 DEF ExecTypes
<1>4. ExecTypes'
  BY <1>1 DEF ExecTypes
<1>5. \A c \in Actions : Ready(c) => Undisturbed(c)
  BY <1>1, SameValues DEF Undisturbed
<1>6. MovingTrue(a)' /\ ValueTrue(a)'
  <2>1. Ready(a)' /\ ~Fresh(a)'
    BY <1>1, <1>5 DEF Undisturbed
  <2>2. ValueTrue(a)'
    BY <1>1, <1>2, <1>3 DEF BuildingTrue, ValueTrue
  <2> QED BY <1>3, <2>1, <2>2 DEF MovingTrue
<1>7. \A c \in Actions \ {a} : MovingTrue(c)' /\ ValueTrue(c)'
  BY <1>1, <1>2, <1>3, <1>5, OtherKeeps
<1>8. BuilderTrue'
  BY <1>1, <1>2 DEF BuildingTrue, BuilderTrue
<1>9. BuildingTrue'
  BY <1>1, <1>2, <1>6, <1>7, <1>8 DEF BuildingTrue
<1>10. StoreTrue'
  BY <1>1, <1>3, SameValues, EntriesKeep
<1> QED BY <1>4, <1>9, <1>10

(* The value an action gets when its outputs in the exec root are what it  *)
(* makes of its inputs.                                                    *)
LEMMA GetsValue ==
  ASSUME ExecInv, NEW a \in Actions, Moving(a), Value(a, root'), ToolsWrite,
         root' = [o \in AllOuts |-> root'[o]], \A o \in AllOuts \ OutSet(a) : root'[o] = root[o],
         \A o \in OutSet(a) : root'[o] = Makes(a, o),
         at' = [at EXCEPT ![a] = "none"], at[a] = "store" => todo[a] = << >>,
         UNCHANGED <<src, bld, store, box, todo, phase>>
  PROVE  ExecInv'
<1> USE DEF ExecInv
<1>1. Ready(a) /\ ~Fresh(a)
  BY DEF BuildingTrue, MovingTrue
<1>2. phase = "building" /\ builder # NoBuilder
  BY DEF BuildingTrue, Moving
<1>3. BuilderTrue /\ builder.build = bld
  BY <1>2 DEF BuildingTrue, BuilderTrue
<1>4. /\ builder' = [build |-> bld, digest |-> builder.digest, linked |-> builder.linked,
                     val |-> builder'.val, seen |-> builder'.seen]
      /\ builder'.val = [builder.val EXCEPT ![a] = output_manifest(a, root')]
      /\ builder'.seen = [builder.seen EXCEPT ![a] = InputDigests(a)]
  BY <1>1, <1>2, ValueStep
<1>5. \A c \in Actions : Ready(c) /\ c # a => Undisturbed(c)
  BY <1>1, <1>2, ValueStep DEF Undisturbed
<1>6. /\ builder'.val[a] = output_manifest(a, root') /\ builder'.seen[a] = InputDigests(a)
      /\ \A c \in Actions \ {a} : builder'.val[c] = builder.val[c] /\ builder'.seen[c] = builder.seen[c]
  BY <1>3, <1>4 DEF BuilderTrue
<1>7. BuilderTrue'
  <2>1. /\ builder'.build = bld /\ builder'.digest = builder.digest /\ builder'.linked = builder.linked
    BY <1>4
  <2>2. /\ builder'.val = [c \in Actions |-> builder'.val[c]]
        /\ builder'.seen = [c \in Actions |-> builder'.seen[c]]
    BY <1>3, <1>4 DEF BuilderTrue
  <2> QED BY <1>3, <1>4, <2>1, <2>2 DEF BuilderTrue
<1>8. ExecTypes'
  BY DEF ExecTypes
<1>9. at'[a] = "none" /\ \A c \in Actions \ {a} : at'[c] = at[c]
  BY DEF ExecTypes
<1>10. ValueTrue(a)' /\ MovingTrue(a)'
  <2>1. \A o \in OutSet(a) : root'[o] = ToolOutput(bld, a, builder'.seen[a], o) /\ root'[o] # Absent
    BY <1>3, <1>6 DEF Makes, ToolsWrite
  <2>2. /\ DOMAIN builder'.val[a] = OutSet(a)
        /\ \A o \in OutSet(a) : builder'.val[a][o] = root'[o]
    BY <1>6, <2>1 DEF output_manifest, digest_path
  <2>3. ValueTrue(a)'
    BY <2>1, <2>2 DEF ValueTrue
  <2> QED BY <1>9, <2>3 DEF MovingTrue, Moving
<1>11. \A c \in Actions \ {a} : MovingTrue(c)' /\ ValueTrue(c)'
  <2> SUFFICES ASSUME NEW c \in Actions \ {a} PROVE MovingTrue(c)' /\ ValueTrue(c)'
    OBVIOUS
  <2>1. \A o \in OutSet(c) : root'[o] = root[o]
    BY ExecAssumption, Producers
  <2> QED BY <1>2, <1>5, <1>6, <1>9, <2>1, OtherKeeps
<1>12. StoreTrue'
  <2>1. ASSUME NEW c \in Actions, at[c] = "store", todo[c] # << >>
        PROVE  at'[c] = "store" /\ todo'[c] = todo[c] /\ KeyOf(c)' = KeyOf(c)
    <3>1. c # a /\ Ready(c)
      BY <2>1 DEF BuildingTrue, MovingTrue, Moving
    <3> QED BY <1>5, <1>9, <2>1, <3>1 DEF Undisturbed
  <2> QED BY <2>1, EntriesKeep
<1>13. BuildingTrue'
  <2>1. builder' # NoBuilder
    BY <1>3, <1>4, ExecAssumption DEF NoBuilder, ExecTypes
  <2> QED BY <1>2, <1>7, <1>10, <1>11, <2>1 DEF BuildingTrue
<1> QED BY <1>8, <1>12, <1>13

LEMMA RestoreKeeps ==
  ASSUME ExecInv, NEW a \in Actions, restore(a), ToolsWrite
  PROVE  ExecInv'
<1> USE DEF ExecInv
<1>1. /\ at[a] = "restore" /\ KeyOf(a) \in DOMAIN store
      /\ root' = Restored(a) /\ Value(a, root') /\ at' = [at EXCEPT ![a] = "none"]
      /\ UNCHANGED <<src, bld, store, box, todo, phase>>
  BY DEF restore
<1>2. /\ KeyOf(a).a = a /\ KeyOf(a).b = builder.build /\ KeyOf(a).ins = InputDigests(a)
      /\ \A c \in Actions : KeyOf(c) = KeyOf(a) => c = a
  BY DEF KeyOf, content_key
<1>3. EntryTrue(KeyOf(a))
  BY <1>1 DEF StoreTrue
<1>4. DOMAIN store[KeyOf(a)] = OutSet(a)
  BY <1>1, <1>2, <1>3 DEF EntryTrue
<1>5. \A o \in OutSet(a) : store[KeyOf(a)][o] = Makes(a, o)
  BY <1>2, <1>3, <1>4 DEF EntryTrue, Makes
<1>6. /\ root' = [o \in AllOuts |-> root'[o]]
      /\ \A o \in AllOuts \ OutSet(a) : root'[o] = root[o]
      /\ \A o \in OutSet(a) : root'[o] = Makes(a, o)
  BY <1>1, <1>4, <1>5, Producers DEF Restored
<1> QED BY <1>1, <1>6, GetsValue DEF Moving

LEMMA ExecuteKeeps ==
  ASSUME ExecInv, NEW a \in Actions, execute_action(a), ToolsWrite
  PROVE  ExecInv'
<1>1. /\ at[a] = "store" /\ todo[a] = << >> /\ Value(a, root) /\ at' = [at EXCEPT ![a] = "none"]
      /\ UNCHANGED <<src, bld, root, store, box, todo, phase>>
  BY DEF execute_action
<1>2. root = [o \in AllOuts |-> root[o]] /\ \A o \in OutSet(a) : root[o] = Makes(a, o)
  BY <1>1 DEF ExecInv, ExecTypes, BuildingTrue, MovingTrue
<1> QED BY <1>1, <1>2, GetsValue DEF Moving

(* What is left of a list once its head is taken: the loop that stores the
   outputs of an action one by one. *)
LEMMA HeadAndTail ==
  ASSUME NEW S, NEW s \in Seq(S), s # << >>
  PROVE  /\ Tail(s) \in Seq(S)
         /\ Len(Tail(s)) \in Nat /\ Len(s) \in Nat /\ Len(Tail(s)) < Len(s)
         /\ ToSet(s) = {Head(s)} \cup ToSet(Tail(s))
<1>1. Len(s) \in Nat /\ Len(s) # 0 /\ Head(s) = s[1]
  OBVIOUS
<1>2. Tail(s) \in Seq(S) /\ Len(Tail(s)) = Len(s) - 1
  BY <1>1
<1>3. ASSUME NEW i \in 1 .. Len(s), i # 1 PROVE s[i] \in ToSet(Tail(s))
  <2>1. i - 1 \in 1 .. Len(Tail(s)) /\ Tail(s)[i - 1] = s[i]
    BY <1>1, <1>2, <1>3
  <2>2. DOMAIN Tail(s) = 1 .. Len(Tail(s))
    BY <1>2
  <2> QED BY <2>1, <2>2 DEF ToSet
<1>4. ASSUME NEW i \in 1 .. Len(Tail(s)) PROVE Tail(s)[i] \in ToSet(s)
  <2>1. i + 1 \in 1 .. Len(s) /\ Tail(s)[i] = s[i + 1]
    BY <1>1, <1>2
  <2> QED BY <2>1 DEF ToSet
<1>5. ToSet(s) \subseteq {Head(s)} \cup ToSet(Tail(s))
  BY <1>1, <1>3 DEF ToSet
<1>6. ToSet(Tail(s)) \subseteq ToSet(s)
  BY <1>2, <1>4 DEF ToSet
<1>7. Head(s) \in ToSet(s)
  BY <1>1 DEF ToSet
<1> QED BY <1>1, <1>2, <1>5, <1>6, <1>7

(* One field of one sandbox changes. *)
LEMMA LinksStep ==
  ASSUME NEW x, NEW y, NEW a \in Actions, NEW v,
         x = [c \in Actions |-> [links |-> x[c].links, outs |-> x[c].outs]],
         y = [x EXCEPT ![a].links = v]
  PROVE  /\ y[a].links = v /\ y[a].outs = x[a].outs /\ \A c \in Actions \ {a} : y[c] = x[c]
         /\ y = [c \in Actions |-> [links |-> y[c].links, outs |-> y[c].outs]]
<1>1. y[a] = [x[a] EXCEPT !.links = v] /\ \A c \in Actions \ {a} : y[c] = x[c]
  OBVIOUS
<1>2. y[a] = [links |-> v, outs |-> x[a].outs]
  <2>1. PICK r : r = x[a]
    OBVIOUS
  <2>2. r = [links |-> r.links, outs |-> r.outs]
    BY <2>1
  <2> QED BY <1>1, <2>1, <2>2
<1>3. y = [c \in Actions |-> y[c]]
  OBVIOUS
<1>4. \A c \in Actions : y[c] = [links |-> y[c].links, outs |-> y[c].outs]
  BY <1>1, <1>2
<1> QED BY <1>1, <1>2, <1>3, <1>4

LEMMA OutsStep ==
  ASSUME NEW x, NEW y, NEW a \in Actions, NEW v,
         x = [c \in Actions |-> [links |-> x[c].links, outs |-> x[c].outs]],
         y = [x EXCEPT ![a].outs = v]
  PROVE  /\ y[a].outs = v /\ y[a].links = x[a].links /\ \A c \in Actions \ {a} : y[c] = x[c]
         /\ y = [c \in Actions |-> [links |-> y[c].links, outs |-> y[c].outs]]
<1>1. y[a] = [x[a] EXCEPT !.outs = v] /\ \A c \in Actions \ {a} : y[c] = x[c]
  OBVIOUS
<1>2. y[a] = [links |-> x[a].links, outs |-> v]
  <2>1. PICK r : r = x[a]
    OBVIOUS
  <2>2. r = [links |-> r.links, outs |-> r.outs]
    BY <2>1
  <2> QED BY <1>1, <2>1, <2>2
<1>3. y = [c \in Actions |-> y[c]]
  OBVIOUS
<1>4. \A c \in Actions : y[c] = [links |-> y[c].links, outs |-> y[c].outs]
  BY <1>1, <1>2
<1> QED BY <1>1, <1>2, <1>3, <1>4

LEMMA SyncKeeps ==
  ASSUME ExecInv, NEW a \in Actions, sync_inputs(a)
  PROVE  ExecInv'
<1> USE DEF ExecInv
<1> DEFINE want == Decl[builder.build][a]
           had  == builder.linked[a]
<1>1. /\ at[a] = "restore" /\ KeyOf(a) \notin DOMAIN store
      /\ box' = [box EXCEPT ![a].links = (@ \ (had \ want)) \cup (want \ had)]
      /\ builder' = [builder EXCEPT !.linked[a] = want]
      /\ at' = [at EXCEPT ![a] = "run"]
      /\ UNCHANGED <<src, bld, root, store, todo, phase>>
  BY DEF sync_inputs
<1>2. phase = "building" /\ builder # NoBuilder /\ BuilderTrue /\ Ready(a) /\ ~Fresh(a)
  BY <1>1 DEF BuildingTrue, MovingTrue, Moving
<1>3. /\ builder' = [build |-> builder.build, digest |-> builder.digest, linked |-> builder'.linked,
                     val |-> builder.val, seen |-> builder.seen]
      /\ builder'.linked = [builder.linked EXCEPT ![a] = want]
  <2>1. builder = [build |-> builder.build, digest |-> builder.digest, linked |-> builder.linked,
                   val |-> builder.val, seen |-> builder.seen]
    BY <1>2 DEF BuilderTrue
  <2> HIDE DEF want, had
  <2> QED BY <1>1, <2>1
<1>4. /\ builder'.build = builder.build /\ builder'.digest = builder.digest
      /\ builder'.val = builder.val /\ builder'.seen = builder.seen
  BY <1>3
<1>5. \A c \in Actions : Undisturbed(c) \/ ~Ready(c)
  BY <1>4, SameValues DEF Undisturbed
<1>6. /\ box'[a].links = (box[a].links \ (had \ want)) \cup (want \ had)
      /\ box'[a].outs = box[a].outs /\ \A c \in Actions \ {a} : box'[c] = box[c]
      /\ box' = [c \in Actions |-> [links |-> box'[c].links, outs |-> box'[c].outs]]
  <2> DEFINE v == (box[a].links \ (had \ want)) \cup (want \ had)
  <2>1. box = [c \in Actions |-> [links |-> box[c].links, outs |-> box[c].outs]]
    BY DEF ExecTypes
  <2>2. box' = [box EXCEPT ![a].links = v]
    BY <1>1
  <2> HIDE DEF v
  <2>3. /\ box'[a].links = v /\ box'[a].outs = box[a].outs
        /\ \A c \in Actions \ {a} : box'[c] = box[c]
        /\ box' = [c \in Actions |-> [links |-> box'[c].links, outs |-> box'[c].outs]]
    BY <2>1, <2>2, LinksStep
  <2> QED BY <2>3 DEF v
<1>7. had \subseteq box[a].links /\ want \subseteq box'[a].links
  <2>1. had \subseteq box[a].links
    BY <1>2 DEF BuilderTrue
  <2> HIDE DEF want, had
  <2> QED BY <1>6, <2>1
<1>8. ExecTypes'
  BY <1>1, <1>6 DEF ExecTypes
<1>9. BuilderTrue'
  <2>1. builder.build = bld /\ builder.linked = [c \in Actions |-> builder.linked[c]]
    BY <1>2 DEF BuilderTrue
  <2>2. ASSUME NEW c \in Actions PROVE builder'.linked[c] \subseteq box'[c].links
    BY <1>2, <1>3, <1>6, <1>7, <2>1 DEF BuilderTrue
  <2>3. builder'.linked = [c \in Actions |-> builder'.linked[c]]
    BY <1>3, <2>1
  <2> QED BY <1>1, <1>2, <1>3, <1>4, <2>1, <2>2, <2>3 DEF BuilderTrue
<1>10. at'[a] = "run" /\ \A c \in Actions \ {a} : at'[c] = at[c]
  BY <1>1 DEF ExecTypes
<1>11. MovingTrue(a)' /\ ValueTrue(a)'
  <2>1. Undisturbed(a)
    BY <1>2, <1>5
  <2>2. Decl[bld'][a] \subseteq box'[a].links
    BY <1>1, <1>2, <1>7 DEF BuilderTrue
  <2>3. MovingTrue(a)'
    BY <1>1, <1>2, <1>10, <2>1, <2>2 DEF MovingTrue, Undisturbed
  <2>4. ValueTrue(a)'
    BY <1>1, <1>2, <1>4 DEF BuildingTrue, ValueTrue
  <2> QED BY <2>3, <2>4
<1>12. \A c \in Actions \ {a} : MovingTrue(c)' /\ ValueTrue(c)'
  BY <1>1, <1>2, <1>4, <1>5, <1>6, <1>10, OtherKeeps
<1>13. StoreTrue'
  BY <1>1, <1>4, <1>10, SameValues, EntriesKeep
<1>14. builder' # NoBuilder
  BY <1>2, <1>4, ExecAssumption DEF NoBuilder, ExecTypes, BuilderTrue
<1>15. BuildingTrue'
  BY <1>1, <1>2, <1>9, <1>11, <1>12, <1>14 DEF BuildingTrue
<1> QED BY <1>8, <1>13, <1>15

LEMMA RunKeeps ==
  ASSUME ExecInv, NEW a \in Actions, Run(a), ToolsDeclare
  PROVE  ExecInv'
<1> USE DEF ExecInv
<1>1. /\ at[a] = "run" /\ UNCHANGED <<src, bld, root, store, builder, todo, phase>>
      /\ box' = [box EXCEPT ![a].outs = IF ToolFails(a) THEN @ ELSE Wrote(a)]
      /\ at' = [at EXCEPT ![a] = IF ToolFails(a) THEN "failed" ELSE "capture"]
  BY DEF Run, run
<1>2. phase = "building" /\ builder # NoBuilder /\ BuilderTrue /\ Ready(a) /\ ~Fresh(a)
  BY <1>1 DEF BuildingTrue, MovingTrue, Moving
<1>3. \A o \in OutSet(a) : Wrote(a)[o] = Makes(a, o)
  <2>1. builder.build = bld /\ Reads[bld][a] \subseteq Decl[bld][a]
    BY <1>2 DEF BuilderTrue, ExecTypes, ToolsDeclare
  <2>2. ASSUME NEW p \in Reads[bld][a] PROVE Through(a, p) = InputDigests(a)[p]
    <3>1. p \in box[a].links
      BY <1>1, <2>1 DEF BuildingTrue, MovingTrue
    <3>2. InputDigests(a)[p] = IF p \in Sources THEN src[p] ELSE root[p]
      BY <1>2, <2>1, InputsOnDisk
    <3> QED BY <3>1, <3>2 DEF Through
  <2>3. [p \in Reads[bld][a] |-> [q \in Reads[bld][a] |-> Through(a, q)][p]]
        = [p \in Reads[bld][a] |-> InputDigests(a)[p]]
    BY <2>2
  <2> QED BY <2>1, <2>3 DEF Wrote, Makes, ToolOutput
<1>4. /\ box'[a].links = box[a].links /\ box'[a].outs = (IF ToolFails(a) THEN box[a].outs ELSE Wrote(a))
      /\ \A c \in Actions \ {a} : box'[c] = box[c]
      /\ box' = [c \in Actions |-> [links |-> box'[c].links, outs |-> box'[c].outs]]
  <2> DEFINE v == IF ToolFails(a) THEN box[a].outs ELSE Wrote(a)
  <2>1. box = [c \in Actions |-> [links |-> box[c].links, outs |-> box[c].outs]]
    BY DEF ExecTypes
  <2>2. box' = [box EXCEPT ![a].outs = v]
    BY <1>1
  <2> HIDE DEF v
  <2>3. /\ box'[a].outs = v /\ box'[a].links = box[a].links
        /\ \A c \in Actions \ {a} : box'[c] = box[c]
        /\ box' = [c \in Actions |-> [links |-> box'[c].links, outs |-> box'[c].outs]]
    BY <2>1, <2>2, OutsStep
  <2> QED BY <2>3 DEF v
<1>5. at'[a] = (IF ToolFails(a) THEN "failed" ELSE "capture") /\ \A c \in Actions \ {a} : at'[c] = at[c]
  BY <1>1 DEF ExecTypes
<1>6. ExecTypes'
  <2>1. Wrote(a) = [o \in OutSet(a) |-> Wrote(a)[o]]
    BY DEF Wrote
  <2>2. ASSUME NEW c \in Actions PROVE box'[c].outs = [o \in OutSet(c) |-> box'[c].outs[o]]
    <3>1. box[c].outs = [o \in OutSet(c) |-> box[c].outs[o]]
      BY DEF ExecTypes
    <3>2. CASE c = a /\ ~ToolFails(a)
      <4>1. box'[c].outs = Wrote(a)
        BY <1>4, <3>2
      <4> QED BY <2>1, <3>2, <4>1
    <3>3. CASE ~(c = a /\ ~ToolFails(a))
      <4>1. box'[c].outs = box[c].outs
        BY <1>4, <3>3
      <4> QED BY <3>1, <4>1
    <3> QED BY <3>2, <3>3
  <2> QED BY <1>1, <1>4, <2>2 DEF ExecTypes
<1>7. BuilderTrue'
  BY <1>1, <1>2, <1>4 DEF BuilderTrue
<1>8. \A c \in Actions : Ready(c) => Undisturbed(c)
  BY <1>1, SameValues DEF Undisturbed
<1>9. MovingTrue(a)' /\ ValueTrue(a)'
  <2>1. ValueTrue(a)'
    BY <1>1, <1>2, <1>5 DEF BuildingTrue, ValueTrue
  <2>2. CASE ToolFails(a)
    BY <1>5, <2>1, <2>2 DEF MovingTrue, Moving
  <2>3. CASE ~ToolFails(a)
    <3>1. \A o \in OutSet(a) : box'[a].outs[o] = Makes(a, o)'
      BY <1>2, <1>3, <1>4, <1>8, <2>3 DEF Undisturbed
    <3>2. KeyOf(a)' \notin DOMAIN store'
      BY <1>1, <1>2, <1>8 DEF BuildingTrue, MovingTrue, Undisturbed
    <3> QED BY <1>2, <1>5, <1>8, <2>1, <2>3, <3>1, <3>2 DEF MovingTrue, Undisturbed
  <2> QED BY <2>2, <2>3
<1>10. \A c \in Actions \ {a} : MovingTrue(c)' /\ ValueTrue(c)'
  BY <1>1, <1>2, <1>4, <1>5, <1>8, OtherKeeps
<1>11. StoreTrue'
  BY <1>1, <1>5, SameValues, EntriesKeep
<1>12. BuildingTrue'
  BY <1>1, <1>2, <1>7, <1>9, <1>10 DEF BuildingTrue
<1> QED BY <1>6, <1>11, <1>12

LEMMA CaptureKeeps ==
  ASSUME ExecInv, NEW a \in Actions, capture_outputs(a), ToolsWrite
  PROVE  ExecInv'
<1> USE DEF ExecInv
<1>1. /\ at[a] = "capture" /\ UNCHANGED <<src, bld, store, box, builder, phase>>
      /\ root' = copy_path(root, box[a].outs, OutSet(a))
      /\ at' = [at EXCEPT ![a] = "store"] /\ todo' = [todo EXCEPT ![a] = Outs[a]]
  BY DEF capture_outputs
<1>2. phase = "building" /\ builder # NoBuilder /\ BuilderTrue /\ Ready(a) /\ ~Fresh(a)
  BY <1>1 DEF BuildingTrue, MovingTrue, Moving
<1>3. /\ \A o \in OutSet(a) : box[a].outs[o] = Makes(a, o) /\ box[a].outs[o] # Absent
      /\ KeyOf(a) \notin DOMAIN store
  BY <1>1 DEF BuildingTrue, MovingTrue, Makes, ToolsWrite
<1>4. /\ root' = [o \in AllOuts |-> root'[o]]
      /\ \A o \in OutSet(a) : root'[o] = Makes(a, o)
      /\ \A o \in AllOuts \ OutSet(a) : root'[o] = root[o]
  <2>1. DOMAIN root = AllOuts
    BY DEF ExecTypes
  <2> QED BY <1>1, <1>3, <2>1, Producers DEF copy_path
<1>5. /\ at'[a] = "store" /\ todo'[a] = Outs[a]
      /\ \A c \in Actions \ {a} : at'[c] = at[c] /\ todo'[c] = todo[c]
  BY <1>1 DEF ExecTypes
<1>6. ExecTypes'
  <2>1. todo' \in [Actions -> Seq(AllOuts)] /\ at' \in [Actions -> {"none", "restore", "run", "capture", "store", "failed"}]
    BY <1>1, ExecAssumption DEF ExecTypes
  <2> QED BY <1>1, <1>4, <2>1 DEF ExecTypes
<1>7. BuilderTrue'
  BY <1>1, <1>2 DEF BuilderTrue
<1>8. \A c \in Actions : Ready(c) => Undisturbed(c)
  BY <1>1, SameValues DEF Undisturbed
<1>9. MovingTrue(a)' /\ ValueTrue(a)'
  <2>1. ValueTrue(a)'
    BY <1>5 DEF ValueTrue
  <2>2. ToSet(todo'[a]) = OutSet(a) /\ Len(todo'[a]) <= Len(Outs[a])
    BY <1>5, ExecAssumption DEF OutSet
  <2>3. Ready(a)' /\ ~Fresh(a)' /\ KeyOf(a)' \notin DOMAIN store' /\ \A o \in OutSet(a) : root'[o] = Makes(a, o)'
    BY <1>1, <1>2, <1>3, <1>4, <1>8 DEF Undisturbed
  <2> QED BY <1>5, <2>1, <2>2, <2>3 DEF MovingTrue
<1>10. \A c \in Actions \ {a} : MovingTrue(c)' /\ ValueTrue(c)'
  <2> SUFFICES ASSUME NEW c \in Actions \ {a} PROVE MovingTrue(c)' /\ ValueTrue(c)'
    OBVIOUS
  <2>1. \A o \in OutSet(c) : root'[o] = root[o]
    BY <1>4, ExecAssumption, Producers
  <2> QED BY <1>1, <1>2, <1>5, <1>8, <2>1, OtherKeeps
<1>11. StoreTrue'
  BY <1>1, <1>5, SameValues, EntriesKeep
<1>12. BuildingTrue'
  BY <1>1, <1>2, <1>7, <1>9, <1>10 DEF BuildingTrue
<1> QED BY <1>6, <1>11, <1>12

LEMMA StoreOutputKeeps ==
  ASSUME ExecInv, NEW a \in Actions, store_output(a), ToolsWrite
  PROVE  ExecInv'
<1> USE DEF ExecInv
<1> DEFINE k == KeyOf(a)
           o == Head(todo[a])
           old == IF k \in DOMAIN store THEN store[k] ELSE << >>
           new == IF root[o] = Absent THEN old
                  ELSE [q \in DOMAIN old \cup {o} |-> IF q = o THEN root[o] ELSE old[q]]
<1>1. /\ at[a] = "store" /\ todo[a] # << >> /\ todo' = [todo EXCEPT ![a] = Tail(@)]
      /\ store' = IF new = << >> THEN store
                  ELSE [q \in DOMAIN store \cup {k} |-> IF q = k THEN new ELSE store[q]]
      /\ UNCHANGED <<src, bld, root, box, builder, at, phase>>
  BY DEF store_output
<1>2. phase = "building" /\ builder # NoBuilder /\ BuilderTrue /\ Ready(a) /\ ~Fresh(a)
  BY <1>1 DEF BuildingTrue, MovingTrue, Moving
<1>3. /\ \A q \in OutSet(a) : root[q] = Makes(a, q) /\ root[q] # Absent
      /\ ToSet(todo[a]) \subseteq OutSet(a) /\ Len(todo[a]) <= Len(Outs[a])
      /\ \A q \in OutSet(a) \ ToSet(todo[a]) : k \in DOMAIN store /\ q \in DOMAIN store[k]
  BY <1>1 DEF BuildingTrue, MovingTrue, Makes, ToolsWrite
<1>4. todo[a] \in Seq(AllOuts) /\ Outs[a] \in Seq(AllOuts)
  BY ExecAssumption DEF ExecTypes
<1>5. /\ ToSet(todo[a]) = {o} \cup ToSet(Tail(todo[a])) /\ Tail(todo[a]) \in Seq(AllOuts)
      /\ Len(Tail(todo[a])) < Len(Outs[a])
  BY <1>1, <1>3, <1>4, HeadAndTail
<1>6. o \in OutSet(a) /\ root[o] = Makes(a, o) /\ root[o] # Absent
  BY <1>3, <1>5
<1>7. /\ k \in DOMAIN store' /\ DOMAIN store'[k] = DOMAIN old \cup {o}
      /\ \A q \in DOMAIN store'[k] : store'[k][q] = IF q = o THEN root[o] ELSE old[q]
      /\ \A q : q # k => /\ q \in DOMAIN store' <=> q \in DOMAIN store
                         /\ q \in DOMAIN store => store'[q] = store[q]
  <2>1. new = [q \in DOMAIN old \cup {o} |-> IF q = o THEN root[o] ELSE old[q]]
    BY <1>6
  <2> HIDE DEF new, old, o, k
  <2>2. DOMAIN new = DOMAIN old \cup {o}
    BY <2>1
  <2>3. new # << >>
    BY <2>2
  <2>4. store' = [q \in DOMAIN store \cup {k} |-> IF q = k THEN new ELSE store[q]]
    BY <1>1, <2>3
  <2> QED BY <2>1, <2>2, <2>4
<1>8. /\ k.a = a /\ k.b = builder.build /\ k.ins = InputDigests(a)
      /\ \A c \in Actions : KeyOf(c).a = c
  BY DEF KeyOf, content_key
<1>9. \A c \in Actions : /\ Ready(c)' = Ready(c) /\ Fresh(c)' = Fresh(c) /\ KeyOf(c)' = KeyOf(c)
                         /\ InputDigests(c)' = InputDigests(c) /\ \A q : Makes(c, q)' = Makes(c, q)
  BY <1>1, SameValues
<1>10. todo'[a] = Tail(todo[a]) /\ \A c \in Actions \ {a} : todo'[c] = todo[c]
  BY <1>1 DEF ExecTypes
<1>11. ExecTypes'
  <2>1. todo' \in [Actions -> Seq(AllOuts)]
    BY <1>1, <1>5 DEF ExecTypes
  <2> QED BY <1>1, <2>1 DEF ExecTypes
<1>12. BuilderTrue'
  BY <1>1, <1>2 DEF BuilderTrue
<1>13. \A q \in OutSet(a) \ ToSet(todo'[a]) : q \in DOMAIN store'[k]
  <2> SUFFICES ASSUME NEW q \in OutSet(a) \ ToSet(todo'[a]), q # o PROVE q \in DOMAIN old
    BY <1>7
  <2>1. q \in OutSet(a) \ ToSet(todo[a])
    BY <1>5, <1>10
  <2> QED BY <1>3, <2>1
<1>14. MovingTrue(a)' /\ ValueTrue(a)'
  <2>1. ValueTrue(a)'
    BY <1>1 DEF ValueTrue
  <2>2. /\ ToSet(todo'[a]) \subseteq OutSet(a) /\ Len(todo'[a]) <= Len(Outs[a]) /\ todo'[a] # Outs[a]
    <3>1. Len(Tail(todo[a])) \in Nat /\ Len(Outs[a]) \in Nat
      BY <1>4, <1>5
    <3>2. ToSet(todo'[a]) \subseteq OutSet(a) /\ Len(todo'[a]) < Len(Outs[a])
      BY <1>3, <1>5, <1>10
    <3>3. \A m, n \in Nat : m < n => m <= n /\ m # n
      OBVIOUS
    <3>4. Len(todo'[a]) <= Len(Outs[a]) /\ Len(todo'[a]) # Len(Outs[a])
      BY <1>10, <3>1, <3>2, <3>3
    <3>5. todo'[a] # Outs[a]
      BY <3>4
    <3> QED BY <3>2, <3>4, <3>5
  <2>3. /\ Ready(a)' /\ ~Fresh(a)' /\ \A q \in OutSet(a) : root'[q] = Makes(a, q)'
        /\ \A q \in OutSet(a) \ ToSet(todo'[a]) : KeyOf(a)' \in DOMAIN store' /\ q \in DOMAIN store'[KeyOf(a)']
    BY <1>1, <1>2, <1>3, <1>7, <1>9, <1>13
  <2> QED BY <1>1, <2>1, <2>2, <2>3 DEF MovingTrue
<1>15. \A c \in Actions \ {a} : MovingTrue(c)' /\ ValueTrue(c)'
  <2>1. \A c \in Actions : Undisturbed(c) \/ ~Ready(c)
    BY <1>9 DEF Undisturbed
  <2>2. \A q : q.a # a => q # k
    BY <1>8
  <2> HIDE DEF k, o, old, new
  <2>3. \A q : q.a # a => /\ q \in DOMAIN store' <=> q \in DOMAIN store
                          /\ q \in DOMAIN store => store'[q] = store[q]
    BY <1>7, <2>2
  <2> QED BY <1>1, <1>2, <1>10, <2>1, <2>3, OtherKeeps
<1>16. EntryTrue(k)'
  <2>1. DOMAIN old \subseteq OutSet(a) /\ \A q \in DOMAIN old : old[q] = Makes(a, q)
    <3>1. CASE k \in DOMAIN store
      BY <1>8, <3>1 DEF StoreTrue, EntryTrue, Makes
    <3>2. CASE k \notin DOMAIN store
      <4>1. old = << >>
        BY <3>2
      <4>2. DOMAIN old = {}
        BY <4>1
      <4> QED BY <4>2
    <3> QED BY <3>1, <3>2
  <2>2. DOMAIN store'[k] \subseteq OutSet(a)
    BY <1>6, <1>7, <2>1
  <2>3. ASSUME NEW q \in DOMAIN store'[k] PROVE store'[k][q] = ToolOutput(k.b, k.a, k.ins, q)
    <3>1. store'[k][q] = Makes(a, q)
      BY <1>6, <1>7, <2>1
    <3> QED BY <1>8, <3>1 DEF Makes
  <2>4. DOMAIN store'[k] = OutSet(a) \/ todo'[a] # << >>
    <3>1. ASSUME todo'[a] = << >> PROVE OutSet(a) \subseteq DOMAIN store'[k]
      <4>1. ToSet(todo'[a]) = {}
        BY <3>1 DEF ToSet
      <4> QED BY <1>13, <4>1
    <3> QED BY <2>2, <3>1
  <2>5. at'[a] = "store" /\ k = KeyOf(a)'
    BY <1>1, <1>9
  <2>6. PICK e : e = k
    OBVIOUS
  <2> HIDE DEF k
  <2>7. EntryTrue(e)'
    BY <1>8, <2>2, <2>3, <2>4, <2>5, <2>6 DEF EntryTrue
  <2>8. k' = k
    BY <1>9 DEF k
  <2> QED BY <2>6, <2>7, <2>8
<1>17. ASSUME NEW q \in DOMAIN store, q # k PROVE EntryTrue(q)'
  <2>1. EntryTrue(q) /\ store'[q] = store[q]
    BY <1>7, <1>17 DEF StoreTrue
  <2>2. \A c \in Actions : at[c] = "store" /\ q = KeyOf(c) => c # a
    BY <1>17
  <2> HIDE DEF k
  <2> QED BY <1>1, <1>9, <1>10, <2>1, <2>2 DEF EntryTrue
<1>18. StoreTrue'
  <2>1. k' = k
    BY <1>9
  <2> HIDE DEF k
  <2> QED BY <1>7, <1>16, <1>17, <2>1 DEF StoreTrue
<1>19. BuildingTrue'
  BY <1>1, <1>2, <1>12, <1>14, <1>15 DEF BuildingTrue
<1> QED BY <1>11, <1>18, <1>19

-----------------------------------------------------------------------------
LEMMA StepExec ==
  ASSUME ToolsDeclare, ToolsWrite, ~CrashInStore, ExecInv, ExecNext
  PROVE  ExecInv'
BY EditSourceKeeps, EditBuildKeeps, ConfigureKeeps, BuildKeeps, JobsKeep, CrashKeeps, StartKeeps,
   RestoreKeeps, SyncKeeps, RunKeeps, CaptureKeeps, StoreOutputKeeps, ExecuteKeeps
   DEF ExecNext, ExecAction

LEMMA StutterExec ==
  ASSUME ExecInv, UNCHANGED execVars
  PROVE  ExecInv'
<1> USE DEF ExecInv
<1>1. UNCHANGED <<src, bld, root, store, box, builder, at, todo, phase>>
  BY DEF execVars
<1>2. ExecTypes'
  BY <1>1 DEF ExecTypes
<1>3. \A a \in Actions : /\ Ready(a)' = Ready(a) /\ Fresh(a)' = Fresh(a) /\ KeyOf(a)' = KeyOf(a)
                         /\ \A o : Makes(a, o)' = Makes(a, o)
  BY <1>1, SameValues
<1>4. \A a \in Actions : MovingTrue(a) => MovingTrue(a)'
  BY <1>1, <1>3 DEF MovingTrue, Moving
<1>5. BuildingTrue'
  <2>1. builder # NoBuilder => BuilderTrue' /\ \A a \in Actions : ValueTrue(a)'
    BY <1>1 DEF BuildingTrue, BuilderTrue, ValueTrue
  <2> QED BY <1>1, <1>3, <1>4, <2>1 DEF BuildingTrue
<1>6. StoreTrue'
  BY <1>1, <1>3, EntriesKeep
<1> QED BY <1>2, <1>5, <1>6

(* When all is fresh, every action is ready and nothing moves. *)
LEMMA OkIsClean == ToolsDeclare /\ ExecInv => BuiltIsClean
<1> SUFFICES ASSUME ToolsDeclare, ExecInv, phase = "ok", NEW a \in Actions, NEW o \in OutSet(a)
             PROVE  root[o] = ToolOutput(bld, a, OnDisk, o)
  BY DEF BuiltIsClean
<1> USE DEF ExecInv
<1>1. builder # NoBuilder /\ BuilderTrue /\ builder.build = bld /\ at[a] = "none" /\ \A c \in Actions : Fresh(c)
  BY DEF BuildingTrue, BuilderTrue
<1>2. Ready(a)
  <2>1. \A c \in Actions : Deps(c) \subseteq Actions
    BY <1>1, Dependencies
  <2>2. UpToDate(Actions)
    BY <1>1, <2>1 DEF UpToDate
  <2> QED BY <2>1, <2>2 DEF Ready
<1>3. root[o] = ToolOutput(bld, a, InputDigests(a), o)
  <2>1. builder.val[a] # << >> /\ builder.seen[a] = InputDigests(a)
    BY <1>1 DEF Fresh
  <2> QED BY <1>1, <2>1 DEF BuildingTrue, ValueTrue
<1>4. \A p \in Reads[bld][a] : InputDigests(a)[p] = OnDisk[p]
  <2>1. Reads[bld][a] \subseteq Decl[bld][a] /\ Decl[bld][a] \subseteq Sources \cup AllOuts
    BY ExecAssumption DEF ToolsDeclare, ExecTypes
  <2> QED BY <1>1, <1>2, <2>1, InputsOnDisk DEF OnDisk
<1>5. [p \in Reads[bld][a] |-> InputDigests(a)[p]] = [p \in Reads[bld][a] |-> OnDisk[p]]
  BY <1>4
<1> QED BY <1>3, <1>5 DEF ToolOutput

(***************************************************************************)
(* Whatever is edited, reverted, failed, killed and built again, warm or   *)
(* from a new process, with files taken from the cache or not: a build     *)
(* that succeeds leaves what a clean build makes of the files on disk, and *)
(* nothing under a key of the cache is other than what the key names.      *)
(* The tools open declared inputs only and write their outputs, and the    *)
(* process is not killed between two files of one entry (restore_or_run,   *)
(* Cache::store, sync_inputs, run_action).                                 *)
(***************************************************************************)
THEOREM BuildsAlwaysTrue ==
  ASSUME ToolsDeclare, ToolsWrite, ~CrashInStore
  PROVE  ExecSpec => []BuildsTrue
<1>1. ExecInv /\ [ExecNext]_execVars => ExecInv'
  BY StepExec, StutterExec
<1>2. ExecInv => BuildsTrue
  BY OkIsClean DEF ExecInv, StoreTrue, EntryTrue, BuildsTrue, StoreIsTrue
<1> QED BY <1>1, <1>2, InitExec, PTL DEF ExecSpec

-----------------------------------------------------------------------------
(***************************************************************************)
(* DepsEngine. A fact that has been written and read back is written the   *)
(* same again (razel-deps-engine/src/facts.rs).                            *)
(***************************************************************************)
LEMMA ScalarBack ==
  ASSUME NEW s, IsScalar(s)
  PROVE  scalar_cbor(scalar_of(scalar_cbor(s))) = scalar_cbor(s)
<1>1. DOMAIN ScalarTag = {"str", "int", "bool"} /\ ScalarTag["str"] = 0 /\ ScalarTag["int"] = 1 /\ ScalarTag["bool"] = 2
  BY DEF ScalarTag
<1>2. scalar_of(scalar_cbor(s)) = [t |-> CHOOSE t \in DOMAIN ScalarTag : ScalarTag[t] = ScalarTag[s.t], v |-> s.v]
  BY DEF scalar_of, scalar_cbor
<1>3. (CHOOSE t \in DOMAIN ScalarTag : ScalarTag[t] = ScalarTag[s.t]) = s.t
  BY <1>1 DEF IsScalar
<1>4. scalar_of(scalar_cbor(s)) = [t |-> s.t, v |-> s.v]
  BY <1>2, <1>3
<1>5. scalar_cbor([t |-> s.t, v |-> s.v]) = scalar_cbor(s)
  BY DEF scalar_cbor
<1> QED
  BY <1>4, <1>5

LEMMA ScalarsBack ==
  ASSUME NEW f, \A i \in DOMAIN f : IsScalar(f[i])
  PROVE  LET c == [i \in DOMAIN f |-> scalar_cbor(f[i])]
             g == [i \in DOMAIN c |-> scalar_of(c[i])]
         IN  [i \in DOMAIN g |-> scalar_cbor(g[i])] = c
BY ScalarBack

LEMMA ValueBack ==
  ASSUME NEW v, IsValue(v)
  PROVE  field_value_cbor(field_value_of(field_value_cbor(v))) = field_value_cbor(v)
<1>1. CASE v.kind = "scalar"
  <2>1. field_value_cbor(v) = <<0, scalar_cbor(v.of)>>
    BY <1>1 DEF field_value_cbor
  <2>2. field_value_of(field_value_cbor(v)) = [kind |-> "scalar", of |-> scalar_of(scalar_cbor(v.of))]
    BY <2>1 DEF field_value_of
  <2>3. field_value_cbor(field_value_of(field_value_cbor(v))) = <<0, scalar_cbor(scalar_of(scalar_cbor(v.of)))>>
    BY <2>2 DEF field_value_cbor
  <2> QED
    BY <1>1, <2>1, <2>3, ScalarBack DEF IsValue
<1>2. CASE v.kind \in {"set", "depset"}
  <2> DEFINE tag == IF v.kind = "set" THEN 1 ELSE 2
             c   == [i \in DOMAIN v.of |-> scalar_cbor(v.of[i])]
             g   == [i \in DOMAIN c |-> scalar_of(c[i])]
  <2>1. field_value_cbor(v) = <<tag, c>>
    BY <1>2 DEF field_value_cbor
  <2>2. field_value_of(<<tag, c>>) = [kind |-> v.kind, of |-> g]
    <3>1. \A x : <<tag, x>>[1] = tag /\ <<tag, x>>[2] = x /\ tag # 0 /\ (tag = 1 <=> v.kind = "set")
      OBVIOUS
    <3>2. \A x : field_value_of(<<tag, x>>) = [kind |-> v.kind, of |-> [i \in DOMAIN x |-> scalar_of(x[i])]]
      <4> HIDE DEF tag
      <4> QED
        BY <1>2, <3>1 DEF field_value_of
    <3> QED
      BY <3>2
  <2>3. field_value_cbor([kind |-> v.kind, of |-> g]) = <<tag, [i \in DOMAIN g |-> scalar_cbor(g[i])]>>
    BY <1>2 DEF field_value_cbor
  <2>4. [i \in DOMAIN g |-> scalar_cbor(g[i])] = c
    BY <1>2, ScalarsBack DEF IsValue
  <2> QED
    BY <2>1, <2>2, <2>3, <2>4
<1> QED
  BY <1>1, <1>2 DEF IsValue

LEMMA ActionBack ==
  ASSUME NEW a
  PROVE  action_cbor(action_of(action_cbor(a))) = action_cbor(a)
BY DEF action_cbor, action_of

LEMMA TargetBack ==
  ASSUME NEW t, IsFact(t)
  PROVE  encode_target(decode_target(encode_target(t))) = encode_target(t)
<1> DEFINE acts == [i \in DOMAIN t.actions |-> action_cbor(t.actions[i])]
           prov == [i \in DOMAIN t.providers |->
                      <<t.providers[i].ty, t.providers[i].field, field_value_cbor(t.providers[i].value)>>]
           acts2 == [i \in DOMAIN acts |-> action_of(acts[i])]
           prov2 == [i \in DOMAIN prov |->
                      [ty |-> prov[i][1], field |-> prov[i][2], value |-> field_value_of(prov[i][3])]]
<1>1. encode_target(t) = <<t.name, t.deps, acts, t.default_info, prov>>
  BY DEF encode_target
<1>2. decode_target(encode_target(t)) =
        [name |-> t.name, deps |-> t.deps, actions |-> acts2, default_info |-> t.default_info, providers |-> prov2]
  BY <1>1 DEF decode_target
<1>3. [i \in DOMAIN acts2 |-> action_cbor(acts2[i])] = acts
  BY ActionBack
<1>4. [i \in DOMAIN prov2 |-> <<prov2[i].ty, prov2[i].field, field_value_cbor(prov2[i].value)>>] = prov
  <2>1. ASSUME NEW i \in DOMAIN t.providers
        PROVE  <<prov2[i].ty, prov2[i].field, field_value_cbor(prov2[i].value)>> = prov[i]
    BY ValueBack DEF IsFact
  <2> QED
    BY <2>1
<1> HIDE DEF acts, prov, acts2, prov2
<1>5. encode_target([name |-> t.name, deps |-> t.deps, actions |-> acts2, default_info |-> t.default_info, providers |-> prov2])
      = <<t.name, t.deps, acts, t.default_info, prov>>
  BY <1>3, <1>4 DEF encode_target
<1> QED
  BY <1>1, <1>2, <1>5

LEMMA SnapshotBack ==
  ASSUME NEW ts, \A i \in DOMAIN ts : IsFact(ts[i])
  PROVE  encode_snapshot(decode_snapshot(encode_snapshot(ts))) = encode_snapshot(ts)
<1>1. ASSUME NEW i \in DOMAIN ts
      PROVE  SubSeq(encode_target(ts[i]), 1, Len(encode_target(ts[i]))) = encode_target(ts[i])
  <2> DEFINE e == encode_target(ts[i])
  <2>1. PICK S : e \in Seq(S)
    <3> DEFINE T == {e[1], e[2], e[3], e[4], e[5]}
    <3>1. e \in Seq(T)
      BY DEF encode_target
    <3> QED
      BY <3>1
  <2> HIDE DEF e
  <2>2. SubSeq(e, 1, Len(e)) = e
    BY <2>1
  <2> QED
    BY <2>2 DEF e
<1> DEFINE b == encode_snapshot(ts)
           d == decode_snapshot(b)
<1>2. b = [i \in DOMAIN ts |-> <<Len(encode_target(ts[i])), encode_target(ts[i])>>]
  BY DEF encode_snapshot
<1>3. d = [i \in DOMAIN ts |-> decode_target(encode_target(ts[i]))]
  <2>1. DOMAIN b = DOMAIN ts
    BY <1>2
  <2>2. \A i \in DOMAIN ts : b[i][1] = Len(encode_target(ts[i])) /\ b[i][2] = encode_target(ts[i])
    BY <1>2
  <2> HIDE DEF b
  <2>3. \A i \in DOMAIN ts : SubSeq(b[i][2], 1, b[i][1]) = encode_target(ts[i])
    BY <1>1, <2>2
  <2> QED
    BY <2>1, <2>3 DEF decode_snapshot
<1> HIDE DEF b, d
<1>4. encode_snapshot(d) = [i \in DOMAIN ts |-> <<Len(encode_target(ts[i])), encode_target(ts[i])>>]
  BY <1>3, TargetBack DEF encode_snapshot
<1> QED
  BY <1>2, <1>4 DEF b, d

-----------------------------------------------------------------------------
(***************************************************************************)
(* The seam: what a command has told its subscribers is known from where   *)
(* it is, and what it holds, or the cache holds under its key, encodes as  *)
(* its analysis does.                                                      *)
(***************************************************************************)
(* What a command may hold: its facts, as analysed or as read back. *)
Results == {ResultOf(c)[2] : c \in {d \in Commands : ResultOf(d)[1] = "ok"}}
Holdable == {<< >>} \cup Results \cup {decode_snapshot(encode_snapshot(f)) : f \in Results}
Keys == {cache_key(Request[c]) : c \in Commands}
Stored == {encode_snapshot(f) : f \in Results}
Headers == [command : Commands, epoch : Nat, snapshot : Int, sequence : Nat]
Kinds == {"accepted", "diagnostic", "committed", "finished", "failed"}
Records == [pc : {"new", "accept", "lookup", "analyse", "commit", "committed", "finish", "end"},
            epoch : Nat, sinks : SUBSET Subscribers, seq : Nat, facts : Holdable,
            id : Nat \cup {NoId}, hit : BOOLEAN]
Events == [kind : Kinds, h : Headers]
SeamTypes ==
  /\ deng \in [epoch : Nat, next : Nat, subs : SUBSET Subscribers,
               snapshots : UNION {[D -> Holdable] : D \in SUBSET Nat},
               cache : UNION {[D -> Stored] : D \in SUBSET Keys}]
  /\ cmd \in [Commands -> Records]
  /\ sink \in [Subscribers -> [Commands -> Seq(Events)]]

(* The kinds of the events a command has sent, by where it is. *)
Opening(n) == IF n = 2 THEN <<"accepted", "diagnostic">> ELSE <<"accepted">>
Sent(r) ==
  CASE r.pc \in {"new", "accept"} -> << >>
    [] r.pc = "lookup" -> <<"accepted">>
    [] r.pc \in {"analyse", "commit", "committed"} -> Opening(r.seq)
    [] r.pc = "finish" -> Append(Opening(r.seq - 1), "committed")
    [] r.pc = "end" /\ r.id = NoId -> <<"accepted", "diagnostic", "failed">>
    [] OTHER -> Append(Append(Opening(r.seq - 2), "committed"), "finished")
PlaceTrue(r) ==
  /\ r.pc \in {"new", "accept"} => r.seq = 0
  /\ r.pc = "new" => r.sinks = {}
  /\ r.pc = "lookup" => r.seq = 1
  /\ r.pc \in {"analyse", "commit", "committed"} => r.seq \in {1, 2}
  /\ r.pc = "finish" => r.seq \in {2, 3}
  /\ r.pc = "end" => r.seq \in IF r.id = NoId THEN {3} ELSE {3, 4}
  /\ r.pc \in {"new", "accept", "lookup", "analyse", "commit"} => r.id = NoId
  /\ r.pc \in {"committed", "finish"} => r.id # NoId
IsResult(c, f) == ResultOf(c)[1] = "ok" /\ encode_snapshot(f) = encode_snapshot(ResultOf(c)[2])
HeldTrue ==
  /\ \A i \in DOMAIN deng.snapshots : i < deng.next
  /\ \A c \in Commands : cmd[c].pc = "commit" => IsResult(c, cmd[c].facts)
  /\ \A c \in Commands : cmd[c].id # NoId =>
       cmd[c].id \in DOMAIN deng.snapshots /\ IsResult(c, deng.snapshots[cmd[c].id])
CacheTrue ==
  \A k \in DOMAIN deng.cache : \E c \in Commands :
     k = cache_key(Request[c]) /\ ResultOf(c)[1] = "ok" /\ deng.cache[k] = encode_snapshot(ResultOf(c)[2])
EventsTrue(t, r) ==
  /\ Len(t) = r.seq
  /\ [i \in DOMAIN t |-> t[i].kind] = Sent(r)
  /\ \A i \in DOMAIN t : t[i].h.sequence = i /\ t[i].h.snapshot \in {NoId, r.id}
SinkTrue(s, c) ==
  IF s \in cmd[c].sinks THEN EventsTrue(sink[s][c], cmd[c]) ELSE sink[s][c] = << >>
SeamInv ==
  /\ SeamTypes /\ HeldTrue /\ CacheTrue
  /\ \A c \in Commands : PlaceTrue(cmd[c])
  /\ \A s \in Subscribers, c \in Commands : SinkTrue(s, c)
DepsSpec == DepsInit /\ [][DepsNext]_depsVars

(* One event more, told to those who were there when the command was accepted. *)
LEMMA EventAppended ==
  ASSUME NEW r \in Records, NEW q \in Records, NEW t \in Seq(Events), NEW e \in Events,
         EventsTrue(t, r), q.seq = r.seq + 1, Sent(q) = Append(Sent(r), e.kind),
         r.id \in {NoId, q.id}, e.h.sequence = r.seq + 1, e.h.snapshot \in {NoId, q.id}
  PROVE  EventsTrue(Append(t, e), q)
<1> DEFINE u == Append(t, e)
<1>1. Len(t) \in Nat /\ Len(t) = r.seq /\ DOMAIN t = 1..Len(t) /\ r.seq \in Nat
  BY DEF EventsTrue, Records
<1>2. u \in Seq(Events) /\ Len(u) = Len(t) + 1 /\ DOMAIN u = 1..(Len(t) + 1)
  BY <1>1
<1>3. \A i \in 1..Len(t) : u[i] = t[i]
  BY <1>1
<1>4. u[Len(t) + 1] = e
  BY <1>1
<1> HIDE DEF u
<1>5. [i \in DOMAIN u |-> u[i].kind] = Sent(q)
  <2> DEFINE k == [i \in DOMAIN t |-> t[i].kind]
  <2>1. k = Sent(r)
    BY DEF EventsTrue
  <2>2. \A i \in 1..Len(t) : t[i] \in Events
    BY <1>1
  <2>3. k \in Seq(Kinds) /\ Len(k) = Len(t)
    BY <1>1, <2>2 DEF Events
  <2>4. Append(k, e.kind) = [i \in 1..(Len(t) + 1) |-> IF i = Len(t) + 1 THEN e.kind ELSE k[i]]
    BY <2>3 DEF Events
  <2>5. [i \in DOMAIN u |-> u[i].kind] = Append(k, e.kind)
    BY <1>1, <1>2, <1>3, <1>4, <2>4
  <2> QED
    BY <2>1, <2>5
<1>6. \A i \in DOMAIN u : u[i].h.sequence = i /\ u[i].h.snapshot \in {NoId, q.id}
  <2>1. \A i \in 1..Len(t) : t[i].h.sequence = i /\ t[i].h.snapshot \in {NoId, r.id}
    BY <1>1 DEF EventsTrue
  <2> QED
    BY <1>1, <1>2, <1>3, <1>4, <2>1
<1> QED
  BY <1>1, <1>2, <1>5, <1>6 DEF EventsTrue, u

LEMMA Tells ==
  ASSUME SeamInv, NEW c \in Commands, NEW kind \in Kinds, NEW id \in Nat \cup {NoId}, NEW q \in Records,
         emit(c, kind, id), cmd' = [cmd EXCEPT ![c] = q],
         q.sinks = cmd[c].sinks, q.seq = cmd[c].seq + 1, cmd[c].id \in {NoId, q.id}, id \in {NoId, q.id},
         Sent(q) = Append(Sent(cmd[c]), kind)
  PROVE  /\ sink' \in [Subscribers -> [Commands -> Seq(Events)]]
         /\ \A s \in Subscribers, d \in Commands : SinkTrue(s, d)'
<1> DEFINE e == [kind |-> kind, h |-> header(c, id)]
<1>1. cmd \in [Commands -> Records] /\ sink \in [Subscribers -> [Commands -> Seq(Events)]]
  BY DEF SeamInv, SeamTypes
<1>2. e \in Events /\ e.kind = kind /\ e.h.sequence = cmd[c].seq + 1 /\ e.h.snapshot = id
  BY <1>1 DEF Events, Headers, header, Records, NoId
<1>3. sink' = [s \in Subscribers |-> [sink[s] EXCEPT ![c] = IF s \in cmd[c].sinks THEN Append(@, e) ELSE @]]
  BY DEF emit, SinksOf
<1> HIDE DEF e
<1>4. ASSUME NEW s \in Subscribers, NEW d \in Commands
      PROVE  sink'[s][d] = IF d = c /\ s \in cmd[c].sinks THEN Append(sink[s][c], e) ELSE sink[s][d]
  BY <1>1, <1>3
<1>5. sink' \in [Subscribers -> [Commands -> Seq(Events)]]
  <2>1. ASSUME NEW s \in Subscribers
        PROVE  [sink[s] EXCEPT ![c] = IF s \in cmd[c].sinks THEN Append(@, e) ELSE @] \in [Commands -> Seq(Events)]
    BY <1>1, <1>2
  <2> QED
    BY <1>3, <2>1
<1>6. ASSUME NEW s \in Subscribers, NEW d \in Commands
      PROVE  SinkTrue(s, d)'
  <2>1. SinkTrue(s, d)
    BY DEF SeamInv
  <2>2. CASE d # c
    BY <1>1, <1>4, <2>1, <2>2 DEF SinkTrue
  <2>3. CASE d = c /\ s \notin cmd[c].sinks
    BY <1>1, <1>4, <2>1, <2>3 DEF SinkTrue
  <2>4. CASE d = c /\ s \in cmd[c].sinks
    <3>1. EventsTrue(sink[s][c], cmd[c]) /\ sink[s][c] \in Seq(Events) /\ cmd[c] \in Records
      BY <1>1, <2>1, <2>4 DEF SinkTrue
    <3>2. EventsTrue(Append(sink[s][c], e), q)
      BY <1>2, <3>1, EventAppended
    <3>3. cmd'[d] = q /\ sink'[s][d] = Append(sink[s][c], e)
      BY <1>1, <1>4, <2>4
    <3> QED
      BY <2>4, <3>2, <3>3 DEF SinkTrue
  <2> QED
    BY <2>2, <2>3, <2>4
<1> QED
  BY <1>5, <1>6

LEMMA Silent ==
  ASSUME SeamInv, NEW c \in Commands, NEW q \in Records,
         sink' = sink, cmd' = [cmd EXCEPT ![c] = q],
         q.sinks = cmd[c].sinks, q.seq = cmd[c].seq, cmd[c].id \in {NoId, q.id}, Sent(q) = Sent(cmd[c])
  PROVE  /\ sink' \in [Subscribers -> [Commands -> Seq(Events)]]
         /\ \A s \in Subscribers, d \in Commands : SinkTrue(s, d)'
<1>1. cmd \in [Commands -> Records] /\ sink \in [Subscribers -> [Commands -> Seq(Events)]]
  BY DEF SeamInv, SeamTypes
<1>2. ASSUME NEW s \in Subscribers, NEW d \in Commands
      PROVE  SinkTrue(s, d)'
  <2>1. SinkTrue(s, d)
    BY DEF SeamInv
  <2>2. CASE d # c
    BY <1>1, <2>1, <2>2 DEF SinkTrue
  <2>3. CASE d = c
    <3>1. cmd'[d] = q
      BY <1>1, <2>3
    <3>2. EventsTrue(sink[s][c], cmd[c]) => EventsTrue(sink[s][c], q)
      BY DEF EventsTrue
    <3> QED
      BY <2>1, <2>3, <3>1, <3>2 DEF SinkTrue
  <2> QED
    BY <2>2, <2>3
<1> QED
  BY <1>1, <1>2

(* A step of one command that leaves the snapshots and the cache alone. *)
LEMMA MoveKeeps ==
  ASSUME SeamInv, NEW c \in Commands, NEW q \in Records, cmd' = [cmd EXCEPT ![c] = q], deng' = deng,
         PlaceTrue(q), q.id = cmd[c].id, q.pc = "commit" => IsResult(c, q.facts),
         sink' \in [Subscribers -> [Commands -> Seq(Events)]],
         \A s \in Subscribers, d \in Commands : SinkTrue(s, d)'
  PROVE  SeamInv'
<1>1. cmd \in [Commands -> Records]
  BY DEF SeamInv, SeamTypes
<1>2. cmd'[c] = q /\ \A d \in Commands : d # c => cmd'[d] = cmd[d]
  BY <1>1
<1>3. SeamTypes'
  BY <1>1 DEF SeamInv, SeamTypes
<1>4. HeldTrue' /\ CacheTrue'
  BY <1>2 DEF SeamInv, HeldTrue, CacheTrue
<1>5. \A d \in Commands : PlaceTrue(cmd'[d])
  BY <1>2 DEF SeamInv
<1> QED
  BY <1>3, <1>4, <1>5 DEF SeamInv

(* What an event leaves of the record of its command. *)
LEMMA Emitting ==
  ASSUME SeamTypes, NEW c \in Commands,
         NEW pc \in {"new", "accept", "lookup", "analyse", "commit", "committed", "finish", "end"}, GoEmitted(c, pc)
  PROVE  \E q \in Records :
           /\ cmd' = [cmd EXCEPT ![c] = q]
           /\ q.pc = pc /\ q.seq = cmd[c].seq + 1
           /\ q.sinks = cmd[c].sinks /\ q.id = cmd[c].id /\ q.facts = cmd[c].facts
<1> DEFINE q == [cmd[c] EXCEPT !.pc = pc, !.seq = @ + 1]
<1>1. cmd \in [Commands -> Records]
  BY DEF SeamTypes
<1>2. cmd[c] \in Records
  BY <1>1
<1>3. q \in Records /\ q.pc = pc /\ q.seq = cmd[c].seq + 1 /\ q.sinks = cmd[c].sinks /\ q.id = cmd[c].id
      /\ q.facts = cmd[c].facts
  <2> DEFINE n == cmd[c].seq + 1
  <2>1. q = [cmd[c] EXCEPT !.pc = pc, !.seq = n]
    OBVIOUS
  <2>2. n \in Nat
    BY <1>2 DEF Records
  <2> HIDE DEF n
  <2> SUFFICES [cmd[c] EXCEPT !.pc = pc, !.seq = n] \in Records
    BY <1>2, <2>1 DEF n, Records
  <2> QED
    BY <1>2, <2>2 DEF Records
<1>4. cmd' = [cmd EXCEPT ![c] = q]
  BY <1>1 DEF GoEmitted
<1> QED
  BY <1>3, <1>4

LEMMA AcceptedKeeps == ASSUME SeamInv, NEW c \in Commands, Accepted(c) PROVE SeamInv'
<1>1. SeamTypes /\ PlaceTrue(cmd[c]) /\ cmd[c] \in Records
  BY DEF SeamInv, SeamTypes
<1>2. PICK q \in Records : /\ cmd' = [cmd EXCEPT ![c] = q]
                           /\ q.pc = "lookup" /\ q.seq = cmd[c].seq + 1
                           /\ q.sinks = cmd[c].sinks /\ q.id = cmd[c].id
  BY <1>1, Emitting DEF Accepted
<1>3. cmd[c].pc = "accept" /\ cmd[c].seq = 0 /\ cmd[c].id = NoId /\ q.seq = 1
  BY <1>1, <1>2 DEF Accepted, PlaceTrue
<1>4. Sent(q) = Append(Sent(cmd[c]), "accepted")
  BY <1>2, <1>3 DEF Sent
<1>5. PlaceTrue(q)
  BY <1>2, <1>3 DEF PlaceTrue
<1>6. /\ sink' \in [Subscribers -> [Commands -> Seq(Events)]]
      /\ \A s \in Subscribers, d \in Commands : SinkTrue(s, d)'
  BY <1>2, <1>3, <1>4, Tells DEF Accepted, Kinds
<1> QED
  BY <1>2, <1>5, <1>6, MoveKeeps DEF Accepted

LEMMA DiagnosticKeeps == ASSUME SeamInv, NEW c \in Commands, Diagnostic(c) PROVE SeamInv'
<1>1. SeamTypes /\ PlaceTrue(cmd[c]) /\ cmd[c] \in Records
  BY DEF SeamInv, SeamTypes
<1>2. PICK q \in Records : /\ cmd' = [cmd EXCEPT ![c] = q]
                           /\ q.pc = "analyse" /\ q.seq = cmd[c].seq + 1
                           /\ q.sinks = cmd[c].sinks /\ q.id = cmd[c].id
  BY <1>1, Emitting DEF Diagnostic
<1>3. cmd[c].pc = "analyse" /\ cmd[c].seq = 1 /\ cmd[c].id = NoId /\ q.seq = 2
  BY <1>1, <1>2 DEF Diagnostic, PlaceTrue
<1>4. Sent(q) = Append(Sent(cmd[c]), "diagnostic")
  BY <1>2, <1>3 DEF Sent, Opening
<1>5. PlaceTrue(q)
  BY <1>2, <1>3 DEF PlaceTrue
<1>6. /\ sink' \in [Subscribers -> [Commands -> Seq(Events)]]
      /\ \A s \in Subscribers, d \in Commands : SinkTrue(s, d)'
  BY <1>2, <1>3, <1>4, Tells DEF Diagnostic, Kinds
<1> QED
  BY <1>2, <1>5, <1>6, MoveKeeps DEF Diagnostic

LEMMA CommittedKeeps == ASSUME SeamInv, NEW c \in Commands, Committed(c) PROVE SeamInv'
<1>1. SeamTypes /\ PlaceTrue(cmd[c]) /\ cmd[c] \in Records
  BY DEF SeamInv, SeamTypes
<1>2. PICK q \in Records : /\ cmd' = [cmd EXCEPT ![c] = q]
                           /\ q.pc = "finish" /\ q.seq = cmd[c].seq + 1
                           /\ q.sinks = cmd[c].sinks /\ q.id = cmd[c].id
  BY <1>1, Emitting DEF Committed
<1>3. cmd[c].pc = "committed" /\ cmd[c].seq \in {1, 2} /\ cmd[c].id # NoId /\ cmd[c].id \in Nat \cup {NoId}
  BY <1>1 DEF Committed, PlaceTrue, Records
<1>4. Sent(q) = Append(Sent(cmd[c]), "committed")
  <2>1. q.seq - 1 = cmd[c].seq
    BY <1>2, <1>3
  <2> QED
    BY <1>2, <1>3, <2>1 DEF Sent
<1>5. PlaceTrue(q)
  BY <1>2, <1>3 DEF PlaceTrue
<1>6. /\ sink' \in [Subscribers -> [Commands -> Seq(Events)]]
      /\ \A s \in Subscribers, d \in Commands : SinkTrue(s, d)'
  BY <1>2, <1>3, <1>4, Tells DEF Committed, Kinds
<1> QED
  BY <1>2, <1>5, <1>6, MoveKeeps DEF Committed

LEMMA FinishedKeeps == ASSUME SeamInv, NEW c \in Commands, Finished(c) PROVE SeamInv'
<1>1. SeamTypes /\ PlaceTrue(cmd[c]) /\ cmd[c] \in Records
  BY DEF SeamInv, SeamTypes
<1>2. PICK q \in Records : /\ cmd' = [cmd EXCEPT ![c] = q]
                           /\ q.pc = "end" /\ q.seq = cmd[c].seq + 1
                           /\ q.sinks = cmd[c].sinks /\ q.id = cmd[c].id
  BY <1>1, Emitting DEF Finished
<1>3. cmd[c].pc = "finish" /\ cmd[c].seq \in {2, 3} /\ cmd[c].id # NoId /\ cmd[c].id \in Nat \cup {NoId}
  BY <1>1 DEF Finished, PlaceTrue, Records
<1>4. Sent(q) = Append(Sent(cmd[c]), "finished")
  <2>1. q.seq - 2 = cmd[c].seq - 1
    BY <1>2, <1>3
  <2> QED
    BY <1>2, <1>3, <2>1 DEF Sent
<1>5. PlaceTrue(q)
  BY <1>2, <1>3 DEF PlaceTrue
<1>6. /\ sink' \in [Subscribers -> [Commands -> Seq(Events)]]
      /\ \A s \in Subscribers, d \in Commands : SinkTrue(s, d)'
  BY <1>2, <1>3, <1>4, Tells DEF Finished, Kinds
<1> QED
  BY <1>2, <1>5, <1>6, MoveKeeps DEF Finished

LEMMA SubmitKeeps == ASSUME SeamInv, NEW c \in Commands, submit(c) PROVE SeamInv'
<1> DEFINE n == deng.epoch + 1
           q == [cmd[c] EXCEPT !.pc = "accept", !.epoch = n, !.sinks = deng.subs]
<1>1. cmd \in [Commands -> Records] /\ cmd[c] \in Records /\ PlaceTrue(cmd[c]) /\ cmd[c].pc = "new"
  BY DEF SeamInv, SeamTypes, submit
<1>2. deng.epoch \in Nat /\ n \in Nat /\ deng.subs \in SUBSET Subscribers
  BY DEF SeamInv, SeamTypes
<1> HIDE DEF n
<1>3. /\ q.pc = "accept" /\ q.sinks = deng.subs /\ q.seq = cmd[c].seq /\ q.id = cmd[c].id
      /\ q \in Records
  BY <1>1, <1>2 DEF Records
<1>4. cmd' = [cmd EXCEPT ![c] = q] /\ sink' = sink
  BY <1>1 DEF submit, n
<1>5. deng' = [deng EXCEPT !.epoch = n]
  BY DEF submit, n
<1> HIDE DEF q
<1>6. cmd'[c] = q /\ (\A d \in Commands : d # c => cmd'[d] = cmd[d]) /\ cmd' \in [Commands -> Records]
  BY <1>1, <1>3, <1>4
<1>7. deng'.snapshots = deng.snapshots /\ deng'.cache = deng.cache /\ deng'.next = deng.next
  BY <1>5 DEF SeamInv, SeamTypes
<1>8. SeamTypes'
  BY <1>2, <1>4, <1>5, <1>6 DEF SeamInv, SeamTypes
<1>9. cmd[c].id = NoId /\ cmd[c].seq = 0 /\ cmd[c].sinks = {}
  BY <1>1 DEF PlaceTrue
<1>10. HeldTrue' /\ CacheTrue'
  BY <1>3, <1>6, <1>7, <1>9 DEF SeamInv, HeldTrue, CacheTrue
<1>11. \A d \in Commands : PlaceTrue(cmd'[d])
  BY <1>3, <1>6, <1>9 DEF SeamInv, PlaceTrue
<1>12. ASSUME NEW s \in Subscribers, NEW d \in Commands
       PROVE  SinkTrue(s, d)'
  <2>1. SinkTrue(s, d)
    BY DEF SeamInv
  <2>2. CASE d # c
    BY <1>4, <1>6, <2>1, <2>2 DEF SinkTrue
  <2>3. CASE d = c
    <3>1. sink[s][c] = << >>
      BY <1>9, <2>1, <2>3 DEF SinkTrue
    <3>2. EventsTrue(<< >>, q)
      <4>1. Sent(q) = << >> /\ q.seq = 0
        BY <1>3, <1>9 DEF Sent
      <4>2. [i \in DOMAIN << >> |-> << >>[i].kind] = << >>
        OBVIOUS
      <4> QED
        BY <4>1, <4>2 DEF EventsTrue
    <3> QED
      BY <1>4, <1>6, <2>3, <3>1, <3>2 DEF SinkTrue
  <2> QED
    BY <2>2, <2>3
<1> QED
  BY <1>8, <1>10, <1>11, <1>12 DEF SeamInv

(* One key, one result: the key has the source and every option but those   *)
(* that change nothing, or do not change.                                   *)
LEMMA SameKey ==
  ASSUME NEW c \in Commands, NEW d \in Commands, cache_key(Request[c]) = cache_key(Request[d])
  PROVE  ResultOf(c) = ResultOf(d)
BY OneLayout DEF cache_key, options_digest, ResultOf

LEMMA LookupKeeps == ASSUME SeamInv, NEW c \in Commands, Lookup(c) PROVE SeamInv'
<1> DEFINE k   == cache_key(Request[c])
           hit == k \in DOMAIN deng.cache
           pc  == IF hit THEN "commit" ELSE "analyse"
           f   == IF hit THEN decode_snapshot(deng.cache[k]) ELSE << >>
           q   == [cmd[c] EXCEPT !.pc = pc, !.hit = hit, !.facts = f]
<1>1. cmd \in [Commands -> Records] /\ cmd[c] \in Records /\ PlaceTrue(cmd[c]) /\ cmd[c].pc = "lookup"
  BY DEF SeamInv, SeamTypes, Lookup
<1>2. hit => /\ ResultOf(c)[1] = "ok" /\ deng.cache[k] = encode_snapshot(ResultOf(c)[2])
  <2>1. SUFFICES ASSUME hit
                 PROVE  ResultOf(c)[1] = "ok" /\ deng.cache[k] = encode_snapshot(ResultOf(c)[2])
    OBVIOUS
  <2>2. PICK d \in Commands : k = cache_key(Request[d]) /\ ResultOf(d)[1] = "ok"
                              /\ deng.cache[k] = encode_snapshot(ResultOf(d)[2])
    BY <2>1 DEF SeamInv, CacheTrue
  <2> QED
    BY <2>2, SameKey
<1>3. hit => f \in Holdable /\ IsResult(c, f)
  <2> SUFFICES ASSUME hit PROVE f \in Holdable /\ IsResult(c, f)
    OBVIOUS
  <2> DEFINE r == ResultOf(c)[2]
  <2>1. f = decode_snapshot(encode_snapshot(r)) /\ r \in Results
    BY <1>2 DEF Results
  <2>2. \A i \in DOMAIN r : IsFact(r[i])
    BY <1>2, ResultsAreFacts
  <2>3. encode_snapshot(decode_snapshot(encode_snapshot(r))) = encode_snapshot(r)
    BY <2>2, SnapshotBack
  <2> QED
    BY <1>2, <2>1, <2>3 DEF Holdable, IsResult
<1>4. f \in Holdable /\ hit \in BOOLEAN /\ pc \in {"commit", "analyse"} /\ (pc = "commit" => hit)
  BY <1>3 DEF Holdable
<1>5. cmd' = [cmd EXCEPT ![c] = q] /\ sink' = sink /\ deng' = deng
  BY <1>1 DEF Lookup
<1> HIDE DEF f, hit, pc
<1>6. /\ q.pc = pc /\ q.sinks = cmd[c].sinks /\ q.seq = cmd[c].seq /\ q.id = cmd[c].id /\ q.facts = f
      /\ q \in Records
  BY <1>1, <1>4 DEF Records
<1> HIDE DEF q
<1>7. cmd[c].seq = 1 /\ cmd[c].id = NoId
  BY <1>1 DEF PlaceTrue
<1>8. Sent(q) = Sent(cmd[c])
  BY <1>1, <1>4, <1>6, <1>7 DEF Sent, Opening
<1>9. PlaceTrue(q)
  BY <1>4, <1>6, <1>7 DEF PlaceTrue
<1>10. /\ sink' \in [Subscribers -> [Commands -> Seq(Events)]]
       /\ \A s \in Subscribers, d \in Commands : SinkTrue(s, d)'
  BY <1>5, <1>6, <1>7, <1>8, Silent
<1>11. q.pc = "commit" => IsResult(c, q.facts)
  BY <1>3, <1>4, <1>6
<1> QED
  BY <1>5, <1>6, <1>9, <1>10, <1>11, MoveKeeps

LEMMA AnalyseKeeps == ASSUME SeamInv, NEW c \in Commands, Analyse(c) PROVE SeamInv'
<1> DEFINE r == ResultOf(c)
           k == cache_key(Request[c])
<1>1. cmd \in [Commands -> Records] /\ cmd[c] \in Records /\ PlaceTrue(cmd[c]) /\ cmd[c].pc = "analyse" /\ SeamTypes
  BY DEF SeamInv, SeamTypes, Analyse
<1>2. cmd[c].seq = 2 /\ cmd[c].id = NoId
  BY <1>1 DEF PlaceTrue, Analyse
<1>3. CASE r[1] = "ok" /\ UNCHANGED sink /\ cmd' = [cmd EXCEPT ![c].pc = "commit", ![c].facts = r[2]]
           /\ deng' = [deng EXCEPT !.cache = [p \in DOMAIN @ \cup {k} |-> IF p = k THEN encode_snapshot(r[2]) ELSE @[p]]]
  <2> DEFINE f == r[2]
             q == [cmd[c] EXCEPT !.pc = "commit", !.facts = f]
             cache == [p \in DOMAIN deng.cache \cup {k} |-> IF p = k THEN encode_snapshot(f) ELSE deng.cache[p]]
  <2>1. f \in Results /\ f \in Holdable /\ encode_snapshot(f) \in Stored /\ IsResult(c, f)
    BY <1>3 DEF Results, Holdable, Stored, IsResult
  <2>2. cmd' = [cmd EXCEPT ![c] = q] /\ sink' = sink
    BY <1>1, <1>3
  <2>3. deng' = [deng EXCEPT !.cache = cache]
    BY <1>3
  <2> HIDE DEF f
  <2>4. /\ q.pc = "commit" /\ q.sinks = cmd[c].sinks /\ q.seq = cmd[c].seq /\ q.id = cmd[c].id /\ q.facts = f
        /\ q \in Records
    BY <1>1, <2>1 DEF Records
  <2> HIDE DEF q
  <2>5. cmd'[c] = q /\ (\A d \in Commands : d # c => cmd'[d] = cmd[d]) /\ cmd' \in [Commands -> Records]
    BY <1>1, <2>2, <2>4
  <2>6. cache \in UNION {[D -> Stored] : D \in SUBSET Keys}
    <3>1. deng.cache \in UNION {[D -> Stored] : D \in SUBSET Keys} /\ k \in Keys
      BY <1>1 DEF SeamTypes, Keys
    <3>2. PICK D \in SUBSET Keys : deng.cache \in [D -> Stored]
      BY <3>1
    <3>3. cache \in [D \cup {k} -> Stored]
      BY <2>1, <3>2
    <3> QED
      BY <3>1, <3>3
  <2>7. CacheTrue'
    <3>1. deng'.cache = cache
      BY <1>1, <2>3 DEF SeamTypes
    <3>2. ASSUME NEW p \in DOMAIN cache
          PROVE  \E d \in Commands : p = cache_key(Request[d]) /\ ResultOf(d)[1] = "ok"
                                     /\ cache[p] = encode_snapshot(ResultOf(d)[2])
      <4>1. CASE p = k
        BY <1>3, <4>1 DEF f
      <4>2. CASE p # k
        BY <4>2 DEF SeamInv, CacheTrue
      <4> QED
        BY <4>1, <4>2
    <3> HIDE DEF cache
    <3> QED
      BY <3>1, <3>2 DEF CacheTrue
  <2> HIDE DEF cache
  <2>8. deng'.snapshots = deng.snapshots /\ deng'.next = deng.next
    BY <1>1, <2>3 DEF SeamTypes
  <2>9. HeldTrue'
    BY <1>2, <2>1, <2>4, <2>5, <2>8 DEF SeamInv, HeldTrue
  <2>10. \A d \in Commands : PlaceTrue(cmd'[d])
    BY <1>2, <2>4, <2>5 DEF SeamInv, PlaceTrue
  <2>11. Sent(q) = Sent(cmd[c])
    BY <1>1, <1>2, <2>4 DEF Sent
  <2>12. /\ sink' \in [Subscribers -> [Commands -> Seq(Events)]]
         /\ \A s \in Subscribers, d \in Commands : SinkTrue(s, d)'
    BY <1>2, <2>2, <2>4, <2>11, Silent
  <2>13. SeamTypes'
    BY <1>1, <2>3, <2>5, <2>6, <2>12 DEF SeamTypes
  <2> QED
    BY <2>7, <2>9, <2>10, <2>12, <2>13 DEF SeamInv
<1>4. CASE emit(c, "failed", NoId) /\ GoEmitted(c, "end") /\ UNCHANGED deng
  <2>1. PICK q \in Records : /\ cmd' = [cmd EXCEPT ![c] = q]
                             /\ q.pc = "end" /\ q.seq = cmd[c].seq + 1
                             /\ q.sinks = cmd[c].sinks /\ q.id = cmd[c].id
    BY <1>1, <1>4, Emitting
  <2>2. Sent(q) = Append(Sent(cmd[c]), "failed")
    BY <1>1, <1>2, <2>1 DEF Sent, Opening
  <2>3. PlaceTrue(q)
    BY <1>2, <2>1 DEF PlaceTrue
  <2>4. /\ sink' \in [Subscribers -> [Commands -> Seq(Events)]]
        /\ \A s \in Subscribers, d \in Commands : SinkTrue(s, d)'
    BY <1>2, <1>4, <2>1, <2>2, Tells DEF Kinds
  <2> QED
    BY <1>4, <2>1, <2>3, <2>4, MoveKeeps
<1> QED
  BY <1>3, <1>4 DEF Analyse

LEMMA CommitKeeps == ASSUME SeamInv, NEW c \in Commands, Commit(c) PROVE SeamInv'
<1> DEFINE n     == deng.next
           f     == cmd[c].facts
           q     == [cmd[c] EXCEPT !.pc = "committed", !.id = n]
           snaps == [i \in DOMAIN deng.snapshots \cup {n} |-> IF i = n THEN f ELSE deng.snapshots[i]]
<1>1. cmd \in [Commands -> Records] /\ cmd[c] \in Records /\ PlaceTrue(cmd[c]) /\ cmd[c].pc = "commit" /\ SeamTypes
  BY DEF SeamInv, SeamTypes, Commit, commit
<1>2. cmd[c].seq \in {1, 2} /\ cmd[c].id = NoId /\ f \in Holdable /\ IsResult(c, f)
  BY <1>1 DEF PlaceTrue, SeamInv, HeldTrue, Records
<1>3. n \in Nat /\ n # NoId /\ (\A i \in DOMAIN deng.snapshots : i < n /\ i \in Nat)
  <2>1. n \in Nat /\ n # NoId
    BY <1>1 DEF SeamTypes, NoId
  <2>2. PICK D \in SUBSET Nat : deng.snapshots \in [D -> Holdable]
    BY <1>1 DEF SeamTypes
  <2>3. \A i \in DOMAIN deng.snapshots : i < n
    BY DEF SeamInv, HeldTrue
  <2> QED
    BY <2>1, <2>2, <2>3
<1>4. cmd' = [cmd EXCEPT ![c] = q] /\ sink' = sink
  BY <1>1 DEF Commit, commit
<1>5. deng' = [deng EXCEPT !.next = n + 1, !.snapshots = snaps]
  BY <1>1 DEF Commit, commit, SeamTypes
<1> HIDE DEF f, n
<1>6. /\ q.pc = "committed" /\ q.sinks = cmd[c].sinks /\ q.seq = cmd[c].seq /\ q.id = n
      /\ q \in Records
  BY <1>1, <1>3 DEF Records
<1> HIDE DEF q
<1>7. cmd'[c] = q /\ (\A d \in Commands : d # c => cmd'[d] = cmd[d]) /\ cmd' \in [Commands -> Records]
  BY <1>1, <1>4, <1>6
<1>8. snaps \in UNION {[D -> Holdable] : D \in SUBSET Nat}
  <2>1. PICK D \in SUBSET Nat : deng.snapshots \in [D -> Holdable]
    BY <1>1 DEF SeamTypes
  <2>2. snaps \in [D \cup {n} -> Holdable]
    BY <1>2, <2>1
  <2> QED
    BY <1>3, <2>2
<1>9. DOMAIN snaps = DOMAIN deng.snapshots \cup {n} /\ snaps[n] = f
      /\ \A i \in DOMAIN deng.snapshots : snaps[i] = deng.snapshots[i]
  BY <1>3
<1> HIDE DEF snaps
<1>10. deng'.snapshots = snaps /\ deng'.next = n + 1 /\ deng'.cache = deng.cache
  BY <1>1, <1>5 DEF SeamTypes
<1>11. HeldTrue'
  <2>1. \A i \in DOMAIN snaps : i < n + 1
    BY <1>3, <1>9
  <2>2. \A d \in Commands : cmd'[d].pc = "commit" => IsResult(d, cmd'[d].facts)
    BY <1>6, <1>7 DEF SeamInv, HeldTrue
  <2>3. \A d \in Commands : cmd'[d].id # NoId => cmd'[d].id \in DOMAIN snaps /\ IsResult(d, snaps[cmd'[d].id])
    BY <1>2, <1>6, <1>7, <1>9 DEF SeamInv, HeldTrue
  <2> QED
    BY <1>10, <2>1, <2>2, <2>3 DEF HeldTrue
<1>12. CacheTrue'
  BY <1>10 DEF SeamInv, CacheTrue
<1>13. \A d \in Commands : PlaceTrue(cmd'[d])
  BY <1>2, <1>3, <1>6, <1>7 DEF SeamInv, PlaceTrue
<1>14. Sent(q) = Sent(cmd[c])
  BY <1>1, <1>6 DEF Sent
<1>15. /\ sink' \in [Subscribers -> [Commands -> Seq(Events)]]
       /\ \A s \in Subscribers, d \in Commands : SinkTrue(s, d)'
  BY <1>2, <1>4, <1>6, <1>14, Silent
<1>16. SeamTypes'
  <2>1. n + 1 \in Nat
    BY <1>3
  <2>2. deng' \in [epoch : Nat, next : Nat, subs : SUBSET Subscribers,
                   snapshots : UNION {[D -> Holdable] : D \in SUBSET Nat},
                   cache : UNION {[D -> Stored] : D \in SUBSET Keys}]
    BY <1>1, <1>5, <1>8, <2>1 DEF SeamTypes
  <2> QED
    BY <1>7, <1>15, <2>2 DEF SeamTypes
<1> QED
  BY <1>11, <1>12, <1>13, <1>15, <1>16 DEF SeamInv

LEMMA SubscribeKeeps == ASSUME SeamInv, NEW s \in Subscribers, subscribe(s) PROVE SeamInv'
<1>1. deng' = [deng EXCEPT !.subs = @ \cup {s}] /\ UNCHANGED <<cmd, sink>>
  BY DEF subscribe
<1>2. deng'.snapshots = deng.snapshots /\ deng'.cache = deng.cache /\ deng'.next = deng.next /\ SeamTypes'
  BY <1>1 DEF SeamInv, SeamTypes
<1>3. HeldTrue' /\ CacheTrue'
  BY <1>1, <1>2 DEF SeamInv, HeldTrue, CacheTrue
<1> QED
  BY <1>1, <1>2, <1>3 DEF SeamInv, SinkTrue

LEMMA InitSeam == DepsInit => SeamInv
<1> SUFFICES ASSUME DepsInit PROVE SeamInv
  OBVIOUS
<1>1. deng = [epoch |-> 0, next |-> 0, subs |-> {}, snapshots |-> << >>, cache |-> << >>]
  BY DEF DepsInit
<1>2. \A c \in Commands : cmd[c] = [pc |-> "new", epoch |-> 0, sinks |-> {}, seq |-> 0,
                                    facts |-> << >>, id |-> NoId, hit |-> FALSE]
  BY DEF DepsInit
<1>3. cmd \in [Commands -> Records]
  BY DEF DepsInit, Records, Holdable
<1>4. sink \in [Subscribers -> [Commands -> Seq(Events)]] /\ \A s \in Subscribers, c \in Commands : sink[s][c] = << >>
  BY DEF DepsInit
<1>5. \A S : << >> \in [{} -> S] /\ DOMAIN << >> = {}
  OBVIOUS
<1>6. SeamTypes
  <2>1. deng.snapshots \in UNION {[D -> Holdable] : D \in SUBSET Nat}
    BY <1>1, <1>5
  <2>2. deng.cache \in UNION {[D -> Stored] : D \in SUBSET Keys}
    BY <1>1, <1>5
  <2> QED
    BY <1>1, <1>3, <1>4, <2>1, <2>2 DEF SeamTypes
<1>7. HeldTrue /\ CacheTrue
  BY <1>1, <1>2, <1>5 DEF HeldTrue, CacheTrue
<1>8. \A c \in Commands : PlaceTrue(cmd[c])
  BY <1>2 DEF PlaceTrue
<1>9. \A s \in Subscribers, c \in Commands : SinkTrue(s, c)
  BY <1>2, <1>4 DEF SinkTrue
<1> QED
  BY <1>6, <1>7, <1>8, <1>9 DEF SeamInv

(* What two, three and four events look like. *)
LEMMA TwoEvents ==
  ASSUME NEW a, NEW b
  PROVE  Append(<<a>>, b) = <<a, b>>
<1> DEFINE S == {a, b}
           p == <<a>>
           t == <<a, b>>
<1>1. p \in Seq(S) /\ Len(p) = 1 /\ t \in Seq(S) /\ Len(t) = 2 /\ b \in S
      /\ p[1] = t[1] /\ t[2] = b
  OBVIOUS
<1> HIDE DEF S, p, t
<1>2. p \in Seq(S) /\ b \in S
  BY <1>1
<1>3. Append(p, b) \in Seq(S) /\ Len(Append(p, b)) = 2
      /\ \A i \in 1..2 : Append(p, b)[i] = t[i]
  <2>1. /\ Append(p, b) \in Seq(S) /\ Len(Append(p, b)) = Len(p) + 1
        /\ \A i \in 1..Len(p) : Append(p, b)[i] = p[i]
        /\ Append(p, b)[Len(p) + 1] = b
    BY <1>2, AppendProperties
  <2> QED
    BY <1>1, <2>1
<1>4. Append(p, b) = t
  BY <1>1, <1>3, SeqEqual
<1> QED
  BY <1>4 DEF p, t

LEMMA ThreeEvents ==
  ASSUME NEW a, NEW b, NEW d
  PROVE  Append(<<a, b>>, d) = <<a, b, d>>
<1> DEFINE S == {a, b, d}
           p == <<a, b>>
           t == <<a, b, d>>
<1>1. p \in Seq(S) /\ Len(p) = 2 /\ t \in Seq(S) /\ Len(t) = 3 /\ d \in S
      /\ p[1] = t[1] /\ p[2] = t[2] /\ t[3] = d
  OBVIOUS
<1> HIDE DEF S, p, t
<1>2. p \in Seq(S) /\ d \in S
  BY <1>1
<1>3. Append(p, d) \in Seq(S) /\ Len(Append(p, d)) = 3
      /\ \A i \in 1..3 : Append(p, d)[i] = t[i]
  <2>1. /\ Append(p, d) \in Seq(S) /\ Len(Append(p, d)) = Len(p) + 1
        /\ \A i \in 1..Len(p) : Append(p, d)[i] = p[i]
        /\ Append(p, d)[Len(p) + 1] = d
    BY <1>2, AppendProperties
  <2> QED
    BY <1>1, <2>1
<1>4. Append(p, d) = t
  BY <1>1, <1>3, SeqEqual
<1> QED
  BY <1>4 DEF p, t

LEMMA FourEvents ==
  ASSUME NEW a, NEW b, NEW d, NEW e
  PROVE  Append(<<a, b, d>>, e) = <<a, b, d, e>>
<1> DEFINE S == {a, b, d, e}
           p == <<a, b, d>>
           t == <<a, b, d, e>>
<1>1. p \in Seq(S) /\ Len(p) = 3 /\ t \in Seq(S) /\ Len(t) = 4 /\ e \in S
      /\ p[1] = t[1] /\ p[2] = t[2] /\ p[3] = t[3] /\ t[4] = e
  OBVIOUS
<1> HIDE DEF S, p, t
<1>2. p \in Seq(S) /\ e \in S
  BY <1>1
<1>3. Append(p, e) \in Seq(S) /\ Len(Append(p, e)) = 4
      /\ \A i \in 1..4 : Append(p, e)[i] = t[i]
  <2>1. /\ Append(p, e) \in Seq(S) /\ Len(Append(p, e)) = Len(p) + 1
        /\ \A i \in 1..Len(p) : Append(p, e)[i] = p[i]
        /\ Append(p, e)[Len(p) + 1] = e
    BY <1>2, AppendProperties
  <2> QED
    BY <1>1, <2>1
<1>4. Append(p, e) = t
  BY <1>1, <1>3, SeqEqual
<1> QED
  BY <1>4 DEF p, t

(* The invariant gives both halves of the promise. *)
LEMMA SeamPromise == SeamInv => SeamTrue
<1> SUFFICES ASSUME SeamInv PROVE SeamTrue
  OBVIOUS
<1>1. ASSUME NEW s \in Subscribers, NEW c \in Commands
      PROVE  /\ \E l \in Lives : IsPrefix([i \in DOMAIN sink[s][c] |-> sink[s][c][i].kind], l)
             /\ \A i \in DOMAIN sink[s][c] : sink[s][c][i].h.sequence = i
             /\ \A i \in DOMAIN sink[s][c] : sink[s][c][i].h.snapshot # NoId =>
                  sink[s][c][i].h.snapshot \in DOMAIN deng.snapshots
  <2>1. PlaceTrue(cmd[c]) /\ SinkTrue(s, c) /\ cmd[c] \in Records
        /\ (cmd[c].id # NoId => cmd[c].id \in DOMAIN deng.snapshots)
    BY DEF SeamInv, SeamTypes, HeldTrue
  <2>2. CASE s \notin cmd[c].sinks
    <3>1. sink[s][c] = << >>
      BY <2>1, <2>2 DEF SinkTrue
    <3>2. IsPrefix(<< >>, <<"accepted", "committed", "finished">>)
      BY DEF IsPrefix
    <3>3. [i \in DOMAIN << >> |-> << >>[i].kind] = << >>
      OBVIOUS
    <3> QED
      BY <3>1, <3>2, <3>3 DEF Lives
  <2>3. CASE s \in cmd[c].sinks
    <3>1. EventsTrue(sink[s][c], cmd[c])
      BY <2>1, <2>3 DEF SinkTrue
    <3>2. Sent(cmd[c]) \in {<< >>, <<"accepted">>, <<"accepted", "diagnostic">>, <<"accepted", "committed">>,
                            <<"accepted", "diagnostic", "committed">>, <<"accepted", "committed", "finished">>,
                            <<"accepted", "diagnostic", "committed", "finished">>,
                            <<"accepted", "diagnostic", "failed">>}
      <4> DEFINE r == cmd[c]
      <4>1. r.pc \in {"new", "accept", "lookup", "analyse", "commit", "committed", "finish", "end"} /\ PlaceTrue(r)
        BY <2>1 DEF Records
      <4> HIDE DEF r
      <4>2. CASE r.pc \in {"new", "accept", "lookup"}
        BY <4>2 DEF Sent, r
      <4>3. CASE r.pc \in {"analyse", "commit", "committed"}
        BY <4>1, <4>3 DEF PlaceTrue, Sent, Opening, r
      <4>4. CASE r.pc = "finish"
        <5>1. r.seq - 1 \in {1, 2} /\ Sent(r) = Append(Opening(r.seq - 1), "committed")
          BY <4>1, <4>4 DEF PlaceTrue, Sent
        <5>2. Append(<<"accepted">>, "committed") = <<"accepted", "committed">>
              /\ Append(<<"accepted", "diagnostic">>, "committed") = <<"accepted", "diagnostic", "committed">>
          BY TwoEvents, ThreeEvents, FourEvents
        <5>3. Opening(r.seq - 1) \in {<<"accepted">>, <<"accepted", "diagnostic">>}
          BY <5>1 DEF Opening
        <5> QED
          BY <5>1, <5>2, <5>3 DEF r
      <4>5. CASE r.pc = "end" /\ r.id = NoId
        BY <4>5 DEF Sent, r
      <4>6. CASE r.pc = "end" /\ r.id # NoId
        <5>1. r.seq - 2 \in {1, 2} /\ Sent(r) = Append(Append(Opening(r.seq - 2), "committed"), "finished")
          BY <4>1, <4>6 DEF PlaceTrue, Sent
        <5>2. /\ Append(Append(<<"accepted">>, "committed"), "finished") = <<"accepted", "committed", "finished">>
              /\ Append(Append(<<"accepted", "diagnostic">>, "committed"), "finished")
                 = <<"accepted", "diagnostic", "committed", "finished">>
          <6>1. Append(<<"accepted">>, "committed") = <<"accepted", "committed">>
                /\ Append(<<"accepted", "diagnostic">>, "committed") = <<"accepted", "diagnostic", "committed">>
            BY TwoEvents, ThreeEvents
          <6> QED
            BY <6>1, ThreeEvents, FourEvents
        <5>3. Opening(r.seq - 2) \in {<<"accepted">>, <<"accepted", "diagnostic">>}
          BY <5>1 DEF Opening
        <5> QED
          BY <5>1, <5>2, <5>3 DEF r
      <4> QED
        BY <4>1, <4>2, <4>3, <4>4, <4>5, <4>6 DEF r
    <3>3. \E l \in Lives : IsPrefix(Sent(cmd[c]), l)
      <4> DEFINE long == <<"accepted", "diagnostic", "committed", "finished">>
                 warm == <<"accepted", "committed", "finished">>
      <4>1. IsPrefix(<< >>, long) /\ IsPrefix(<<"accepted">>, long) /\ IsPrefix(<<"accepted", "diagnostic">>, long)
        BY DEF IsPrefix
      <4>2. IsPrefix(<<"accepted", "diagnostic", "committed">>, long) /\ IsPrefix(long, long)
        BY DEF IsPrefix
      <4>3. IsPrefix(<<"accepted", "committed">>, warm) /\ IsPrefix(warm, warm)
        BY DEF IsPrefix
      <4>4. IsPrefix(<<"accepted", "diagnostic", "failed">>, <<"accepted", "diagnostic", "failed">>)
        BY DEF IsPrefix
      <4> QED
        BY <3>2, <4>1, <4>2, <4>3, <4>4 DEF Lives
    <3> QED
      BY <2>1, <3>1, <3>3 DEF EventsTrue
  <2> QED
    BY <2>2, <2>3
<1>2. StreamIsWhole
  BY <1>1 DEF StreamIsWhole, drain
<1>3. SnapshotIsAnalysis
  BY DEF SeamInv, HeldTrue, IsResult, SnapshotIsAnalysis, snapshot_fingerprint
<1> QED
  BY <1>2, <1>3 DEF SeamTrue

(* Whatever commands are submitted and whoever subscribes when, each        *)
(* subscriber sees a command whole or not at all, and a snapshot, read back *)
(* from the cache or not, is the analysis of what its command asked for     *)
(* (LegacyDepsEngine::evaluate).                                            *)
THEOREM SeamAlwaysTrue == DepsSpec => []SeamTrue
<1>1. SeamInv /\ [DepsNext]_depsVars => SeamInv'
  <2>1. SeamInv /\ UNCHANGED depsVars => SeamInv'
    BY DEF SeamInv, depsVars, SeamTypes, HeldTrue, CacheTrue, SinkTrue
  <2> QED
    BY <2>1, SubmitKeeps, AcceptedKeeps, LookupKeeps, DiagnosticKeeps, AnalyseKeeps, CommitKeeps, CommittedKeeps,
       FinishedKeeps, SubscribeKeeps DEF DepsNext, evaluate
<1> QED
  BY InitSeam, <1>1, SeamPromise, PTL DEF DepsSpec

-----------------------------------------------------------------------------
(***************************************************************************)
(* Facts: what is stored is of the kind its schema says and comes from     *)
(* facts that were heard; a fact that was accepted is all there; and a     *)
(* fold has visited only what every closed set of targets holds, has what  *)
(* is behind the visited on its stack, and has collected just their sets.  *)
(***************************************************************************)
IsField(fv) == fv = [kind |-> fv.kind, v |-> fv.v]
FactKey(f) == <<f.target, f.ty>>
Heard == {"accepted", "conflict"}
StoreKinds ==
  \A k \in DOMAIN providers : \A x \in DOMAIN providers[k] :
    /\ k[2] \in DOMAIN schemas /\ x \in DOMAIN schemas[k[2]]
    /\ IsField(providers[k][x]) /\ providers[k][x].kind = schemas[k[2]][x]
(* Nothing is stored that no fact said. *)
StoreHeard ==
  \A k \in DOMAIN providers : \A x \in DOMAIN providers[k] :
    providers[k][x].kind = "set" => providers[k][x].v \subseteq Facts(k[1], k[2], x, Heard)
(* Nothing that was accepted is lost. *)
AcceptedStored ==
  \A f \in Producible :
    /\ said[f] \in Heard => SchemaHolds(f)
    /\ said[f] = "accepted" =>
         /\ FactKey(f) \in DOMAIN providers
         /\ \A x \in DOMAIN f.fields :
              /\ x \in DOMAIN providers[FactKey(f)]
              /\ f.fields[x].kind = "set" => f.fields[x].v \subseteq providers[FactKey(f)][x].v
ClosedUnder(S) == \A v \in S : ToSet(edges[v]) \subseteq S
Ahead == fold.visited \cup ToSet(fold.stack)
FoldTrue ==
  fold.on =>
    /\ Folds(fold.ty, fold.field) /\ fold.root \in FactTargets
    /\ fold.stack \in Seq(FactTargets) /\ fold.visited \subseteq FactTargets
    /\ fold.root \in Ahead
    /\ \A v \in fold.visited : ToSet(edges[v]) \subseteq Ahead
    /\ \A S \in SUBSET FactTargets : fold.root \in S /\ ClosedUnder(S) => Ahead \subseteq S
    /\ fold.acc = UNION {OwnSet(v, fold.ty, fold.field) : v \in fold.visited}
FoldShape ==
  fold = IF fold.on
         THEN [on |-> TRUE, root |-> fold.root, ty |-> fold.ty, field |-> fold.field, stack |-> fold.stack,
               visited |-> fold.visited, acc |-> fold.acc]
         ELSE NoFold
FactInv ==
  /\ schemas = Decl_.providers /\ edges \in Graphs /\ said \in [Producible -> {"none", "accepted", "rejected", "conflict"}]
  /\ fold.on \in BOOLEAN /\ FoldShape
  /\ StoreKinds /\ StoreHeard /\ AcceptedStored /\ FoldTrue
FactSpec == FactInit /\ [][FactNext]_factVars

(* Merging keeps a field's kind, and of sets it takes the union. *)
LEMMA MergedKind ==
  ASSUME NEW a, NEW b, IsField(a), merge(a, b) # Conflict
  PROVE  IsField(merge(a, b)) /\ merge(a, b).kind = a.kind
<1> DEFINE more == AppendNew(a.v, b.v)
<1>1. a = [kind |-> a.kind, v |-> a.v]
  BY DEF IsField
<1>2. CASE merge(a, b) = a
  BY <1>1, <1>2 DEF IsField
<1>3. CASE merge(a, b) = [a EXCEPT !.v = a.v \cup b.v]
  <2>1. [a EXCEPT !.v = a.v \cup b.v] = [kind |-> a.kind, v |-> a.v \cup b.v]
    BY <1>1
  <2> QED
    BY <1>3, <2>1 DEF IsField
<1>4. CASE merge(a, b) = [a EXCEPT !.v = more]
  <2> HIDE DEF more
  <2>1. [a EXCEPT !.v = more] = [kind |-> a.kind, v |-> more]
    BY <1>1
  <2> QED
    BY <1>4, <2>1 DEF IsField
<1>5. \/ merge(a, b) = a
      \/ merge(a, b) = [a EXCEPT !.v = a.v \cup b.v]
      \/ merge(a, b) = [a EXCEPT !.v = more]
  BY DEF merge
<1> QED
  BY <1>2, <1>3, <1>4, <1>5

LEMMA MergedSets ==
  ASSUME NEW a, NEW b, IsField(a), a.kind = "set", b.kind = "set"
  PROVE  merge(a, b) = [kind |-> "set", v |-> a.v \cup b.v] /\ merge(a, b) # Conflict
<1>1. a = [kind |-> "set", v |-> a.v]
  BY DEF IsField
<1>2. merge(a, b) = [a EXCEPT !.v = a.v \cup b.v]
  BY DEF merge
<1>3. [a EXCEPT !.v = a.v \cup b.v] = [kind |-> "set", v |-> a.v \cup b.v]
  BY <1>1
<1>4. [kind |-> "set", v |-> a.v \cup b.v].kind # Conflict.kind
  BY DEF Conflict
<1> QED
  BY <1>2, <1>3, <1>4

(* A field merges before the first conflict, and without conflict all do. *)
LEMMA MergeableTrue ==
  ASSUME NEW old, NEW fields, NEW y \in Mergeable(old, fields)
  PROVE  y \in DOMAIN fields /\ (y \in DOMAIN old => merge(old[y], fields[y]) # Conflict)
<1>1. PICK i \in DOMAIN FieldOrder : y = FieldOrder[i] /\ \A k \in Clashes(old, fields) : i < k
  BY DEF Mergeable
<1>2. y \in DOMAIN fields
  BY DEF Mergeable
<1>3. i \in Nat
  BY FieldsOrdered
<1>4. i \notin Clashes(old, fields)
  BY <1>1, <1>3
<1> QED
  BY <1>1, <1>2, <1>4 DEF Clashes

LEMMA AllMerge ==
  ASSUME NEW old, NEW fields, DOMAIN fields \subseteq ToSet(FieldOrder), Clashes(old, fields) = {}
  PROVE  Mergeable(old, fields) = DOMAIN fields
BY DEF Mergeable, ToSet

(* What the assumptions say of a fact. *)
LEMMA FactFields ==
  ASSUME NEW f \in Producible
  PROVE  /\ DOMAIN f.fields \subseteq ToSet(FieldOrder)
         /\ \A x \in DOMAIN f.fields : IsField(f.fields[x])
BY FieldsOrdered DEF IsField

LEMMA InitFacts == FactInit => FactInv
<1> SUFFICES ASSUME FactInit PROVE FactInv
  OBVIOUS
<1>1. fold.on = FALSE /\ fold = NoFold
  BY DEF FactInit, NoFold
<1>2. DOMAIN providers = {}
  BY DEF FactInit
<1>3. said = [f \in Producible |-> "none"]
  BY DEF FactInit
<1>4. \A f \in Producible : said[f] \notin Heard
  BY <1>3 DEF Heard
<1>5. AcceptedStored
  BY <1>4 DEF AcceptedStored, Heard
<1> QED
  BY <1>1, <1>2, <1>3, <1>5 DEF FactInit, FactInv, register, FoldShape, StoreKinds, StoreHeard, FoldTrue

(* The merged fields of one key: their kinds, where their sets come from, and what is kept. *)
LEMMA MergedFields ==
  ASSUME NEW ks, NEW old, NEW fields,
         \A x \in DOMAIN old : x \in DOMAIN ks /\ IsField(old[x]) /\ old[x].kind = ks[x],
         \A x \in DOMAIN fields : x \in DOMAIN ks /\ IsField(fields[x]) /\ fields[x].kind = ks[x]
  PROVE  LET m == Merged(old, fields)
         IN /\ DOMAIN old \subseteq DOMAIN m
            /\ Mergeable(old, fields) \subseteq DOMAIN m
            /\ \A x \in DOMAIN m :
                 /\ x \in DOMAIN old \/ x \in DOMAIN fields
                 /\ x \in DOMAIN ks /\ IsField(m[x]) /\ m[x].kind = ks[x]
                 /\ m[x].kind = "set" =>
                      /\ x \in DOMAIN old => old[x].v \subseteq m[x].v
                      /\ x \in Mergeable(old, fields) => x \in DOMAIN fields /\ fields[x].v \subseteq m[x].v
                      /\ \A e \in m[x].v : \/ x \in DOMAIN old /\ e \in old[x].v
                                           \/ x \in DOMAIN fields /\ e \in fields[x].v
<1> DEFINE m == Merged(old, fields)
           M == Mergeable(old, fields)
<1>1. /\ DOMAIN m = DOMAIN old \cup M
      /\ \A y \in DOMAIN old \cup M :
           m[y] = IF y \notin M THEN old[y] ELSE IF y \in DOMAIN old THEN merge(old[y], fields[y]) ELSE fields[y]
  BY DEF Merged
<1>2. \A y \in M : y \in DOMAIN fields /\ (y \in DOMAIN old => merge(old[y], fields[y]) # Conflict)
  BY MergeableTrue
<1> HIDE DEF m, M
<1>3. ASSUME NEW x \in DOMAIN m
      PROVE  /\ x \in DOMAIN old \/ x \in DOMAIN fields
             /\ x \in DOMAIN ks /\ IsField(m[x]) /\ m[x].kind = ks[x]
             /\ m[x].kind = "set" =>
                  /\ x \in DOMAIN old => old[x].v \subseteq m[x].v
                  /\ x \in M => x \in DOMAIN fields /\ fields[x].v \subseteq m[x].v
                  /\ \A e \in m[x].v : \/ x \in DOMAIN old /\ e \in old[x].v
                                       \/ x \in DOMAIN fields /\ e \in fields[x].v
  <2>1. CASE x \notin M
    BY <1>1, <1>3, <2>1
  <2>2. CASE x \in M /\ x \notin DOMAIN old
    BY <1>1, <1>2, <1>3, <2>2
  <2>3. CASE x \in M /\ x \in DOMAIN old
    <3>1. /\ m[x] = merge(old[x], fields[x]) /\ x \in DOMAIN fields /\ merge(old[x], fields[x]) # Conflict
          /\ IsField(old[x]) /\ IsField(fields[x]) /\ old[x].kind = ks[x] /\ fields[x].kind = ks[x] /\ x \in DOMAIN ks
      BY <1>1, <1>2, <2>3
    <3>2. IsField(m[x]) /\ m[x].kind = ks[x]
      BY <3>1, MergedKind
    <3>3. ks[x] = "set" => m[x].v = old[x].v \cup fields[x].v
      BY <3>1, MergedSets
    <3> QED
      BY <2>3, <3>1, <3>2, <3>3
  <2> QED
    BY <2>1, <2>2, <2>3
<1> QED
  BY <1>1, <1>3 DEF m, M

(* What was heard is heard still when no fact is unheard of. *)
LEMMA HeardGrows ==
  ASSUME \A g \in Producible : said[g] \in Heard => said'[g] \in Heard
  PROVE  \A t, ty, x : Facts(t, ty, x, Heard) \subseteq Facts(t, ty, x, Heard)'
<1> SUFFICES ASSUME NEW t, NEW ty, NEW x, NEW e \in Facts(t, ty, x, Heard)
             PROVE  e \in Facts(t, ty, x, Heard)'
  OBVIOUS
<1>1. PICK g \in Producible : /\ g.target = t /\ g.ty = ty /\ x \in DOMAIN g.fields
                              /\ said[g] \in Heard /\ e \in g.fields[x].v
  BY DEF Facts
<1>2. said'[g] \in Heard
  BY <1>1
<1> QED
  BY <1>1, <1>2 DEF Facts

LEMMA RefuseKeeps ==
  ASSUME FactInv, NEW f \in Producible, assert(f), ~SchemaHolds(f)
  PROVE  FactInv'
<1>1. /\ said' = [said EXCEPT ![f] = "rejected"] /\ UNCHANGED <<providers, schemas, edges, fold>>
      /\ fold.on = FALSE
  BY DEF assert, FactInv
<1>2. said \in [Producible -> {"none", "accepted", "rejected", "conflict"}]
  BY DEF FactInv
<1>3. said' \in [Producible -> {"none", "accepted", "rejected", "conflict"}]
  BY <1>1, <1>2
<1>4. \A g \in Producible : said'[g] \in Heard => said'[g] = said[g]
  BY <1>1, <1>2 DEF Heard
<1>5. \A g \in Producible : said[g] \in Heard => said'[g] \in Heard
  BY <1>1, <1>2 DEF Heard, FactInv, AcceptedStored
<1>6. StoreHeard'
  <2>1. \A t, ty, x : Facts(t, ty, x, Heard) \subseteq Facts(t, ty, x, Heard)'
    BY <1>5, HeardGrows
  <2> QED
    BY <1>1, <2>1 DEF FactInv, StoreHeard
<1>7. AcceptedStored'
  BY <1>1, <1>4 DEF FactInv, AcceptedStored, SchemaHolds, Heard
<1> QED
  BY <1>1, <1>3, <1>6, <1>7 DEF FactInv, FoldShape, StoreKinds, FoldTrue, NoFold

LEMMA AcceptKeeps ==
  ASSUME FactInv, NEW f \in Producible, assert(f), SchemaHolds(f)
  PROVE  FactInv'
<1> DEFINE k == FactKey(f)
           old == IF k \in DOMAIN providers THEN providers[k] ELSE << >>
           m == Merged(old, f.fields)
           word == IF Clashes(old, f.fields) = {} THEN "accepted" ELSE "conflict"
<1>1. /\ said' = [said EXCEPT ![f] = word] /\ UNCHANGED <<schemas, edges, fold>> /\ fold.on = FALSE
      /\ providers' = [q \in DOMAIN providers \cup {k} |-> IF q = k THEN m ELSE providers[q]]
  BY DEF assert, FactInv, FactKey
<1>2. said \in [Producible -> {"none", "accepted", "rejected", "conflict"}]
  BY DEF FactInv
<1>3. word \in {"accepted", "conflict"}
  OBVIOUS
<1>4. k[2] = f.ty /\ k[1] = f.target
  BY DEF FactKey
<1>5. /\ \A x \in DOMAIN old : x \in DOMAIN schemas[f.ty] /\ IsField(old[x]) /\ old[x].kind = schemas[f.ty][x]
      /\ DOMAIN old # {} => k \in DOMAIN providers
  BY <1>4 DEF FactInv, StoreKinds
<1>6. \A x \in DOMAIN f.fields : x \in DOMAIN schemas[f.ty] /\ IsField(f.fields[x]) /\ f.fields[x].kind = schemas[f.ty][x]
  BY FactFields DEF SchemaHolds
<1>7. /\ DOMAIN old \subseteq DOMAIN m /\ Mergeable(old, f.fields) \subseteq DOMAIN m
      /\ \A x \in DOMAIN m :
           /\ x \in DOMAIN old \/ x \in DOMAIN f.fields
           /\ x \in DOMAIN schemas[f.ty] /\ IsField(m[x]) /\ m[x].kind = schemas[f.ty][x]
           /\ m[x].kind = "set" =>
                /\ x \in DOMAIN old => old[x].v \subseteq m[x].v
                /\ x \in Mergeable(old, f.fields) => x \in DOMAIN f.fields /\ f.fields[x].v \subseteq m[x].v
                /\ \A e \in m[x].v : \/ x \in DOMAIN old /\ e \in old[x].v
                                     \/ x \in DOMAIN f.fields /\ e \in f.fields[x].v
  <2> DEFINE ks == schemas[f.ty]
             o == old
  <2>1. /\ \A x \in DOMAIN o : x \in DOMAIN ks /\ IsField(o[x]) /\ o[x].kind = ks[x]
        /\ \A x \in DOMAIN f.fields : x \in DOMAIN ks /\ IsField(f.fields[x]) /\ f.fields[x].kind = ks[x]
    BY <1>5, <1>6
  <2> HIDE DEF ks, o
  <2>2. LET mm == Merged(o, f.fields)
        IN /\ DOMAIN o \subseteq DOMAIN mm
           /\ Mergeable(o, f.fields) \subseteq DOMAIN mm
           /\ \A x \in DOMAIN mm :
                /\ x \in DOMAIN o \/ x \in DOMAIN f.fields
                /\ x \in DOMAIN ks /\ IsField(mm[x]) /\ mm[x].kind = ks[x]
                /\ mm[x].kind = "set" =>
                     /\ x \in DOMAIN o => o[x].v \subseteq mm[x].v
                     /\ x \in Mergeable(o, f.fields) => x \in DOMAIN f.fields /\ f.fields[x].v \subseteq mm[x].v
                     /\ \A e \in mm[x].v : \/ x \in DOMAIN o /\ e \in o[x].v
                                           \/ x \in DOMAIN f.fields /\ e \in f.fields[x].v
    BY <2>1, MergedFields
  <2> QED
    BY <2>2 DEF ks, o
<1>8. word = "accepted" => Mergeable(old, f.fields) = DOMAIN f.fields
  BY FactFields, AllMerge
<1>9. k \in DOMAIN providers => old = providers[k]
  OBVIOUS
<1>10. DOMAIN providers' = DOMAIN providers \cup {k} /\ providers'[k] = m
       /\ \A q \in DOMAIN providers : q # k => providers'[q] = providers[q]
  BY <1>1
<1>11. f.ty \in DOMAIN schemas
  BY DEF SchemaHolds
<1> HIDE DEF k, old, m, word
<1>12. said' \in [Producible -> {"none", "accepted", "rejected", "conflict"}] /\ said'[f] = word
       /\ \A g \in Producible : g # f => said'[g] = said[g]
  BY <1>1, <1>2, <1>3
<1>13. StoreKinds'
  <2> SUFFICES ASSUME NEW q \in DOMAIN providers', NEW x \in DOMAIN providers'[q]
               PROVE  /\ q[2] \in DOMAIN schemas /\ x \in DOMAIN schemas[q[2]]
                      /\ IsField(providers'[q][x]) /\ providers'[q][x].kind = schemas[q[2]][x]
    BY <1>1 DEF StoreKinds, IsField
  <2>1. CASE q = k
    BY <2>1, <1>4, <1>7, <1>10, <1>11
  <2>2. CASE q # k
    BY <2>2, <1>10 DEF FactInv, StoreKinds
  <2> QED
    BY <2>1, <2>2
<1>14. StoreHeard'
  <2>1. \A t, ty, x : Facts(t, ty, x, Heard) \subseteq Facts(t, ty, x, Heard)'
    <3>1. \A g \in Producible : said[g] \in Heard => said'[g] \in Heard
      BY <1>3, <1>12 DEF Heard
    <3> QED
      BY <3>1, HeardGrows
  <2> SUFFICES ASSUME NEW q \in DOMAIN providers', NEW x \in DOMAIN providers'[q], providers'[q][x].kind = "set",
                      NEW e \in providers'[q][x].v
               PROVE  e \in Facts(q[1], q[2], x, Heard)'
    BY DEF StoreHeard
  <2>2. CASE q # k
    BY <2>1, <2>2, <1>10 DEF FactInv, StoreHeard
  <2>3. CASE q = k
    <3>1. x \in DOMAIN m /\ m[x].kind = "set" /\ e \in m[x].v
      BY <2>3, <1>10
    <3>2. CASE x \in DOMAIN old /\ e \in old[x].v
      <4>1. k \in DOMAIN providers /\ old = providers[k] /\ old[x].kind = "set"
        BY <3>1, <3>2, <1>5, <1>7, <1>9
      <4>2. e \in Facts(k[1], k[2], x, Heard)
        BY <3>2, <4>1 DEF FactInv, StoreHeard
      <4> QED
        BY <4>2, <2>1, <2>3
    <3>3. CASE x \in DOMAIN f.fields /\ e \in f.fields[x].v
      BY <3>3, <2>3, <1>3, <1>4, <1>12 DEF Facts, Heard
    <3> QED
      BY <3>1, <3>2, <3>3, <1>7
  <2> QED
    BY <2>2, <2>3
<1>15. AcceptedStored'
  <2> SUFFICES ASSUME NEW g \in Producible
               PROVE  /\ said'[g] \in Heard => SchemaHolds(g)'
                      /\ said'[g] = "accepted" =>
                           /\ FactKey(g) \in DOMAIN providers'
                           /\ \A x \in DOMAIN g.fields :
                                /\ x \in DOMAIN providers'[FactKey(g)]
                                /\ g.fields[x].kind = "set" => g.fields[x].v \subseteq providers'[FactKey(g)][x].v
    BY DEF AcceptedStored, FactKey
  <2>1. \A h \in Producible : SchemaHolds(h)' = SchemaHolds(h)
    BY <1>1 DEF SchemaHolds
  <2>2. CASE g = f
    <3>1. SchemaHolds(g)'
      BY <2>1, <2>2
    <3>2. ASSUME word = "accepted", NEW x \in DOMAIN f.fields
          PROVE  x \in DOMAIN m /\ (f.fields[x].kind = "set" => f.fields[x].v \subseteq m[x].v)
      BY <3>2, <1>6, <1>7, <1>8
    <3> QED
      BY <2>2, <3>1, <3>2, <1>10, <1>12 DEF k
  <2>3. CASE g # f
    <3>1. said'[g] = said[g]
      BY <1>12, <2>3
    <3>2. said[g] \in Heard => SchemaHolds(g)
      BY DEF FactInv, AcceptedStored
    <3>3. ASSUME said[g] = "accepted"
          PROVE  /\ FactKey(g) \in DOMAIN providers
                 /\ \A x \in DOMAIN g.fields :
                      /\ x \in DOMAIN providers[FactKey(g)]
                      /\ g.fields[x].kind = "set" => g.fields[x].v \subseteq providers[FactKey(g)][x].v
      BY <3>3 DEF FactInv, AcceptedStored
    <3>4. CASE FactKey(g) # k
      BY <3>1, <3>2, <3>3, <3>4, <2>1, <1>10
    <3>5. CASE FactKey(g) = k
      <4>1. g.ty = f.ty
        BY <3>5 DEF k, FactKey
      <4>2. ASSUME said[g] = "accepted", NEW x \in DOMAIN g.fields
            PROVE  x \in DOMAIN m /\ (g.fields[x].kind = "set" => g.fields[x].v \subseteq m[x].v)
        <5>1. /\ k \in DOMAIN providers /\ old = providers[k] /\ x \in DOMAIN old
              /\ g.fields[x].kind = "set" => g.fields[x].v \subseteq old[x].v
          BY <3>3, <3>5, <4>2, <1>9
        <5>2. g.fields[x].kind = schemas[f.ty][x]
          BY <3>2, <4>1, <4>2 DEF SchemaHolds, Heard
        <5> QED
          BY <5>1, <5>2, <1>7
      <4> QED
        BY <4>2, <3>1, <3>2, <3>5, <2>1, <1>10
    <3> QED
      BY <3>4, <3>5
  <2> QED
    BY <2>2, <2>3
<1> QED
  BY <1>1, <1>12, <1>13, <1>14, <1>15 DEF FactInv, FoldShape, FoldTrue, NoFold

(* A step of the fold leaves the store alone. *)
LEMMA StoreStays ==
  ASSUME FactInv, UNCHANGED <<schemas, providers, edges, said>>, fold'.on \in BOOLEAN, FoldShape', FoldTrue'
  PROVE  FactInv'
<1>1. \A g \in Producible : SchemaHolds(g)' = SchemaHolds(g)
  BY DEF SchemaHolds
<1>2. \A t, ty, x : Facts(t, ty, x, Heard)' = Facts(t, ty, x, Heard)
  BY DEF Facts
<1>3. AcceptedStored'
  BY <1>1 DEF FactInv, AcceptedStored
<1>4. StoreHeard'
  BY <1>2 DEF FactInv, StoreHeard
<1> QED
  BY <1>3, <1>4 DEF FactInv, StoreKinds

LEMMA FoldStartKeeps ==
  ASSUME FactInv, NEW t \in FactTargets, NEW p \in Decl_.provides, fold_set(t, p.provider, p.field)
  PROVE  FactInv'
<1>1. /\ fold' = [on |-> TRUE, root |-> t, ty |-> p.provider, field |-> p.field, stack |-> <<t>>, visited |-> {}, acc |-> {}]
      /\ UNCHANGED <<schemas, providers, edges, said>> /\ Folds(p.provider, p.field)
  BY DEF fold_set
<1>2. /\ fold'.on = TRUE /\ fold'.root = t /\ fold'.ty = p.provider /\ fold'.field = p.field
      /\ fold'.stack = <<t>> /\ fold'.visited = {} /\ fold'.acc = {}
  BY <1>1
<1>3. FoldShape'
  BY <1>1, <1>2 DEF FoldShape
<1>4. ToSet(<<t>>) = {t}
  BY DEF ToSet
<1>5. Ahead' = {t}
  BY <1>2, <1>4 DEF Ahead
<1>6. FoldTrue'
  BY <1>1, <1>2, <1>5 DEF FoldTrue, Folds
<1> QED
  BY <1>1, <1>2, <1>3, <1>6, StoreStays

LEMMA FoldEndKeeps == FactInv /\ Folded => FactInv'
<1> SUFFICES ASSUME FactInv, Folded PROVE FactInv'
  OBVIOUS
<1>1. fold' = NoFold /\ fold'.on = FALSE /\ UNCHANGED <<schemas, providers, edges, said>>
  BY DEF Folded, NoFold
<1> QED
  BY <1>1, StoreStays DEF FoldShape, FoldTrue

(* A stack is its front and its top. *)
LEMMA FrontAndLast ==
  ASSUME NEW S, NEW s \in Seq(S), s # << >>
  PROVE  Front(s) \in Seq(S) /\ Last(s) \in S /\ ToSet(s) = ToSet(Front(s)) \cup {Last(s)}
<1>1. Len(s) \in Nat /\ Len(s) >= 1 /\ DOMAIN s = 1 .. Len(s) /\ s \in [1 .. Len(s) -> S]
  OBVIOUS
<1>2. Front(s) \in Seq(S) /\ Len(Front(s)) = Len(s) - 1 /\ \A i \in 1 .. (Len(s) - 1) : Front(s)[i] = s[i]
  BY <1>1 DEF Front
<1>3. DOMAIN Front(s) = 1 .. (Len(s) - 1)
  BY <1>2, <1>1
<1>4. Last(s) \in S /\ Last(s) = s[Len(s)]
  BY <1>1 DEF Last
<1>5. DOMAIN s = (1 .. (Len(s) - 1)) \cup {Len(s)}
  BY <1>1
<1> QED
  BY <1>2, <1>3, <1>4, <1>5 DEF ToSet

LEMMA ConcatSet ==
  ASSUME NEW S, NEW s \in Seq(S), NEW t \in Seq(S)
  PROVE  s \o t \in Seq(S) /\ ToSet(s \o t) = ToSet(s) \cup ToSet(t)
<1>1. s \o t \in Seq(S) /\ Len(s \o t) = Len(s) + Len(t)
      /\ \A i \in 1 .. Len(s) + Len(t) : (s \o t)[i] = IF i <= Len(s) THEN s[i] ELSE t[i - Len(s)]
  OBVIOUS
<1>2. Len(s) \in Nat /\ Len(t) \in Nat /\ DOMAIN s = 1 .. Len(s) /\ DOMAIN t = 1 .. Len(t)
      /\ DOMAIN (s \o t) = 1 .. Len(s) + Len(t)
  BY <1>1
<1>3. ToSet(s \o t) \subseteq ToSet(s) \cup ToSet(t)
  <2> SUFFICES ASSUME NEW i \in 1 .. Len(s) + Len(t) PROVE (s \o t)[i] \in ToSet(s) \cup ToSet(t)
    BY <1>2 DEF ToSet
  <2>1. CASE i <= Len(s)
    BY <2>1, <1>1, <1>2 DEF ToSet
  <2>2. CASE ~(i <= Len(s))
    <3>1. i - Len(s) \in DOMAIN t /\ (s \o t)[i] = t[i - Len(s)]
      BY <2>2, <1>1, <1>2
    <3> QED
      BY <3>1 DEF ToSet
  <2> QED
    BY <2>1, <2>2
<1>4. ToSet(s) \subseteq ToSet(s \o t)
  <2> SUFFICES ASSUME NEW i \in 1 .. Len(s) PROVE s[i] \in ToSet(s \o t)
    BY <1>2 DEF ToSet
  <2>1. i \in DOMAIN (s \o t) /\ (s \o t)[i] = s[i]
    BY <1>1, <1>2
  <2> QED
    BY <2>1 DEF ToSet
<1>5. ToSet(t) \subseteq ToSet(s \o t)
  <2> SUFFICES ASSUME NEW i \in 1 .. Len(t) PROVE t[i] \in ToSet(s \o t)
    BY <1>2 DEF ToSet
  <2>1. i + Len(s) \in DOMAIN (s \o t) /\ (s \o t)[i + Len(s)] = t[i]
    BY <1>1, <1>2
  <2> QED
    BY <2>1 DEF ToSet
<1> QED
  BY <1>1, <1>3, <1>4, <1>5

LEMMA FoldPopKeeps == FactInv /\ Pop => FactInv'
<1> SUFFICES ASSUME FactInv, Pop PROVE FactInv'
  OBVIOUS
<1> DEFINE t == Last(fold.stack)
           more == OwnSet(t, fold.ty, fold.field)
           under == Front(fold.stack)
           behind == Behind(t)
           stack2 == under \o behind
<1>1. /\ fold.on /\ fold.stack # << >> /\ UNCHANGED <<schemas, providers, edges, said>>
      /\ fold' = [fold EXCEPT !.stack = stack2, !.visited = @ \cup {t}, !.acc = @ \cup more]
  BY DEF Pop
<1>2. /\ Folds(fold.ty, fold.field) /\ fold.root \in FactTargets
      /\ fold.stack \in Seq(FactTargets) /\ fold.visited \subseteq FactTargets
      /\ fold.root \in Ahead
      /\ \A v \in fold.visited : ToSet(edges[v]) \subseteq Ahead
      /\ \A S \in SUBSET FactTargets : fold.root \in S /\ ClosedUnder(S) => Ahead \subseteq S
      /\ fold.acc = UNION {OwnSet(v, fold.ty, fold.field) : v \in fold.visited}
  BY <1>1 DEF FactInv, FoldTrue
<1>3. fold = [on |-> TRUE, root |-> fold.root, ty |-> fold.ty, field |-> fold.field, stack |-> fold.stack,
              visited |-> fold.visited, acc |-> fold.acc]
  BY <1>1 DEF FactInv, FoldShape
<1>4. under \in Seq(FactTargets) /\ t \in FactTargets /\ ToSet(fold.stack) = ToSet(under) \cup {t}
  BY <1>1, <1>2, FrontAndLast
<1>5. edges \in [FactTargets -> Seq(FactTargets)]
  BY GraphsAssumption DEF FactInv
<1>6. /\ behind \in Seq(FactTargets)
      /\ t \in fold.visited => ToSet(behind) = {}
      /\ t \notin fold.visited => ToSet(behind) = ToSet(edges[t])
  <2>1. ToSet(<< >>) = {}
    BY DEF ToSet
  <2> QED
    BY <2>1, <1>4, <1>5 DEF Behind
<1>7. stack2 \in Seq(FactTargets) /\ ToSet(stack2) = ToSet(under) \cup ToSet(behind)
  BY <1>4, <1>6, ConcatSet
<1> HIDE DEF t, more, under, behind, stack2
<1>8. fold' = [on |-> TRUE, root |-> fold.root, ty |-> fold.ty, field |-> fold.field, stack |-> stack2,
               visited |-> fold.visited \cup {t}, acc |-> fold.acc \cup more]
  BY <1>1, <1>3
<1>9. /\ fold'.on = TRUE /\ fold'.root = fold.root /\ fold'.ty = fold.ty /\ fold'.field = fold.field
      /\ fold'.stack = stack2 /\ fold'.visited = fold.visited \cup {t} /\ fold'.acc = fold.acc \cup more
  BY <1>8
<1>10. FoldShape'
  BY <1>8, <1>9 DEF FoldShape
<1>11. Ahead = fold.visited \cup ToSet(under) \cup {t}
  BY <1>4 DEF Ahead
<1>12. Ahead' = Ahead \cup ToSet(behind)
  BY <1>7, <1>9, <1>11 DEF Ahead
<1>13. \A v \in fold'.visited : ToSet(edges[v]) \subseteq Ahead'
  BY <1>2, <1>6, <1>9, <1>12
<1>14. ASSUME NEW S \in SUBSET FactTargets, fold.root \in S, ClosedUnder(S)
       PROVE  Ahead' \subseteq S
  <2>1. Ahead \subseteq S
    BY <1>2, <1>14
  <2>2. ToSet(behind) \subseteq S
    BY <2>1, <1>6, <1>11, <1>14 DEF ClosedUnder
  <2> QED
    BY <2>1, <2>2, <1>12
<1>15. fold'.acc = UNION {OwnSet(v, fold.ty, fold.field) : v \in fold'.visited}
  BY <1>2, <1>9 DEF more
<1>16. \A v : OwnSet(v, fold.ty, fold.field)' = OwnSet(v, fold.ty, fold.field)
  BY <1>1, <1>9 DEF OwnSet, Own
<1>17. FoldTrue'
  <2>1. \A S : ClosedUnder(S)' = ClosedUnder(S)
    BY <1>1 DEF ClosedUnder
  <2>2. Folds(fold.ty, fold.field)'
    BY <1>2, <1>9 DEF Folds
  <2>3. \A S \in SUBSET FactTargets : fold'.root \in S /\ ClosedUnder(S)' => Ahead' \subseteq S
    BY <2>1, <1>9, <1>14
  <2>4. fold'.acc = UNION {OwnSet(v, fold.ty, fold.field)' : v \in fold'.visited}
    BY <1>15, <1>16
  <2> QED
    BY <2>2, <2>3, <2>4, <1>1, <1>2, <1>4, <1>7, <1>9, <1>12, <1>13 DEF FoldTrue
<1> QED
  BY <1>1, <1>9, <1>10, <1>17, StoreStays

(* A set field holds what the target's facts put there: all of the accepted, and only what was heard. *)
LEMMA OwnIsHeard ==
  ASSUME FactInv, NEW u, NEW ty, NEW x, Decl_.providers[ty][x] = "set"
  PROVE  /\ Facts(u, ty, x, {"accepted"}) \subseteq OwnSet(u, ty, x)
         /\ OwnSet(u, ty, x) \subseteq Facts(u, ty, x, Heard)
<1> DEFINE k == <<u, ty>>
<1>1. k[1] = u /\ k[2] = ty /\ schemas[ty][x] = "set"
  BY DEF FactInv
<1>2. ASSUME k \in DOMAIN providers, x \in DOMAIN providers[k]
      PROVE  providers[k][x].kind = "set" /\ OwnSet(u, ty, x) = providers[k][x].v
  BY <1>1, <1>2 DEF FactInv, StoreKinds, OwnSet, Own
<1>3. ASSUME ~(k \in DOMAIN providers /\ x \in DOMAIN providers[k])
      PROVE  OwnSet(u, ty, x) = {}
  BY <1>3 DEF OwnSet, Own
<1>4. ASSUME NEW e \in Facts(u, ty, x, {"accepted"})
      PROVE  e \in OwnSet(u, ty, x)
  <2>1. PICK g \in Producible : g.target = u /\ g.ty = ty /\ x \in DOMAIN g.fields /\ said[g] = "accepted" /\ e \in g.fields[x].v
    BY <1>4 DEF Facts
  <2>2. g.fields[x].kind = "set"
    BY <2>1, <1>1 DEF FactInv, AcceptedStored, SchemaHolds, Heard
  <2>3. k \in DOMAIN providers /\ x \in DOMAIN providers[k] /\ g.fields[x].v \subseteq providers[k][x].v
    BY <2>1, <2>2 DEF FactInv, AcceptedStored, FactKey
  <2> QED
    BY <2>1, <2>3, <1>2
<1>5. ASSUME NEW e \in OwnSet(u, ty, x)
      PROVE  e \in Facts(u, ty, x, Heard)
  <2>1. k \in DOMAIN providers /\ x \in DOMAIN providers[k]
    BY <1>3, <1>5
  <2> QED
    BY <2>1, <1>1, <1>2, <1>5 DEF FactInv, StoreHeard
<1> QED
  BY <1>4, <1>5

LEMMA ReadsOwn ==
  ASSUME FactInv, NEW over, NEW ty, NEW x, Decl_.providers[ty][x] = "set"
  PROVE  ReadsAs(over, ty, x, UNION {OwnSet(u, ty, x) : u \in over})
<1>1. \A u : /\ Facts(u, ty, x, {"accepted"}) \subseteq OwnSet(u, ty, x)
             /\ OwnSet(u, ty, x) \subseteq Facts(u, ty, x, {"accepted", "conflict"})
  BY OwnIsHeard DEF Heard
<1> QED
  BY <1>1 DEF ReadsAs

(* When nothing is left to visit, what was visited is what is reachable. *)
LEMMA VisitedAll ==
  ASSUME FactInv, fold.on, fold.stack = << >>
  PROVE  fold.visited = Reachable(fold.root)
<1>1. ToSet(fold.stack) = {}
  BY DEF ToSet
<1>2. Ahead = fold.visited
  BY <1>1 DEF Ahead
<1>3. /\ fold.visited \subseteq FactTargets /\ fold.root \in fold.visited /\ ClosedUnder(fold.visited)
      /\ \A S \in SUBSET FactTargets : fold.root \in S /\ ClosedUnder(S) => fold.visited \subseteq S
  BY <1>2 DEF FactInv, FoldTrue, ClosedUnder
<1>4. Reachable(fold.root) = {u \in FactTargets : \A S \in SUBSET FactTargets : fold.root \in S /\ ClosedUnder(S) => u \in S}
  BY DEF Reachable, ClosedUnder
<1> QED
  BY <1>3, <1>4

LEMMA InvFolds == FactInv => FoldsAgree
<1> SUFFICES ASSUME FactInv PROVE FoldsAgree
  OBVIOUS
<1>1. ASSUME fold.on, fold.stack = << >>
      PROVE  ReadsAs(Reachable(fold.root), fold.ty, fold.field, fold.acc)
  <2>1. Folds(fold.ty, fold.field) /\ fold.acc = UNION {OwnSet(v, fold.ty, fold.field) : v \in fold.visited}
    BY <1>1 DEF FactInv, FoldTrue
  <2>2. Decl_.providers[fold.ty][fold.field] = "set"
    BY <2>1, ProvidesSets DEF Folds, Provide
  <2>3. fold.visited = Reachable(fold.root)
    BY <1>1, VisitedAll
  <2>4. ReadsAs(fold.visited, fold.ty, fold.field, UNION {OwnSet(v, fold.ty, fold.field) : v \in fold.visited})
    BY <2>2, ReadsOwn
  <2> QED
    BY <2>1, <2>3, <2>4
<1>2. ASSUME NEW t \in FactTargets, NEW p \in Decl_.provides
      PROVE  ReadsAs({t}, p.provider, p.field, OwnSet(t, p.provider, p.field))
  <2>1. Decl_.providers[p.provider][p.field] = "set"
    BY ProvidesSets
  <2>2. ReadsAs({t}, p.provider, p.field, UNION {OwnSet(u, p.provider, p.field) : u \in {t}})
    BY <2>1, ReadsOwn
  <2>3. UNION {OwnSet(u, p.provider, p.field) : u \in {t}} = OwnSet(t, p.provider, p.field)
    OBVIOUS
  <2> QED
    BY <2>2, <2>3
<1> QED
  BY <1>1, <1>2 DEF FoldsAgree

LEMMA FactInvStep == FactInv /\ [FactNext]_factVars => FactInv'
<1> SUFFICES ASSUME FactInv, [FactNext]_factVars PROVE FactInv'
  OBVIOUS
<1>1. ASSUME NEW f \in Producible, assert(f) PROVE FactInv'
  BY <1>1, RefuseKeeps, AcceptKeeps
<1>2. ASSUME NEW t \in FactTargets, NEW p \in Decl_.provides, fold_set(t, p.provider, p.field) PROVE FactInv'
  BY <1>2, FoldStartKeeps
<1>3. CASE Pop
  BY <1>3, FoldPopKeeps
<1>4. CASE Folded
  BY <1>4, FoldEndKeeps
<1>5. CASE UNCHANGED factVars
  <2>1. UNCHANGED <<schemas, providers, edges, said, fold>>
    BY <1>5 DEF factVars
  <2>2. fold'.on \in BOOLEAN /\ FoldShape'
    BY <2>1 DEF FactInv, FoldShape
  <2>3. FoldTrue'
    <3>1. Ahead' = Ahead /\ Folds(fold.ty, fold.field)' = Folds(fold.ty, fold.field)
      BY <2>1 DEF Ahead, Folds
    <3>2. \A S : ClosedUnder(S)' = ClosedUnder(S)
      BY <2>1 DEF ClosedUnder
    <3>3. \A v : OwnSet(v, fold.ty, fold.field)' = OwnSet(v, fold.ty, fold.field)
      BY <2>1 DEF OwnSet, Own
    <3> QED
      BY <2>1, <3>1, <3>2, <3>3 DEF FactInv, FoldTrue
  <2> QED
    BY <2>1, <2>2, <2>3, StoreStays
<1> QED
  BY <1>1, <1>2, <1>3, <1>4, <1>5 DEF FactNext

(* A declared set field reads as the facts accepted of every target the fold  *)
(* reaches, however producers interleave and whatever cycle is in the graph   *)
(* (Dds::assert, fold_set and query_set).                                     *)
THEOREM FactsFoldTrue == FactSpec => []FoldsAgree
<1>1. FactInit => FactInv
  BY InitFacts
<1>2. FactInv /\ [FactNext]_factVars => FactInv'
  BY FactInvStep
<1>3. FactInv => FoldsAgree
  BY InvFolds
<1> QED
  BY <1>1, <1>2, <1>3, PTL DEF FactSpec

-----------------------------------------------------------------------------
(***************************************************************************)
(* Features: while the names are closed under `implies`, what is held is   *)
(* wanted; while names are removed, every set that holds is still within   *)
(* what is held, and what this pass has looked at is met if it has removed *)
(* nothing.                                                                *)
(***************************************************************************)
Implying ==
  stage = "imply" =>
    /\ enabled \subseteq Universe(toolchain) /\ Seeds \subseteq enabled
    /\ \A S \in SUBSET Universe(toolchain) : Seeds \subseteq S /\ Closed(toolchain, S) => enabled \subseteq S
Bounded ==
  stage \in {"require", "done"} =>
    /\ enabled \subseteq Wanted(toolchain, Seeds)
    /\ \A S \in SUBSET Wanted(toolchain, Seeds) : Holds(toolchain, S) => S \subseteq enabled
Requiring ==
  stage = "require" =>
    /\ pass \subseteq enabled
    /\ ~removed => \A n \in enabled \ pass : ~Unmet(toolchain, n, enabled)
Settled == stage = "done" => Holds(toolchain, enabled)
SelectInv ==
  /\ stage \in {"seed", "imply", "require", "done"} /\ removed \in BOOLEAN
  /\ Implying /\ Bounded /\ Requiring /\ Settled
SelectSpec == SelectInit /\ [][SelectNext]_selectVars

(* A requirement met in a set is met in every larger one. *)
LEMMA MetGrows ==
  ASSUME NEW cfg, NEW n, NEW S, NEW T, S \subseteq T, Unmet(cfg, n, T)
  PROVE  Unmet(cfg, n, S)
BY DEF Unmet

(* What the toolchain's features imply is in the universe, and so are the seeds. *)
LEMMA InUniverse ==
  /\ Seeds \subseteq Universe(toolchain)
  /\ \A n \in Names(toolchain) : get(toolchain, n).implies \subseteq Universe(toolchain)
BY DEF Seeds, Universe

LEMMA InitSelect == SelectInit => SelectInv
BY DEF SelectInit, SelectInv, Implying, Bounded, Requiring, Settled

LEMMA SeedKeeps == SelectInv /\ Seed => SelectInv'
<1> SUFFICES ASSUME SelectInv, Seed PROVE SelectInv'
  OBVIOUS
<1>1. toolchain' = toolchain /\ Seeds' = Seeds /\ enabled' = Seeds /\ stage' = "imply" /\ removed' = removed
  BY DEF Seed, Seeds
<1>2. Implying'
  BY <1>1, InUniverse DEF Implying
<1> QED
  BY <1>1, <1>2 DEF SelectInv, Bounded, Requiring, Settled

LEMMA ImplyKeeps == SelectInv /\ Imply => SelectInv'
<1> SUFFICES ASSUME SelectInv, Imply PROVE SelectInv'
  OBVIOUS
<1> DEFINE more == UNION {get(toolchain, n).implies : n \in enabled \cap Names(toolchain)}
<1>1. toolchain' = toolchain /\ Seeds' = Seeds /\ removed' = removed /\ stage = "imply"
  BY DEF Imply, Seeds
<1>2. /\ enabled \subseteq Universe(toolchain) /\ Seeds \subseteq enabled
      /\ \A S \in SUBSET Universe(toolchain) : Seeds \subseteq S /\ Closed(toolchain, S) => enabled \subseteq S
  BY <1>1 DEF SelectInv, Implying
<1>3. CASE ~(more \subseteq enabled)
  <2>1. enabled' = enabled \cup more /\ stage' = "imply"
    BY <1>1, <1>3 DEF Imply
  <2>2. more \subseteq Universe(toolchain)
    BY InUniverse
  <2>3. ASSUME NEW S \in SUBSET Universe(toolchain), Seeds \subseteq S, Closed(toolchain, S)
        PROVE  enabled' \subseteq S
    <3>1. enabled \subseteq S
      BY <2>3, <1>2
    <3>2. more \subseteq S
      BY <2>3, <3>1 DEF Closed
    <3> QED
      BY <2>1, <3>1, <3>2
  <2>4. Implying'
    BY <1>1, <1>2, <2>1, <2>2, <2>3 DEF Implying
  <2> QED
    BY <1>1, <2>1, <2>4 DEF SelectInv, Bounded, Requiring, Settled
<1>4. CASE more \subseteq enabled
  <2>1. enabled' = enabled /\ stage' = "require" /\ pass' = enabled
    BY <1>1, <1>4 DEF Imply
  <2>2. Closed(toolchain, enabled)
    BY <1>4 DEF Closed
  <2>3. enabled = Wanted(toolchain, Seeds)
    BY <1>2, <2>2 DEF Wanted
  <2>4. Bounded' /\ Requiring'
    BY <1>1, <2>1, <2>3 DEF Bounded, Requiring
  <2> QED
    BY <1>1, <2>1, <2>4 DEF SelectInv, Implying, Settled
<1> QED
  BY <1>3, <1>4

LEMMA LookKeeps == SelectInv /\ (\E n \in pass : Look(n)) => SelectInv'
<1> SUFFICES ASSUME SelectInv, NEW n \in pass, Look(n) PROVE SelectInv'
  OBVIOUS
<1>1. /\ toolchain' = toolchain /\ Seeds' = Seeds /\ stage = "require" /\ stage' = "require"
      /\ pass' = pass \ {n}
  BY DEF Look, Seeds
<1>2. /\ pass \subseteq enabled /\ enabled \subseteq Wanted(toolchain, Seeds)
      /\ \A S \in SUBSET Wanted(toolchain, Seeds) : Holds(toolchain, S) => S \subseteq enabled
      /\ ~removed => \A m \in enabled \ pass : ~Unmet(toolchain, m, enabled)
  BY <1>1 DEF SelectInv, Bounded, Requiring
<1>3. CASE Unmet(toolchain, n, enabled)
  <2>1. enabled' = enabled \ {n} /\ removed' = TRUE
    BY <1>3 DEF Look
  <2>2. ASSUME NEW S \in SUBSET Wanted(toolchain, Seeds), Holds(toolchain, S)
        PROVE  S \subseteq enabled'
    <3>1. S \subseteq enabled
      BY <2>2, <1>2
    <3>2. n \notin S
      BY <2>2, <3>1, <1>3, MetGrows DEF Holds
    <3> QED
      BY <2>1, <3>1, <3>2
  <2>3. Bounded' /\ Requiring'
    BY <1>1, <1>2, <2>1, <2>2 DEF Bounded, Requiring
  <2> QED
    BY <1>1, <2>1, <2>3 DEF SelectInv, Implying, Settled
<1>4. CASE ~Unmet(toolchain, n, enabled)
  <2>1. enabled' = enabled /\ removed' = removed
    BY <1>4 DEF Look
  <2>2. Bounded' /\ Requiring'
    BY <1>1, <1>2, <1>4, <2>1 DEF Bounded, Requiring
  <2> QED
    BY <1>1, <2>1, <2>2 DEF SelectInv, Implying, Settled
<1> QED
  BY <1>3, <1>4

LEMMA EndPassKeeps == SelectInv /\ EndPass => SelectInv'
<1> SUFFICES ASSUME SelectInv, EndPass PROVE SelectInv'
  OBVIOUS
<1>1. /\ toolchain' = toolchain /\ Seeds' = Seeds /\ enabled' = enabled /\ removed' = FALSE
      /\ stage = "require" /\ pass = {}
  BY DEF EndPass, PassEnds, Seeds
<1>2. Bounded /\ Requiring
  BY DEF SelectInv
<1>3. CASE removed
  <2>1. stage' = "require" /\ pass' = enabled
    BY <1>1, <1>3 DEF EndPass, PassEnds
  <2> QED
    BY <1>1, <1>2, <2>1 DEF SelectInv, Implying, Bounded, Requiring, Settled
<1>4. CASE ~removed
  <2>1. stage' = "done"
    BY <1>1, <1>4 DEF EndPass, PassEnds
  <2>2. Holds(toolchain, enabled)
    BY <1>1, <1>2, <1>4 DEF Requiring, Holds
  <2> QED
    BY <1>1, <1>2, <2>1, <2>2 DEF SelectInv, Implying, Bounded, Requiring, Settled
<1> QED
  BY <1>3, <1>4

(* The invariant gives the property: what is held holds, and is wanted, so  *)
(* it is one of the sets; and each of them is within it.                    *)
LEMMA LargestInv == SelectInv => SelectedIsLargest
<1> SUFFICES ASSUME SelectInv, stage = "done"
             PROVE  enabled = UNION {S \in SUBSET Wanted(toolchain, Seeds) : Holds(toolchain, S)}
  BY DEF SelectedIsLargest
<1>1. /\ enabled \subseteq Wanted(toolchain, Seeds) /\ Holds(toolchain, enabled)
      /\ \A S \in SUBSET Wanted(toolchain, Seeds) : Holds(toolchain, S) => S \subseteq enabled
  BY DEF SelectInv, Bounded, Settled
<1> QED
  BY <1>1

(* Whatever the toolchain and the request, and in whatever order the names  *)
(* of a pass are looked at, `select` ends with the largest set of wanted    *)
(* features in which every requirement is met (FeatureConfig::select).      *)
THEOREM SelectionIsLargest == SelectSpec => []SelectedIsLargest
<1>1. SelectInv /\ [SelectNext]_selectVars => SelectInv'
  <2>1. SelectInv /\ UNCHANGED selectVars => SelectInv'
    BY DEF SelectInv, selectVars, Implying, Bounded, Requiring, Settled, Seeds
  <2> QED
    BY <2>1, SeedKeeps, ImplyKeeps, LookKeeps, EndPassKeeps DEF SelectNext
<1> QED
  BY InitSelect, <1>1, LargestInv, PTL DEF SelectSpec

-----------------------------------------------------------------------------
(***************************************************************************)
(* Wrapper: what is stale takes its readers with it, so whatever is not    *)
(* stale was run after everything it reads; and a rustc that is not stale  *)
(* ran with what the flags files say now.                                  *)
(***************************************************************************)
StaleCloses == \A b \in stale : Readers(b) \subseteq stale
FilesOwn ==
  \A c \in Scripted : \A i \in DOMAIN flags_file[c] :
    /\ flags_file[c][i].by = c /\ flags_file[c][i].path # "sandbox"
    /\ ScriptOf(c) \notin stale => flags_file[c][i].at = runs[c]
RustcCurrent == \A c \in WCrates : RustcOf(c) \notin stale => rustc_run[c] = Command(c)
WrapInv ==
  /\ stale \subseteq WActions /\ runs \in [Scripted -> Nat]
  /\ DOMAIN flags_file = Scripted /\ DOMAIN rustc_run = WCrates /\ DOMAIN script_env = Scripted
  /\ StaleCloses /\ FilesOwn /\ RustcCurrent
  /\ \A c \in Scripted : runs[c] > 0 => EnvScoped(script_env[c], c)
WrapSpec == WrapInit /\ [][WrapNext]_wrapVars

LEMMA WrapNames ==
  /\ \A c, d : ScriptOf(c) # RustcOf(d)
  /\ \A c, d : ScriptOf(c) = ScriptOf(d) => c = d
  /\ \A c, d : RustcOf(c) = RustcOf(d) => c = d
  /\ \A c \in Scripted : ScriptOf(c) \in WActions /\ c \in WCrates
  /\ \A c \in WCrates : RustcOf(c) \in WActions
BY DEF ScriptOf, RustcOf, WActions, WCrates

(* Readers are actions: a script's are its crate's rustc, and, if it is beneath the binary, the link. *)
LEMMA ReadersTrue ==
  /\ \A a \in WActions : Readers(a) \subseteq WActions
  /\ \A c \in Scripted : RustcOf(c) \in Readers(ScriptOf(c))
  /\ \A c \in Scripted \cap Beneath(Binary) : RustcOf(Binary) \in Readers(ScriptOf(c))
<1>1. \A c : ScriptOf(c)[1] = "script" /\ ScriptOf(c)[2] = c /\ RustcOf(c)[1] = "rustc" /\ RustcOf(c)[2] = c
  BY DEF ScriptOf, RustcOf
<1>2. Binary \in WCrates
  BY DEF WCrates
<1>3. ASSUME NEW c \in Scripted PROVE Readers(ScriptOf(c)) \subseteq WActions
  BY <1>1, <1>2, WrapNames DEF Readers
<1>4. ASSUME NEW c \in WCrates PROVE Readers(RustcOf(c)) \subseteq WActions
  BY <1>1, WrapNames DEF Readers
<1>5. \A a \in WActions : Readers(a) \subseteq WActions
  BY <1>3, <1>4 DEF WActions
<1>6. \A c \in Scripted : RustcOf(c) \in Readers(ScriptOf(c))
  BY <1>1 DEF Readers
<1>7. \A c \in Scripted \cap Beneath(Binary) : RustcOf(Binary) \in Readers(ScriptOf(c))
  BY <1>1 DEF Readers
<1> QED
  BY <1>5, <1>6, <1>7

LEMMA AfterCloses ==
  ASSUME NEW as \in SUBSET WActions
  PROVE  as \subseteq After(as) /\ After(as) \subseteq WActions /\ \A b \in After(as) : Readers(b) \subseteq After(as)
<1>1. as \subseteq After(as) /\ After(as) \subseteq WActions
  BY DEF After
<1>2. ASSUME NEW b \in After(as), NEW a \in Readers(b) PROVE a \in After(as)
  <2>1. b \in WActions /\ a \in WActions
    BY <1>2, <1>1, ReadersTrue
  <2>2. ASSUME NEW S \in SUBSET WActions, as \subseteq S, \A x \in S : Readers(x) \subseteq S PROVE a \in S
    <3>1. b \in S
      BY <1>2, <2>2 DEF After
    <3> QED
      BY <3>1, <2>2, <1>2
  <2> QED
    BY <2>1, <2>2 DEF After
<1> QED
  BY <1>1, <1>2

(* An action that is stale and runs takes nothing from what is stale still. *)
LEMMA RanCloses ==
  ASSUME StaleCloses, NEW a, Runnable(a), stale' = stale \ {a}
  PROVE  StaleCloses'
BY DEF StaleCloses, Runnable, Readers, Beneath

(* What is not stale reads nothing that is. *)
LEMMA FreshReads ==
  ASSUME StaleCloses, NEW c \in WCrates, RustcOf(c) \notin stale
  PROVE  /\ c \in Scripted => ScriptOf(c) \notin stale
         /\ c = Binary => \A d \in Beneath(c) \cap Scripted : ScriptOf(d) \notin stale
BY ReadersTrue DEF StaleCloses

LEMMA OnlyTrue ==
  ASSUME NEW recs, NEW kinds
  PROVE  /\ DOMAIN Only(recs, kinds) = {j \in DOMAIN recs : recs[j].key \in kinds}
         /\ \A i \in DOMAIN Only(recs, kinds) :
              i \in DOMAIN recs /\ Only(recs, kinds)[i] = recs[i] /\ recs[i].key \in kinds
BY DEF Only

LEMMA OverTrue ==
  ASSUME NEW e, NEW f
  PROVE  /\ DOMAIN Over(e, f) = DOMAIN e \cup DOMAIN f
         /\ \A k \in DOMAIN Over(e, f) : Over(e, f)[k] = IF k \in DOMAIN f THEN f[k] ELSE e[k]
BY DEF Over

LEMMA VarsHas ==
  ASSUME NEW ks, NEW from, NEW n \in ks
  PROVE  <<n, "">> \in DOMAIN Entry(ks, from)
BY DEF Entry

LEMMA VarsTrue ==
  ASSUME NEW ks, NEW from, NEW k \in DOMAIN Entry(ks, from)
  PROVE  k[1] \in ks /\ Entry(ks, from)[k].from = from /\ Entry(ks, from)[k].recs = << >>
<1>1. PICK n \in ks : k = <<n, "">>
  BY DEF Entry
<1>2. Entry(ks, from)[k] = [from |-> from, recs |-> << >>]
  BY DEF Entry
<1>3. k[1] = n
  BY <1>1
<1> QED
  BY <1>2, <1>3

LEMMA InitWrap == WrapInit => WrapInv
<1> SUFFICES ASSUME WrapInit PROVE WrapInv
  OBVIOUS
<1>1. stale = WActions /\ runs = [c \in Scripted |-> 0] /\ flags_file = [c \in Scripted |-> << >>]
  BY DEF WrapInit
<1>2. StaleCloses
  BY <1>1, ReadersTrue DEF StaleCloses
<1>3. FilesOwn
  BY <1>1 DEF FilesOwn
<1>4. RustcCurrent
  BY <1>1, WrapNames DEF RustcCurrent
<1>5. \A c \in Scripted : ~(runs[c] > 0)
  BY <1>1
<1> QED
  BY <1>1, <1>2, <1>3, <1>4, <1>5 DEF WrapInit, WrapInv

(* The flags file a run writes is of its own lines, and of no path in the sandbox. *)
LEMMA FileOwn ==
  ASSUME NEW out, NEW c, NEW n
  PROVE  \A i \in DOMAIN process_script_output(rewritten(Said(out, c, n))) :
           /\ process_script_output(rewritten(Said(out, c, n)))[i].by = c
           /\ process_script_output(rewritten(Said(out, c, n)))[i].at = n
           /\ process_script_output(rewritten(Said(out, c, n)))[i].path # "sandbox"
<1> DEFINE rew == rewritten(Said(out, c, n))
           file == process_script_output(rew)
<1>1. /\ DOMAIN rew = DOMAIN out
      /\ \A i \in DOMAIN out :
           rew[i] = [colons |-> out[i].colons, key |-> out[i].key,
                     path |-> IF out[i].path = "sandbox" THEN "relative" ELSE out[i].path, by |-> c, at |-> n]
  BY DEF rewritten, Said
<1>2. \A i \in DOMAIN rew : rew[i].by = c /\ rew[i].at = n /\ rew[i].path # "sandbox"
  <2> SUFFICES ASSUME NEW i \in DOMAIN rew PROVE rew[i].by = c /\ rew[i].at = n /\ rew[i].path # "sandbox"
    OBVIOUS
  <2>1. rew[i] = [colons |-> out[i].colons, key |-> out[i].key,
                  path |-> IF out[i].path = "sandbox" THEN "relative" ELSE out[i].path, by |-> c, at |-> n]
    BY <1>1
  <2> HIDE DEF rew
  <2> QED
    BY <2>1
<1>3. \A i \in DOMAIN rew : LET m == metadata_records(rew[i]) IN m.by = c /\ m.at = n /\ m.path # "sandbox"
  <2> SUFFICES ASSUME NEW i \in DOMAIN rew
               PROVE  LET m == metadata_records(rew[i]) IN m.by = c /\ m.at = n /\ m.path # "sandbox"
    OBVIOUS
  <2>1. rew[i] = [colons |-> out[i].colons, key |-> out[i].key,
                  path |-> IF out[i].path = "sandbox" THEN "relative" ELSE out[i].path, by |-> c, at |-> n]
    BY <1>1
  <2> HIDE DEF rew
  <2> QED
    BY <2>1 DEF metadata_records
<1> HIDE DEF rew
<1>4. \A i \in DOMAIN file : i \in DOMAIN rew /\ (file[i] = rew[i] \/ file[i] = metadata_records(rew[i]))
  BY DEF process_script_output, parse_build_script_output
<1>5. \A i \in DOMAIN file : file[i].by = c /\ file[i].at = n /\ file[i].path # "sandbox"
  BY <1>2, <1>3, <1>4
<1> QED
  BY <1>5 DEF rew

(* What a script's run is told: its own variables, and the metadata of its link_deps. *)
LEMMA EnvTrue ==
  ASSUME WrapInv, NEW c \in Scripted,
         NEW env, env = Over(assemble_child_env(EnvFileVars, Entry(CargoVars, "literal")),
                             Over(dep_env_vars(c), Entry({"CARGO_MANIFEST_DIR"}, "rundir")))
  PROVE  EnvScoped(env, c)
<1> DEFINE dep == dep_env_vars(c)
           rdir == Entry({"CARGO_MANIFEST_DIR"}, "rundir")
           lit == Entry(CargoVars, "literal")
           fil == Entry(EnvFileVars, "env-file")
           out == Entry({"OUT_DIR"}, "sandbox")
           vars == Over(fil, lit)
           own == Over(vars, out)
           tld == Over(dep, rdir)
<1>1. env = Over(own, tld)
  BY DEF assemble_child_env, base_env
<1>4. ASSUME NEW k \in DOMAIN dep
      PROVE  /\ k[1] = "DEP" /\ k[2] \in LinksDeps[c] /\ dep[k].from = "script"
             /\ \A i \in DOMAIN dep[k].recs :
                  dep[k].recs[i].path # "sandbox" /\ dep[k].recs[i].key = "metadata" /\ dep[k].recs[i].by = k[2]
  <2>1. PICK d \in LinksDeps[c] \cap HasLinks : k = <<"DEP", d>>
    BY <1>4 DEF dep_env_vars
  <2>2. d \in Scripted /\ k[1] = "DEP" /\ k[2] = d
    BY <2>1, WrapAssumption
  <2>3. dep[k] = Told(Only(flags_file[d], {"metadata"}))
    BY <1>4, <2>2 DEF dep_env_vars
  <2>4. dep[k].from = "script" /\ dep[k].recs = Only(flags_file[d], {"metadata"})
    BY <2>3 DEF Told
  <2> DEFINE meta == Only(flags_file[d], {"metadata"})
  <2>5. \A i \in DOMAIN meta : i \in DOMAIN flags_file[d] /\ meta[i] = flags_file[d][i] /\ flags_file[d][i].key \in {"metadata"}
    BY OnlyTrue
  <2>6. dep[k].recs = meta
    BY <2>4
  <2>7. \A i \in DOMAIN flags_file[d] : flags_file[d][i].by = d /\ flags_file[d][i].path # "sandbox"
    BY <2>2 DEF WrapInv, FilesOwn
  <2> HIDE DEF meta, dep
  <2> QED
    BY <2>1, <2>2, <2>4, <2>5, <2>6, <2>7
<1> HIDE DEF dep
<1>2. \A k \in DOMAIN rdir : k[1] \in {"CARGO_MANIFEST_DIR"} /\ rdir[k].from = "rundir" /\ rdir[k].recs = << >>
  BY VarsTrue
<1>3. \A k \in DOMAIN lit : k[1] \in CargoVars /\ lit[k].from = "literal" /\ lit[k].recs = << >>
  BY VarsTrue
<1>5. \A k \in DOMAIN fil : k[1] \in EnvFileVars /\ fil[k].from = "env-file" /\ fil[k].recs = << >>
  BY VarsTrue
<1>6. \A k \in DOMAIN out : k[1] \in {"OUT_DIR"} /\ out[k].from = "sandbox" /\ out[k].recs = << >>
  BY VarsTrue
<1>9. <<"OUT_DIR", "">> \in DOMAIN out /\ <<"CARGO_PKG_VERSION", "">> \in DOMAIN lit
  BY VarsHas DEF CargoVars
<1> HIDE DEF rdir, lit, fil, out
<1>7. /\ DOMAIN tld = DOMAIN dep \cup DOMAIN rdir
      /\ \A k \in DOMAIN tld : tld[k] = IF k \in DOMAIN rdir THEN rdir[k] ELSE dep[k]
  BY OverTrue
<1>8. /\ DOMAIN vars = DOMAIN fil \cup DOMAIN lit
      /\ \A k \in DOMAIN vars : vars[k] = IF k \in DOMAIN lit THEN lit[k] ELSE fil[k]
  BY OverTrue
<1> HIDE DEF vars
<1>10. /\ DOMAIN own = DOMAIN vars \cup DOMAIN out
       /\ \A k \in DOMAIN own : own[k] = IF k \in DOMAIN out THEN out[k] ELSE vars[k]
  BY OverTrue
<1> HIDE DEF tld
<1>11. /\ DOMAIN env = DOMAIN own \cup DOMAIN tld
       /\ \A k \in DOMAIN env : env[k] = IF k \in DOMAIN tld THEN tld[k] ELSE own[k]
  <2>1. /\ DOMAIN Over(own, tld) = DOMAIN own \cup DOMAIN tld
        /\ \A k \in DOMAIN Over(own, tld) : Over(own, tld)[k] = IF k \in DOMAIN tld THEN tld[k] ELSE own[k]
    BY OverTrue
  <2> HIDE DEF own, tld
  <2> QED
    BY <1>1, <2>1
<1> HIDE DEF own, tld
<1>12. DOMAIN << >> = {}
  OBVIOUS
<1>13. ASSUME NEW k \in DOMAIN env
       PROVE  \/ k \in DOMAIN dep /\ env[k] = dep[k]
              \/ env[k].from # "script" /\ env[k].recs = << >>
  <2>1. CASE k \in DOMAIN tld
    <3>1. env[k] = tld[k]
      BY <1>11, <2>1
    <3>2. CASE k \in DOMAIN rdir
      BY <1>2, <1>7, <2>1, <3>1, <3>2
    <3>3. CASE k \notin DOMAIN rdir
      BY <1>7, <2>1, <3>1, <3>3
    <3> QED
      BY <3>2, <3>3
  <2>2. CASE k \notin DOMAIN tld
    <3>1. env[k] = own[k] /\ k \in DOMAIN own
      BY <1>11, <2>2
    <3>2. CASE k \in DOMAIN out
      BY <1>6, <1>10, <3>1, <3>2
    <3>3. CASE k \notin DOMAIN out
      <4>1. env[k] = vars[k] /\ k \in DOMAIN vars
        BY <1>10, <3>1, <3>3
      <4>2. CASE k \in DOMAIN lit
        BY <1>3, <1>8, <4>1, <4>2
      <4>3. CASE k \notin DOMAIN lit
        BY <1>5, <1>8, <4>1, <4>3
      <4> QED
        BY <4>2, <4>3
    <3> QED
      BY <3>2, <3>3
  <2> QED
    BY <2>1, <2>2
<1>14. /\ <<"OUT_DIR", "">>[1] = "OUT_DIR" /\ <<"CARGO_PKG_VERSION", "">>[1] = "CARGO_PKG_VERSION"
  OBVIOUS
<1>15. env[<<"OUT_DIR", "">>].from = "sandbox"
  <2>1. <<"OUT_DIR", "">> \notin DOMAIN tld
    BY <1>2, <1>4, <1>7, <1>14
  <2>2. env[<<"OUT_DIR", "">>] = out[<<"OUT_DIR", "">>]
    BY <2>1, <1>10, <1>11, <1>9
  <2> QED
    BY <2>2, <1>6, <1>9
<1>16. env[<<"CARGO_PKG_VERSION", "">>].from = "literal"
  <2>1. <<"CARGO_PKG_VERSION", "">> \notin DOMAIN tld
    BY <1>2, <1>4, <1>7, <1>14
  <2>2. <<"CARGO_PKG_VERSION", "">> \notin DOMAIN out
    BY <1>6, <1>14
  <2>3. env[<<"CARGO_PKG_VERSION", "">>] = lit[<<"CARGO_PKG_VERSION", "">>]
    BY <2>1, <2>2, <1>8, <1>10, <1>11, <1>9
  <2> QED
    BY <2>3, <1>3, <1>9
<1>17. \A k \in DOMAIN env :
         /\ env[k].from = "script" => k[2] \in LinksDeps[c]
         /\ \A i \in DOMAIN env[k].recs :
              env[k].recs[i].path # "sandbox" /\ env[k].recs[i].key = "metadata" /\ env[k].recs[i].by = k[2]
  BY <1>4, <1>12, <1>13
<1> QED
  BY <1>15, <1>16, <1>17 DEF EnvScoped

(* A command is made of the crate's own flags file and of those it links. *)
LEMMA CommandSame ==
  ASSUME NEW d \in WCrates,
         d \in Scripted => flags_file'[d] = flags_file[d],
         \A x \in link_flags_files(d) : flags_file'[x] = flags_file[x]
  PROVE  Command(d)' = Command(d)
<1>1. (IF d \in Scripted THEN flags_file[d] ELSE << >>)' = IF d \in Scripted THEN flags_file[d] ELSE << >>
  OBVIOUS
<1>2. [x \in link_flags_files(d) |-> link_args_only(flags_file'[x])]
      = [x \in link_flags_files(d) |-> link_args_only(flags_file[x])]
  OBVIOUS
<1>3. link_flags_files(d)' = link_flags_files(d)
  BY DEF link_flags_files, Beneath
<1> QED
  BY <1>1, <1>2, <1>3 DEF Command

(* A run of a script, whether it succeeds or not. *)
LEMMA ScriptStep ==
  ASSUME WrapInv, NEW c \in Scripted, NEW out \in Stdouts, NEW code \in {0, 1}, run_build_script(c, out, code)
  PROVE  WrapInv'
<1> DEFINE file == process_script_output(rewritten(Said(out, c, runs[c] + 1)))
           env == Over(assemble_child_env(EnvFileVars, Entry(CargoVars, "literal")),
                       Over(dep_env_vars(c), Entry({"CARGO_MANIFEST_DIR"}, "rundir")))
<1>1. /\ Runnable(ScriptOf(c)) /\ runs' = [runs EXCEPT ![c] = @ + 1]
      /\ script_env' = [script_env EXCEPT ![c] = env] /\ rustc_run' = rustc_run
      /\ \/ flags_file' = [flags_file EXCEPT ![c] = file] /\ stale' = stale \ {ScriptOf(c)}
         \/ flags_file' = flags_file /\ stale' = stale
  BY DEF run_build_script
<1>2. \A i \in DOMAIN file : file[i].by = c /\ file[i].at = runs[c] + 1 /\ file[i].path # "sandbox"
  BY FileOwn
<1>3. EnvScoped(env, c)
  BY EnvTrue
<1> HIDE DEF file, env
<1>4. /\ stale \subseteq WActions /\ runs \in [Scripted -> Nat] /\ StaleCloses /\ FilesOwn /\ RustcCurrent
      /\ DOMAIN flags_file = Scripted /\ DOMAIN rustc_run = WCrates /\ DOMAIN script_env = Scripted
      /\ \A d \in Scripted : runs[d] > 0 => EnvScoped(script_env[d], d)
  BY DEF WrapInv
<1>5. /\ stale' \subseteq WActions /\ runs' \in [Scripted -> Nat]
      /\ DOMAIN flags_file' = Scripted /\ DOMAIN rustc_run' = WCrates /\ DOMAIN script_env' = Scripted
  BY <1>1, <1>4
<1>6. StaleCloses'
  <2>1. CASE stale' = stale \ {ScriptOf(c)}
    BY <1>1, <1>4, <2>1, RanCloses
  <2>2. CASE stale' = stale
    BY <1>4, <2>2 DEF StaleCloses, Readers, Beneath
  <2> QED
    BY <1>1, <2>1, <2>2
<1>7. FilesOwn'
  <2> SUFFICES ASSUME NEW d \in Scripted, NEW i \in DOMAIN flags_file'[d]
               PROVE  /\ flags_file'[d][i].by = d /\ flags_file'[d][i].path # "sandbox"
                      /\ ScriptOf(d) \notin stale' => flags_file'[d][i].at = runs'[d]
    BY DEF FilesOwn, ScriptOf
  <2>1. CASE d # c
    BY <1>1, <1>4, <2>1, WrapNames DEF FilesOwn
  <2>2. CASE d = c /\ flags_file' = [flags_file EXCEPT ![c] = file]
    <3>1. flags_file'[d] = file /\ runs'[d] = runs[c] + 1
      BY <1>1, <1>4, <2>2
    <3> QED
      BY <1>2, <2>2, <3>1
  <2>3. CASE d = c /\ flags_file' = flags_file /\ stale' = stale
    <3>1. ScriptOf(d) \in stale'
      BY <1>1, <2>3 DEF Runnable
    <3> QED
      BY <1>4, <2>3, <3>1 DEF FilesOwn
  <2> QED
    BY <1>1, <2>1, <2>2, <2>3
<1>8. RustcCurrent'
  <2> SUFFICES ASSUME NEW d \in WCrates, RustcOf(d) \notin stale' PROVE rustc_run'[d] = Command(d)'
    BY DEF RustcCurrent, WCrates, RustcOf
  <2>1. RustcOf(d) \notin stale
    BY <1>1, WrapNames
  <2>2. rustc_run'[d] = Command(d)
    BY <1>1, <1>4, <2>1 DEF RustcCurrent
  <2>3. ScriptOf(c) \in stale
    BY <1>1 DEF Runnable
  <2>4. d # c /\ c \notin link_flags_files(d)
    BY <1>4, <2>1, <2>3, ReadersTrue DEF StaleCloses, link_flags_files
  <2>5. link_flags_files(d) \subseteq Scripted
    BY DEF link_flags_files
  <2>6. \A x \in Scripted : x # c => flags_file'[x] = flags_file[x]
    BY <1>1, <1>4
  <2>7. Command(d)' = Command(d)
    BY <2>4, <2>5, <2>6, CommandSame
  <2> QED
    BY <2>2, <2>7
<1>9. ASSUME NEW d \in Scripted, runs'[d] > 0 PROVE EnvScoped(script_env'[d], d)
  <2>1. CASE d = c
    <3>1. script_env'[c] = env
      BY <1>1, <1>4
    <3> QED
      BY <1>3, <2>1, <3>1
  <2>2. CASE d # c
    <3>1. script_env'[d] = script_env[d] /\ runs'[d] = runs[d]
      BY <1>1, <1>4, <2>2
    <3> QED
      BY <1>4, <1>9, <3>1
  <2> QED
    BY <2>1, <2>2
<1> QED
  BY <1>5, <1>6, <1>7, <1>8, <1>9 DEF WrapInv, WActions, WCrates, ScriptOf, RustcOf

LEMMA RustcStep ==
  ASSUME WrapInv, NEW c \in WCrates, run_rustc(c)
  PROVE  WrapInv'
<1>1. /\ Runnable(RustcOf(c)) /\ rustc_run' = [rustc_run EXCEPT ![c] = Command(c)]
      /\ stale' = stale \ {RustcOf(c)}
      /\ flags_file' = flags_file /\ script_env' = script_env /\ runs' = runs
  BY DEF run_rustc
<1>2. StaleCloses'
  BY <1>1, RanCloses DEF WrapInv
<1>3. FilesOwn'
  BY <1>1, WrapNames DEF WrapInv, FilesOwn, ScriptOf
<1>4. ASSUME NEW d \in WCrates, RustcOf(d) \notin stale' PROVE rustc_run'[d] = Command(d)'
  <2>1. Command(d)' = Command(d)
    BY <1>1, CommandSame
  <2>2. CASE d = c
    BY <1>1, <2>1, <2>2 DEF WrapInv
  <2>3. CASE d # c
    BY <1>1, <1>4, <2>1, <2>3, WrapNames DEF WrapInv, RustcCurrent
  <2> QED
    BY <2>2, <2>3
<1>5. RustcCurrent'
  BY <1>4 DEF RustcCurrent, WCrates, RustcOf
<1>6. \A d \in Scripted : runs'[d] > 0 => EnvScoped(script_env'[d], d)
  BY <1>1 DEF WrapInv
<1> QED
  BY <1>1, <1>2, <1>3, <1>5, <1>6 DEF WrapInv, WActions, WCrates, ScriptOf, RustcOf

LEMMA EditStep ==
  ASSUME WrapInv, NEW c \in Scripted, EditScript(c)
  PROVE  WrapInv'
<1>1. /\ stale' = After(stale \cup {ScriptOf(c)})
      /\ flags_file' = flags_file /\ script_env' = script_env /\ rustc_run' = rustc_run /\ runs' = runs
  BY DEF EditScript
<1>2. stale \cup {ScriptOf(c)} \in SUBSET WActions
  BY WrapNames DEF WrapInv
<1>3. stale \subseteq stale' /\ stale' \subseteq WActions /\ \A b \in stale' : Readers(b) \subseteq stale'
  BY <1>1, <1>2, AfterCloses
<1>4. StaleCloses'
  BY <1>3 DEF StaleCloses, Readers, Beneath
<1>5. FilesOwn'
  BY <1>1, <1>3 DEF WrapInv, FilesOwn, ScriptOf
<1>6. ASSUME NEW d \in WCrates, RustcOf(d) \notin stale' PROVE rustc_run'[d] = Command(d)'
  <2>1. Command(d)' = Command(d)
    BY <1>1, CommandSame
  <2> QED
    BY <1>1, <1>3, <1>6, <2>1 DEF WrapInv, RustcCurrent
<1>7. RustcCurrent'
  BY <1>6 DEF RustcCurrent, WCrates, RustcOf
<1>8. \A d \in Scripted : runs'[d] > 0 => EnvScoped(script_env'[d], d)
  BY <1>1 DEF WrapInv
<1> QED
  BY <1>1, <1>3, <1>4, <1>5, <1>7, <1>8 DEF WrapInv, WActions, WCrates, ScriptOf, RustcOf

(* What is stale, what the flags files hold and what each rustc saw stay in step through runs, failures and edits. *)
LEMMA WrapInvariant == WrapSpec => []WrapInv
<1>1. ASSUME WrapInv, WrapNext PROVE WrapInv'
  <2>1. ASSUME NEW c \in Scripted, NEW out \in Stdouts, NEW code \in {0, 1}, run_build_script(c, out, code) PROVE WrapInv'
    BY <1>1, <2>1, ScriptStep
  <2>2. ASSUME NEW c \in WCrates, run_rustc(c) PROVE WrapInv'
    BY <1>1, <2>2, RustcStep
  <2>3. ASSUME NEW c \in Scripted, EditScript(c) PROVE WrapInv'
    BY <1>1, <2>3, EditStep
  <2> QED
    BY <1>1, <2>1, <2>2, <2>3 DEF WrapNext
<1>2. ASSUME WrapInv, UNCHANGED wrapVars PROVE WrapInv'
  <2>1. /\ flags_file' = flags_file /\ script_env' = script_env /\ rustc_run' = rustc_run
        /\ runs' = runs /\ stale' = stale
    BY <1>2 DEF wrapVars
  <2>2. \A d \in WCrates : Command(d)' = Command(d)
    BY <2>1, CommandSame
  <2>3. RustcCurrent'
    <3>1. ASSUME NEW d \in WCrates, RustcOf(d) \notin stale' PROVE rustc_run'[d] = Command(d)'
      BY <1>2, <2>1, <2>2, <3>1 DEF WrapInv, RustcCurrent
    <3> QED
      BY <3>1 DEF RustcCurrent, WCrates, RustcOf
  <2>4. StaleCloses' /\ FilesOwn'
    BY <1>2, <2>1 DEF WrapInv, StaleCloses, FilesOwn, Readers, Beneath, ScriptOf
  <2> QED
    BY <1>2, <2>1, <2>3, <2>4 DEF WrapInv, WActions, WCrates, ScriptOf, RustcOf
<1> QED
  BY <1>1, <1>2, InitWrap, PTL DEF WrapSpec

(* The directives of a command whose flags files are of the scripts' last runs. *)
LEMMA CommandFresh ==
  ASSUME WrapInv, NEW c \in WCrates, RustcOf(c) \notin stale, NEW r, r = Command(c)
  PROVE  CommandScoped(r, c)
<1> DEFINE mine == IF c \in Scripted THEN flags_file[c] ELSE << >>
           args == Only(mine, LinkKinds \cup {"rustc-cfg", "rustc-flags"})
           evs == Only(mine, {"rustc-env"})
           told == [k \in {<<"CARGO_PKG_VERSION", "">>, <<"FROM_SCRIPT", "">>} |-> Told(evs)]
           bs == IF DOMAIN evs = {} THEN << >> ELSE told
           lits == {"CARGO_MANIFEST_DIR", "CARGO_PKG_VERSION"} \cup (IF c \in Scripted THEN {"OUT_DIR"} ELSE {})
           lit == Entry(lits, "literal")
           fil == Entry(EnvFileVars, "env-file")
           base == Over(fil, bs)
           env == Over(base, lit)
           lnk == [d \in link_flags_files(c) |-> link_args_only(flags_file[d])]
<1>1. r.args = args /\ r.linked = lnk /\ r.env = env
  BY DEF Command, apply_flags, base_env
<1>2. \A d \in Scripted : ScriptOf(d) \notin stale => \A i \in DOMAIN flags_file[d] : LastRunOf(flags_file[d][i], d)
  BY DEF WrapInv, FilesOwn, LastRunOf
<1>3. /\ c \in Scripted => ScriptOf(c) \notin stale
      /\ c = Binary => \A d \in Beneath(c) \cap Scripted : ScriptOf(d) \notin stale
  BY FreshReads DEF WrapInv
<1>4. DOMAIN << >> = {}
  OBVIOUS
<1>5. \A i \in DOMAIN mine : LastRunOf(mine[i], c)
  BY <1>2, <1>3, <1>4
<1> HIDE DEF mine
<1>6. /\ \A i \in DOMAIN args : i \in DOMAIN mine /\ args[i] = mine[i]
      /\ \A i \in DOMAIN evs : i \in DOMAIN mine /\ evs[i] = mine[i]
  BY OnlyTrue
<1>7. \A i \in DOMAIN args : LastRunOf(args[i], c)
  BY <1>5, <1>6
<1> HIDE DEF args, evs
<1>8. \A i \in DOMAIN evs : LastRunOf(evs[i], c)
  BY <1>5, <1>6
<1>9. ASSUME NEW d \in DOMAIN lnk
      PROVE  /\ c = Binary /\ d \in Beneath(c) \cap Scripted /\ lnk[d] = Only(flags_file[d], LinkKinds)
             /\ \A i \in DOMAIN lnk[d] : LastRunOf(lnk[d][i], d) /\ lnk[d][i].key \in LinkKinds
  <2>1. c = Binary /\ d \in Beneath(c) \cap Scripted /\ lnk[d] = Only(flags_file[d], LinkKinds)
    BY <1>9 DEF link_flags_files, link_args_only
  <2>2. \A i \in DOMAIN flags_file[d] : LastRunOf(flags_file[d][i], d)
    BY <1>2, <1>3, <2>1
  <2> DEFINE sel == Only(flags_file[d], LinkKinds)
  <2>3. \A i \in DOMAIN sel : i \in DOMAIN flags_file[d] /\ sel[i] = flags_file[d][i] /\ flags_file[d][i].key \in LinkKinds
    BY OnlyTrue
  <2>4. lnk[d] = sel
    BY <2>1
  <2> HIDE DEF sel, lnk
  <2>5. \A i \in DOMAIN lnk[d] : LastRunOf(lnk[d][i], d) /\ lnk[d][i].key \in LinkKinds
    BY <2>2, <2>3, <2>4
  <2> QED
    BY <2>1, <2>5
<1>10. ASSUME c = Binary, NEW d \in Beneath(c) \cap Scripted
       PROVE  /\ d \in DOMAIN lnk
              /\ {i \in DOMAIN flags_file[d] : flags_file[d][i].key \in LinkKinds} \subseteq DOMAIN lnk[d]
  <2>1. d \in DOMAIN lnk
    BY <1>10 DEF link_flags_files
  <2>2. lnk[d] = Only(flags_file[d], LinkKinds)
    BY <1>9, <2>1
  <2>3. DOMAIN Only(flags_file[d], LinkKinds) = {i \in DOMAIN flags_file[d] : flags_file[d][i].key \in LinkKinds}
    BY OnlyTrue
  <2> HIDE DEF lnk
  <2> QED
    BY <2>1, <2>2, <2>3
<1>11. \A k \in DOMAIN fil : fil[k].recs = << >>
  BY VarsTrue
<1>12. /\ \A k \in DOMAIN lit : lit[k].from = "literal" /\ lit[k].recs = << >>
  BY VarsTrue
<1>13. <<"CARGO_PKG_VERSION", "">> \in DOMAIN lit
  BY VarsHas
<1>14. \A k \in DOMAIN bs : bs[k].recs = evs
  BY <1>4 DEF Told
<1> HIDE DEF fil, bs, lit, lits, told
<1>15. /\ DOMAIN base = DOMAIN fil \cup DOMAIN bs
       /\ \A k \in DOMAIN base : base[k] = IF k \in DOMAIN bs THEN bs[k] ELSE fil[k]
  BY OverTrue
<1> HIDE DEF base
<1>16. /\ DOMAIN env = DOMAIN base \cup DOMAIN lit
       /\ \A k \in DOMAIN env : env[k] = IF k \in DOMAIN lit THEN lit[k] ELSE base[k]
  BY OverTrue
<1> HIDE DEF env, lnk
<1>17. \A k \in DOMAIN env : env[k].recs = evs \/ env[k].recs = << >>
  BY <1>11, <1>12, <1>14, <1>15, <1>16
<1>18. \A k \in DOMAIN env : \A i \in DOMAIN env[k].recs : LastRunOf(env[k].recs[i], c)
  BY <1>4, <1>8, <1>17
<1>19. env[<<"CARGO_PKG_VERSION", "">>].from = "literal"
  BY <1>12, <1>13, <1>16
<1> QED
  BY <1>1, <1>7, <1>9, <1>10, <1>18, <1>19 DEF CommandScoped

(* FlagsScoped, for any crate graph and any stdouts: a rustc (rustc.rs run_rustc) sees the last run of its own   *)
(* script, the binary links those beneath it and takes nothing else of them, and a script (bs_runner.rs) is told *)
(* only the metadata of its link_deps.                                                                           *)
THEOREM FlagsAlwaysScoped == WrapSpec => []FlagsScoped
<1>1. ASSUME WrapInv PROVE FlagsScoped
  <2>1. ASSUME NEW c \in WCrates, RustcOf(c) \notin stale PROVE rustc_run[c] = Command(c)
    BY <1>1, <2>1 DEF WrapInv, RustcCurrent
  <2>2. ASSUME NEW c \in WCrates, RustcOf(c) \notin stale PROVE CommandScoped(rustc_run[c], c)
    BY <1>1, <2>1, <2>2, CommandFresh
  <2>3. \A c \in Scripted : runs[c] > 0 => EnvScoped(script_env[c], c)
    BY <1>1 DEF WrapInv
  <2> QED
    BY <2>2, <2>3 DEF FlagsScoped
<1> QED
  BY <1>1, WrapInvariant, PTL
=============================================================================
