------------------------------- MODULE Labels -------------------------------
(***************************************************************************)
(* Labels, packages and target patterns: state/paths.rs, labels.rs and     *)
(* patterns.rs of razel-loading.                                           *)
(*                                                                         *)
(* A label is [repo, pkg, name]; repo "" is the main workspace and a       *)
(* package is a sequence of path segments.  A raw label is one as written  *)
(* in a BUILD file: `ext' @r//p:n, `extpkg' @r//p, `bare' @r, `abs' //p:n, *)
(* `abspkg' //p, `here' :n or n.  Fields a form does not write are "" or   *)
(* the empty sequence.                                                     *)
(***************************************************************************)
EXTENDS Naturals, Sequences, SequencesExt

Label(repo, pkg, name) == [repo |-> repo, pkg |-> pkg, name |-> name]
Raw(form, repo, pkg, name) ==
    [form |-> form, repo |-> repo, pkg |-> pkg, name |-> name]
PkgKey(repo, pkg) == [repo |-> repo, pkg |-> pkg]

(* pkg_of: the package of a canonical label, an external one with its repo. *)
pkg_of(l) == PkgKey(l.repo, l.pkg)

(* The expansion of the package shorthand: //a/b is //a/b:b. *)
Shorthand(pkg) == IF pkg = <<>> THEN "" ELSE Last(pkg)

(* canon_label_inner: a raw label read inside package here. *)
canon_label_inner(here, r) ==
    CASE r.form = "ext"    -> Label(r.repo, r.pkg, r.name)
      [] r.form = "extpkg" -> Label(r.repo, r.pkg, Shorthand(r.pkg))
      [] r.form = "bare"   -> Label(r.repo, <<>>, r.repo)
      [] r.form = "abs"    -> Label(here.repo, r.pkg, r.name)
      [] r.form = "abspkg" -> Label(here.repo, r.pkg, Shorthand(r.pkg))
      [] r.form = "here"   -> Label(here.repo, here.pkg, r.name)

(* canonicalize_crate_repo: lock maps the repo names it defines, apparent   *)
(* and canonical alike, to the canonical one; other repos stay.             *)
canonicalize_crate_repo(lock, l) ==
    IF l.repo # "" /\ l.repo \in DOMAIN lock THEN [l EXCEPT !.repo = lock[l.repo]] ELSE l

canon_label(lock, here, r) == canonicalize_crate_repo(lock, canon_label_inner(here, r))

-----------------------------------------------------------------------------
(* Patterns: [repo, pkg, form, name] with form `rec' (//p/...), `all',      *)
(* `star' (:* and :all-targets) or `one'.                                   *)

Pattern(repo, pkg, form, name) == [repo |-> repo, pkg |-> pkg, form |-> form, name |-> name]

SkippedDirs == {"external", "node_modules", "target", "bazel-bin", "razel-bin", ".git"}

(* discover_packages: the directories with a BUILD file that a walk from    *)
(* the root reaches without entering a skipped directory.                   *)
discover_packages(buildDirs) ==
    {d \in buildDirs : \A i \in DOMAIN d : d[i] \notin SkippedDirs}

(* The packages a wildcard selects among the discovered ones. *)
Selected(p, pkgs) == {d \in pkgs : IF p.form = "rec" THEN IsPrefix(p.pkg, d) ELSE d = p.pkg}

(* packages_for_pattern: [ok, pkgs].  A concrete pattern is not looked up;   *)
(* a wildcard that selects nothing and a recursive external one are errors. *)
packages_for_pattern(buildDirs, p) ==
    LET found == {PkgKey("", d) : d \in Selected(p, discover_packages(buildDirs))}
    IN  CASE p.repo # "" /\ p.form = "rec" -> [ok |-> FALSE, pkgs |-> {}]
          [] p.repo # "" \/ p.form \in {"one", "star"} ->
                 [ok |-> TRUE, pkgs |-> {PkgKey(p.repo, p.pkg)}]
          [] OTHER -> [ok |-> found # {}, pkgs |-> found]
=============================================================================
