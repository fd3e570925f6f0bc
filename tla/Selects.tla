------------------------------- MODULE Selects -------------------------------
(***************************************************************************)
(* Configuration conditions and select(): selects.rs, the ConfigSpec half  *)
(* of state/flags.rs, the platform answers of host.rs and the attribute    *)
(* parts of values.rs.                                                     *)
(*                                                                         *)
(* s is the Session: s.flags the build's configuration, s.specs the        *)
(* config_settings declared so far, s.aliases the aliases recorded so far, *)
(* s.pkgs the state of each package ("no", "loading", "done", "error").    *)
(* An answer may be "load": the condition's package has to be loaded       *)
(* first, and the question is then asked again with that label as `probe'. *)
(***************************************************************************)
EXTENDS Labels, FiniteSets

(* The member of a set of one. *)
Only(S) == CHOOSE x \in S : TRUE

Setting(values, defines, constraints) ==
    [values |-> values, define_values |-> defines, constraint_values |-> constraints,
     group |-> <<>>, all |-> FALSE, unmodeled |-> FALSE]
Plain == Setting({}, {}, {})
Unmodeled == [Plain EXCEPT !.unmodeled = TRUE]
Group(all, members) == [Plain EXCEPT !.group = members, !.all = all]

FalseRepos == {"local_config_cuda", "local_config_rocm", "local_config_sycl", "local_config_tensorrt"}

(* host_constraint_matches: the os and cpu families match the real host; a  *)
(* family is the last segment of the package, whatever stands before it.    *)
host_constraint_matches(flags, l) ==
    /\ l.pkg # <<>>
    /\ \/ Last(l.pkg) = "os" /\ l.name \in flags.os
       \/ Last(l.pkg) = "cpu" /\ l.name \in flags.cpu

(* platform_condition_matches answers only for platforms and rust triples. *)
IsPlatform(l) == l.repo = "platforms" \/ (l.repo = "rules_rust" /\ l.pkg = <<"rust", "platform">>)
platform_condition_matches(flags, l) ==
    IF l.repo = "platforms" THEN host_constraint_matches(flags, l) ELSE l.name = flags.triple

(* ConfigSpec::matches: a value is <<key, want>>; a key outside these never matches. *)
ValueHolds(flags, v) ==
    \/ v[1] = "compilation_mode" /\ v[2] = flags.mode
    \/ v[1] = "define" /\ v[2] \in flags.defines
    \/ v[1] = "cpu" /\ v[2] = flags.cpuName
matches(flags, spec) ==
    /\ \A v \in spec.values : ValueHolds(flags, v)
    /\ spec.define_values \subseteq flags.defines
    /\ \A c \in spec.constraint_values :
           c.repo = "platforms" /\ host_constraint_matches(flags, c)

(* constraints: what specialization compares.  constraint_values, groups    *)
(* and platform labels contribute nothing to it.                            *)
constraints(spec) ==
    {<<"v", v>> : v \in spec.values} \cup {<<"d", d>> : d \in spec.define_values}

Answer(st, of) == [st |-> st, of |-> of]
Holds(b) == Answer(IF b THEN "yes" ELSE "no", <<>>)

(* condition_matches.  After the load it asked for, the code  *)
(* goes on with loads forbidden, for aliases and group members too.         *)
RECURSIVE condition_matches(_, _, _, _, _), GroupMatches(_, _, _, _, _)
condition_matches(s, l, allow_load, probe, fuel) ==
    LET allow == allow_load /\ probe # <<l>>
    IN
    IF fuel = 0 THEN Answer("error", <<l>>)
    ELSE IF l \in DOMAIN s.aliases
         THEN condition_matches(s, s.aliases[l], allow, probe, fuel - 1)
    ELSE IF l.repo \in FalseRepos THEN Holds(FALSE)
    ELSE IF l \in DOMAIN s.specs
         THEN LET spec == s.specs[l]
              IN  IF spec.unmodeled THEN Holds(FALSE)
                  ELSE IF spec.group # <<>> THEN GroupMatches(s, spec, allow, probe, fuel)
                  ELSE Holds(matches(s.flags, spec))
    ELSE IF IsPlatform(l) THEN Holds(platform_condition_matches(s.flags, l))
    ELSE IF ~allow
         THEN Answer(IF probe = <<l>> /\ s.pkgs[pkg_of(l)] = "error" THEN "error" ELSE "undeclared", <<l>>)
    ELSE CASE s.pkgs[pkg_of(l)] = "no"    -> Answer("load", <<l>>)
           [] s.pkgs[pkg_of(l)] = "error" -> Answer("error", <<l>>)
           [] OTHER                       -> Answer("undeclared", <<l>>)
GroupMatches(s, spec, allow, probe, fuel) ==
    IF spec.group = <<>> THEN Holds(spec.all)
    ELSE LET a == condition_matches(s, Head(spec.group), allow, probe, fuel - 1)
         IN  CASE a.st = "yes" /\ ~spec.all -> a
               [] a.st = "no" /\ spec.all   -> a
               [] a.st \in {"yes", "no"}    ->
                      GroupMatches(s, [spec EXCEPT !.group = Tail(@)], allow, probe, fuel)
               [] a.st = "undeclared" /\ allow -> Answer("error", a.of)
               [] OTHER -> a

(* deref_spec: the setting behind a condition label, empty when there is none. *)
RECURSIVE deref_spec(_, _, _)
deref_spec(s, l, fuel) ==
    IF fuel > 0 /\ l \in DOMAIN s.aliases THEN deref_spec(s, s.aliases[l], fuel - 1)
    ELSE IF l \in DOMAIN s.specs THEN s.specs[l] ELSE Plain

-----------------------------------------------------------------------------
(* A select is a sequence of branches [key, vals]; key <<>> is              *)
(* //conditions:default and <<l>> the condition l.                          *)

(* pick_branch: the conditions are asked in order; among those that hold    *)
(* the first of the largest wins, and it must contain every other.          *)
Best(of, held) ==
    {i \in held : \A j \in held :
        /\ of[j] \subseteq of[i]
        /\ of[i] = of[j] => i <= j}
FirstAsk(ask, open) == ask[CHOOSE i \in open : \A j \in open : i <= j]
Chosen(conds, default, ask, open, wins) ==
    CASE open # {} ->
           Only({Answer(IF a.st = "load" THEN "load" ELSE "error", a.of) : a \in {FirstAsk(ask, open)}})
      [] open = {} /\ wins # {} -> Answer("ok", conds[Only(wins)].vals)
      [] OTHER -> IF default = <<>> \/ \E i \in DOMAIN ask : ask[i].st = "yes"
                  THEN Answer("error", <<>>) ELSE Answer("ok", Last(default).vals)
(* A condition whose package is not loaded yet is taken for one that does not hold. *)
Asked_unloaded(s, c, probe) ==
    [i \in DOMAIN c |-> LET a == condition_matches(s, c[i].key[1], TRUE, probe, 16)
                        IN  IF a.st = "load" THEN Holds(FALSE) ELSE a]
Asked(s, c, probe) == [i \in DOMAIN c |-> condition_matches(s, c[i].key[1], TRUE, probe, 16)]
pick_branch(s, branches, probe) ==
    LET In(ask, sts) == {i \in DOMAIN ask : ask[i].st \in sts}
        Of(c) == [i \in DOMAIN c |-> constraints(deref_spec(s, c[i].key[1], 16))]
        Pick(c, d, ask, of) ==
            Only({Chosen(c, d, ask, open, wins) :
                     open \in {DOMAIN ask \ In(ask, {"yes", "no"})}, wins \in {Best(of, In(ask, {"yes"}))}})
    IN  Only(UNION {{Pick(c, d, ask, of) : ask \in {Asked(s, c, probe)}, of \in {Of(c)}} :
                       c \in {SelectSeq(branches, LAMBDA b : b.key # <<>>)},
                       d \in {SelectSeq(branches, LAMBDA b : b.key = <<>>)}})

(* resolve_str_parts: an attribute is a sequence of parts, each a plain     *)
(* sequence of values or a select; parts resolve in order and concatenate.  *)
Values(vals) == [sel |-> FALSE, branches |-> <<>>, vals |-> vals]
Select(branches) == [sel |-> TRUE, branches |-> branches, vals |-> <<>>]
Branch(key, vals) == [key |-> key, vals |-> vals]

RECURSIVE resolve_parts(_, _, _)
resolve_parts(s, parts, probe) ==
    IF parts = <<>> THEN Answer("ok", <<>>)
    ELSE LET First(p) == IF p.sel THEN pick_branch(s, p.branches, probe) ELSE Answer("ok", p.vals)
             Join(a, b) == IF a.st # "ok" THEN a
                           ELSE IF b.st # "ok" THEN b ELSE Answer("ok", a.of \o b.of)
         IN  Only({Join(a, b) : a \in {First(Head(parts))},
                                b \in {resolve_parts(s, Tail(parts), probe)}})
=============================================================================
