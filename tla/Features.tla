------------------------------ MODULE Features -----------------------------
(***************************************************************************)
(* The cc feature interpreter (razel-rulepack/src/constrain.rs): which     *)
(* features of a toolchain a request enables. `select` is a pure function  *)
(* of three loops; here each pass over the names is taken as steps, since  *)
(* what a pass removes changes what the names after it find.               *)
(*                                                                         *)
(* A feature is [name, enabled, implies, requires, flag_sets].             *)
(***************************************************************************)
EXTENDS Integers, Sequences, FiniteSets, SequencesExt

CONSTANTS Toolchains, \* toolchain configs: [features, action_configs]
          Requestable \* feature names a rule may ask for

VARIABLES toolchain, requested,
          stage,   \* "seed", "imply", "require", "done"
          enabled, \* the names held so far
          pass,    \* what the pass over the names has still to look at
          removed  \* whether this pass has removed a name
selectVars == <<toolchain, requested, stage, enabled, pass, removed>>

Names(cfg) == {cfg.features[i].name : i \in DOMAIN cfg.features}
get(cfg, n) == cfg.features[CHOOSE i \in DOMAIN cfg.features : cfg.features[i].name = n]

\* Every requirement of a feature names a set with a member that is not held.
Unmet(cfg, n, on) ==
  /\ n \in Names(cfg) /\ get(cfg, n).requires # {}
  /\ \A set \in get(cfg, n).requires : ~(set \subseteq on)

SelectInit == /\ toolchain \in Toolchains
              /\ requested \in SUBSET Requestable
              /\ stage = "seed" /\ enabled = {} /\ pass = {} /\ removed = FALSE

\* The defaults, and the names of the request the toolchain knows.
Seeds == {n \in Names(toolchain) : get(toolchain, n).enabled} \cup (requested \cap Names(toolchain))
Seed == /\ stage = "seed"
        /\ stage' = "imply" /\ enabled' = Seeds
        /\ UNCHANGED <<toolchain, requested, pass, removed>>

\* One pass over the names held when it starts, until a pass adds nothing. An
\* implied name the toolchain does not define stays in the set.
Imply ==
  LET more == UNION {get(toolchain, n).implies : n \in enabled \cap Names(toolchain)}
  IN /\ stage = "imply"
     /\ \/ /\ ~(more \subseteq enabled)
           /\ enabled' = enabled \cup more
           /\ UNCHANGED <<stage, pass>>
        \/ /\ more \subseteq enabled
           /\ stage' = "require" /\ pass' = enabled
           /\ UNCHANGED enabled
     /\ UNCHANGED <<toolchain, requested, removed>>

\* One name of the pass: it goes when its requirements are not met by what is
\* held at that moment. The code goes by name; any order is allowed here.
Look(n) ==
  /\ stage = "require" /\ n \in pass
  /\ pass' = pass \ {n}
  /\ IF Unmet(toolchain, n, enabled)
     THEN enabled' = enabled \ {n} /\ removed' = TRUE
     ELSE UNCHANGED <<enabled, removed>>
  /\ UNCHANGED <<toolchain, requested, stage>>

\* A pass that removed a name is followed by another.
PassEnds_once == removed' = FALSE /\ stage' = "done" /\ UNCHANGED pass
PassEnds == /\ removed' = FALSE
            /\ \/ removed /\ pass' = enabled /\ UNCHANGED stage
               \/ ~removed /\ stage' = "done" /\ UNCHANGED pass
EndPass == /\ stage = "require" /\ pass = {}
           /\ PassEnds
           /\ UNCHANGED <<toolchain, requested, enabled>>

SelectNext == Seed \/ Imply \/ (\E n \in pass : Look(n)) \/ EndPass

-----------------------------------------------------------------------------
\* Reference: a name is wanted when every set that has the seeds and what its
\* members imply has it; a set holds when each requirement in it is met in it.
Universe(cfg) == Names(cfg) \cup UNION {get(cfg, n).implies : n \in Names(cfg)}
Closed(cfg, S) == \A n \in S \cap Names(cfg) : get(cfg, n).implies \subseteq S
Wanted(cfg, seeds) ==
  {n \in Universe(cfg) : \A S \in SUBSET Universe(cfg) : seeds \subseteq S /\ Closed(cfg, S) => n \in S}
Holds(cfg, S) == \A n \in S : ~Unmet(cfg, n, S)

\* The enabled features are the largest set of wanted names that holds: removing
\* features one by one, in whatever order, must not take one too many or leave
\* one whose requirement went after it was looked at.
SelectedIsLargest ==
  stage = "done" => enabled = UNION {S \in SUBSET Wanted(toolchain, Seeds) : Holds(toolchain, S)}
=============================================================================
