------------------------------ MODULE MCEngine ------------------------------
(* Two siblings under one target that names the first of them twice; gen   *)
(* hides a change of a while b is 0 (firewall).  Plus a node on a cycle    *)
(* and one naming an unknown key.                                          *)
EXTENDS EngineParallel

MCInputs == {"a", "b"}
MCDerived == {"gen", "aux", "tgt", "loop", "bad"}
MCDeps ==
  [k \in MCDerived |->
     CASE k = "gen" -> <<"a", "b">>
       [] k = "aux" -> <<"b", "b">>
       [] k = "tgt" -> <<"gen", "aux", "gen">>
       [] k = "loop" -> <<"b", "loop">>
       [] k = "bad" -> <<"a", "missing">>]

MCCompute(k, dvs) ==
  CASE k = "gen" -> dvs[1] * dvs[2]
    [] k = "aux" -> 1 - dvs[1]
    [] k = "tgt" -> (dvs[1] + dvs[2] + 1) % 2
    [] OTHER -> 0

(* Both inputs 1: every other content is within two edits. *)
MCInitialInputs == {[i \in MCInputs |-> 1]}
=============================================================================
