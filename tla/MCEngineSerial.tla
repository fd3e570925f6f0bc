--------------------------- MODULE MCEngineSerial ---------------------------
(* The graph of MCEngine: a diamond with a repeated dependency, a cycle of *)
(* two and a node naming an unknown key.                                   *)
EXTENDS EngineSerial

MCInputs == {"a", "b"}
MCDerived == {"gen", "lib", "tgt", "loop", "pool", "bad"}
MCDeps ==
  [k \in MCDerived |->
     CASE k = "gen" -> <<"a", "b">>
       [] k = "lib" -> <<"b", "gen", "b">>
       [] k = "tgt" -> <<"gen", "lib">>
       [] k = "loop" -> <<"gen", "pool">>
       [] k = "pool" -> <<"loop">>
       [] k = "bad" -> <<"a", "missing">>]

MCCompute(k, dvs) ==
  CASE k = "gen" -> dvs[1] * dvs[2]
    [] k = "lib" -> (dvs[1] + dvs[2]) % 2
    [] k = "tgt" -> (dvs[1] + dvs[2] + 1) % 2
    [] OTHER -> 0

MCInitialInputs == [MCInputs -> {0, 1}]
=============================================================================
