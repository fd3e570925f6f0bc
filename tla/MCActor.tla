------------------------------ MODULE MCActor ------------------------------
(* Two actions over one source, and the BUILD file; the second target has  *)
(* one of the actions.                                                     *)
EXTENDS Actor

MCActs == {"x.o", "y.o"}
MCLeafOf == [a \in MCActs |-> "x.c"]
MCTokens == {"all", "y"}
MCActsOf == [t \in MCTokens |-> IF t = "all" THEN MCActs ELSE {"y.o"}]
=============================================================================
