----------------------------- MODULE MCLoading -----------------------------
(***************************************************************************)
(* What is done with loaded packages: a query over their graph (Query) and *)
(* the analysis of their targets (Analysis), on the small workspaces of    *)
(* MCQuery and MCAnalysis.  A command does one or the other, so a          *)
(* behaviour is about one of them and leaves the other where it starts.    *)
(***************************************************************************)
EXTENDS MCQuery, MCAnalysis

VARIABLE command

vars == <<command, queryVars, analysisVars>>

Init ==
    /\ command \in {"query", "build"}
    /\ IF command = "query" THEN QueryInit
       ELSE /\ ws = CHOOSE w \in QueryWorkspaces : TRUE
            /\ mode = "none" /\ asked = NoTree /\ tokens = <<>> /\ stage = "new" /\ tree = NoTree
            /\ attempted = {} /\ loaded = {} /\ round = 0 /\ answer = EvalErr /\ shown = {}
    /\ IF command = "build" THEN AnalysisInit
       ELSE /\ build = CHOOSE w \in Workspaces : TRUE
            /\ sess = [rows |-> <<>>, ran |-> <<>>] /\ todo = CHOOSE r \in Requests : TRUE
            /\ loads = <<>> /\ entry = <<>> /\ analyzing = <<>> /\ report = <<>>

Next == \/ command = "query" /\ QueryNext /\ UNCHANGED <<command, analysisVars>>
        \/ command = "build" /\ AnalysisNext /\ UNCHANGED <<command, queryVars>>
Spec == Init /\ [][Next]_vars
=============================================================================
