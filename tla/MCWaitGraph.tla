---------------------------- MODULE MCWaitGraph ----------------------------
(* Small workspaces for the wait graph.                                    *)
EXTENDS WaitGraph

CONSTANTS Pair,  \* two of the workers
          pkgP, pkgQ, pkgR, modB, u1, t1, u2, t2, u3, t3

MCPkgOf ==
  [d \in {u1, t1, u2, t2, u3, t3} |->
     CASE d \in {u1, t1} -> pkgP [] d \in {u2, t2} -> pkgQ [] OTHER -> pkgR]

(* The workspace of tests/sched_seam.rs (restart to parity), with a third  *)
(* package: each declares a user of the next one's last target, and all    *)
(* load one module.                                                        *)
RingProgram ==
  [x \in {pkgP, pkgQ, pkgR, modB, u1, t1, u2, t2, u3, t3} |->
     CASE x = pkgP -> <<Load(modB), Declare(u1), Declare(t1)>>
       [] x = pkgQ -> <<Load(modB), Declare(u2), Declare(t2)>>
       [] x = pkgR -> <<Declare(u3), Declare(t3)>>
       [] x = u1 -> <<Need(t2)>>
       [] x = u2 -> <<Need(t3)>>
       [] x = u3 -> <<Need(t1)>>
       [] OTHER -> <<>>]

(* A module that loads a package that loads the module (select() in a      *)
(* module evaluates a condition of that package), and a declaration that   *)
(* needs itself.                                                           *)
CycleProgram ==
  [RingProgram EXCEPT ![modB] = <<Load(pkgP)>>, ![u1] = <<>>, ![u2] = <<Need(t1)>>,
                      ![u3] = <<Need(u3)>>]

(* No cycle: q uses p, r uses q. *)
ChainProgram ==
  [RingProgram EXCEPT ![u1] = <<>>, ![u2] = <<Need(t1)>>, ![u3] = <<Need(t2)>>]

MCEntries == <<pkgP, pkgQ, pkgR>>

(* The ring with three workers; the chain with failures and a timeout; the *)
(* cycle with a module that may fail.                                      *)
MCWorkspaces ==
  {[program |-> RingProgram, may_fail |-> {}, timeouts |-> FALSE, pool |-> Workers],
   [program |-> ChainProgram, may_fail |-> {t1, pkgP, modB}, timeouts |-> TRUE, pool |-> Pair],
   [program |-> CycleProgram, may_fail |-> {modB}, timeouts |-> FALSE, pool |-> Pair]}
=============================================================================
