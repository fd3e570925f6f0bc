------------------------------ MODULE MCClient ------------------------------
(* Two razel processes, three daemon processes, the default socket and one  *)
(* given by --socket.                                                       *)
EXTENDS Client
Cmd(v, m, s, e) == [verb |-> v, mode |-> m, sock |-> s, expunge |-> e]
AllButExpunge == {Cmd("build", "default", "default", FALSE), Cmd("build", "daemon", "default", FALSE),
                  Cmd("build", "default", "named", FALSE), Cmd("build", "batch", "default", FALSE),
                  Cmd("test", "default", "default", FALSE), Cmd("shutdown", "default", "default", FALSE),
                  Cmd("clean", "default", "default", FALSE)}
WithExpunge == {Cmd("build", "default", "default", FALSE), Cmd("many", "default", "default", FALSE), Cmd("clean", "default", "default", TRUE)}
OneBuild == [c \in Clients |-> "new"]
TwoSockets == {"default", "named"}
=============================================================================
