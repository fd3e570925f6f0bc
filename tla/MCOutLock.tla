----------------------------- MODULE MCOutLock -----------------------------
(* Small instances of OutLock.  Procs is symmetric where no liveness is    *)
(* checked.                                                                *)
EXTENDS OutLock, TLC

=============================================================================
