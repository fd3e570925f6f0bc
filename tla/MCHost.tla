------------------------------- MODULE MCHost -------------------------------
(***************************************************************************)
(* The grazel host on two small instances.  The scope (Host): two clients  *)
(* in two workspaces dial a scope that is cold, served by a current daemon *)
(* or served by an old one; one workspace is pinned.  The streams (Views): *)
(* two browsers and a `grazel run' client over the daemon that serves.     *)
(* They share no state but the members, whose comings and goings Views     *)
(* has as MembersChange, so a behaviour is about one of them.              *)
(***************************************************************************)
EXTENDS Host, Views

CONSTANTS d0, d1, d2, d3, c1, c2, w1, w2
MCWorkspace == [c \in Clients |-> IF c = c1 THEN w1 ELSE w2]

VARIABLE part

vars == <<part, hostVars, viewVars>>

Init == /\ part \in {"scope", "streams"}
        /\ HostInit /\ (part = "streams" => socket = d1)
        /\ ViewInit /\ (part = "scope" => sole)

InScope(A) == part = "scope" /\ A /\ UNCHANGED <<part, viewVars>>
InStreams(A) == part = "streams" /\ A /\ UNCHANGED <<part, hostVars>>

Next == InScope(HostNext) \/ InStreams(ViewNext)

(* Threads run.  Nothing makes the watchdog, the sweep or a kill happen, nor *)
(* a commit, a change of members or a browser that comes or goes.            *)
Spec == /\ Init /\ [][Next]_vars
        /\ \A d \in Daemons : WF_vars(InScope(DaemonStep(d)))
        /\ \A c \in Clients : WF_vars(InScope(ClientStep(c)))
        /\ \A g \in 1..MaxGen : WF_vars(InStreams(g \in DOMAIN up /\ Upstream(g)))
        /\ \A s \in Subscribers : WF_vars(InStreams(recv(s))) /\ WF_vars(InStreams(Drop(s)))
        /\ \A r \in Runners : WF_vars(InStreams(emit(r)))
=============================================================================
