-------------------------------- MODULE Host --------------------------------
(***************************************************************************)
(* A grazel scope: the daemons that serve it (daemon.rs) and the clients   *)
(* that dial it, starting a daemon when none answers (dial.rs).  They meet *)
(* in the file system: the socket path, daemon.json, launch.lock, the      *)
(* member files and the writer lock of each workspace, which is taken as   *)
(* one step here (OutLock has the steps inside).                           *)
(*                                                                         *)
(* Time is left out: a member may idle out and the watchdog may find the   *)
(* scope idle at any moment.  A client loses patience only when no daemon  *)
(* is starting: a start is assumed to take less than the ten seconds the   *)
(* client waits.                                                           *)
(***************************************************************************)
EXTENDS Naturals, FiniteSets

CONSTANTS Daemons, Clients, Roots, NoOne,
          Workspace,   \* client -> the root it works in
          Pinned,      \* roots named by scope.rc
          Old,         \* daemons that advertise another wire protocol
          Manual,      \* daemons started by hand, with --idle-timeout; a dial passes none
          Autostart,   \* clients without --no_autostart
          MaxKills     \* bound on processes killed

ASSUME HostAssumption ==
    /\ NoOne \notin Daemons \cup Clients
    /\ Pinned \subseteq Roots /\ Manual \subseteq Daemons
    /\ Workspace \in [Clients -> Roots] /\ MaxKills \in Nat

(* A client starts its own program, and without the variable that fakes     *)
(* another protocol: an old daemon was started by hand.                     *)
ASSUME LaunchAssumption == Old \subseteq Manual

VARIABLES st,        \* daemon -> unborn, json, pinned, bind, serving, exiting, gone
          members,   \* daemon -> the roots it has open
          busy,      \* daemon -> the client whose one-shot request holds the members mutex
          socket,    \* whose socket is bound at the scope's path
          djson,     \* whose pid daemon.json records
          launching, \* launch.lock exists
          mfiles,    \* roots with a member file
          holder,    \* root -> the daemon whose pid its writer lock names
          pc, conn, got,  \* client -> control point, daemon connected to, last reply
          dial,      \* client -> first, restarted (after a mismatch) or launched
          before,    \* client -> ends when its dial began
          kills,     \* processes killed
          ends       \* daemons killed or idled out

hostVars == <<st, members, busy, socket, djson, launching, mfiles, holder, pc, conn, got, dial, before, kills, ends>>
fs == <<socket, djson, launching, mfiles, holder>>

Alive(d) == d # NoOne /\ st[d] \notin {"unborn", "gone"}

HostInit ==
    /\ \E d \in Manual \cup {NoOne} :       \* cold, or one daemon already serves
           /\ st = [x \in Daemons |-> IF x = d THEN "serving" ELSE "unborn"]
           /\ socket = d /\ djson = d
           /\ members = [x \in Daemons |-> IF x = d THEN Pinned ELSE {}]
           /\ mfiles = IF d = NoOne THEN {} ELSE Pinned
           /\ holder = [r \in Roots |-> IF r \in Pinned THEN d ELSE NoOne]
    /\ busy = [d \in Daemons |-> NoOne]
    /\ launching = FALSE
    /\ pc = [c \in Clients |-> "idle"] /\ conn = [c \in Clients |-> NoOne]
    /\ got = [c \in Clients |-> "none"] /\ dial = [c \in Clients |-> "first"]
    /\ before = [c \in Clients |-> 0] /\ kills = 0 /\ ends = 0

Go(c, to) == pc' = [pc EXCEPT ![c] = to]

-----------------------------------------------------------------------------
(* The daemon. *)

(* Plausible bug: the lock of a dead holder is respected. *)
CanLockIfFree(d, r) == holder[r] \in {d, NoOne}

(* acquire of the root's writer lock: it fails while its holder lives. *)
CanLock(d, r) == holder[r] = d \/ ~Alive(holder[r])

(* Plausible bug: the member is opened whatever the lock says. *)
open_member_unlocked(d, R) ==
    /\ members' = [members EXCEPT ![d] = @ \cup R]
    /\ holder' = [r \in Roots |-> IF r \in R THEN d ELSE holder[r]]
    /\ mfiles' = mfiles \cup R

(* open_member for the roots R, the lock first, then the member file. *)
open_member(d, R) ==
    /\ \A r \in R \ members[d] : CanLock(d, r)
    /\ members' = [members EXCEPT ![d] = @ \cup R]
    /\ holder' = [r \in Roots |-> IF r \in R \ members[d] THEN d ELSE holder[r]]
    /\ mfiles' = mfiles \cup R

(* close_member: dropping the member releases its lock if it is still ours. *)
close_member(d, R) ==
    /\ members' = [members EXCEPT ![d] = @ \ R]
    /\ mfiles' = mfiles \ R
    /\ holder' = [r \in Roots |-> IF r \in R /\ holder[r] = d THEN NoOne ELSE holder[r]]

(* run: daemon.json, the pinned workspaces, then the socket. *)
RecordPid(d) ==
    /\ st[d] = "json"
    /\ djson' = d /\ st' = [st EXCEPT ![d] = "pinned"]
    /\ UNCHANGED <<members, busy, socket, launching, mfiles, holder, pc, conn, got, dial, before, kills, ends>>

OpenPinned(d) ==
    /\ st[d] = "pinned"
    /\ \/ open_member(d, Pinned) /\ st' = [st EXCEPT ![d] = "bind"]
       \/ /\ \E r \in Pinned : ~CanLock(d, r)      \* run returns an error
          /\ st' = [st EXCEPT ![d] = "gone"]
          /\ UNCHANGED <<members, mfiles, holder>>
    /\ UNCHANGED <<busy, socket, djson, launching, pc, conn, got, dial, before, kills, ends>>

(* transport::bind replaces whatever is at the path. *)
Bind(d) ==
    /\ st[d] = "bind"
    /\ socket' = d /\ st' = [st EXCEPT ![d] = "serving"]
    /\ UNCHANGED <<members, busy, djson, launching, mfiles, holder, pc, conn, got, dial, before, kills, ends>>

(* hello: the member is opened only for a client of this protocol; every     *)
(* request waits for the members mutex.                                      *)
Hello(d, c) ==
    /\ pc[c] = "asked" /\ conn[c] = d /\ Alive(d) /\ busy[d] = NoOne
    /\ \/ /\ d \in Old
          /\ got' = [got EXCEPT ![c] = "mismatch"] /\ UNCHANGED <<members, holder, mfiles>>
       \/ /\ d \notin Old /\ open_member(d, {Workspace[c]})
          /\ got' = [got EXCEPT ![c] = "ok"]
       \/ /\ d \notin Old /\ Workspace[c] \notin members[d] /\ ~CanLock(d, Workspace[c])
          /\ got' = [got EXCEPT ![c] = "rejected"] /\ UNCHANGED <<members, holder, mfiles>>
    /\ conn' = [conn EXCEPT ![c] = NoOne] /\ Go(c, "answered")
    /\ UNCHANGED <<st, busy, socket, djson, launching, dial, before, kills, ends>>

(* respond, any other method: the sole member's server runs it, with the     *)
(* mutex held until it returns.                                              *)
Dispatch(d, c) ==
    /\ pc[c] = "called" /\ conn[c] = d /\ Alive(d) /\ busy[d] = NoOne
    /\ IF Cardinality(members[d]) = 1
       THEN busy' = [busy EXCEPT ![d] = c] /\ UNCHANGED <<pc, conn, got>>
       ELSE /\ busy' = busy /\ conn' = [conn EXCEPT ![c] = NoOne]
            /\ got' = [got EXCEPT ![c] = "error"] /\ Go(c, "ended")
    /\ UNCHANGED <<st, members, fs, dial, before, kills, ends>>

(* Plausible bug: the mutex is not released. *)
ReturnHolding(d, c) ==
    /\ busy[d] = c /\ Alive(d) /\ pc[c] = "called"
    /\ conn' = [conn EXCEPT ![c] = NoOne]
    /\ got' = [got EXCEPT ![c] = "built"] /\ Go(c, "ended")
    /\ UNCHANGED <<st, members, busy, fs, dial, before, kills, ends>>

Return(d, c) ==
    /\ busy[d] = c /\ Alive(d)
    /\ busy' = [busy EXCEPT ![d] = NoOne] /\ conn' = [conn EXCEPT ![c] = NoOne]
    /\ got' = [got EXCEPT ![c] = "built"] /\ Go(c, "ended")
    /\ UNCHANGED <<st, members, fs, dial, before, kills, ends>>

(* sweep_members *)
Sweep(d, r) ==
    /\ st[d] = "serving" /\ busy[d] = NoOne /\ r \in members[d] \ Pinned
    /\ close_member(d, {r})
    /\ UNCHANGED <<st, busy, socket, djson, launching, pc, conn, got, dial, before, kills, ends>>

(* The shutdown request, and the idle watchdog: it looks at the connections  *)
(* and decides; the exit itself waits for the mutex.                         *)
Active(d) == {c \in Clients : conn[c] = d}

Shutdown(d, c) ==
    /\ pc[c] = "stopping" /\ conn[c] = d /\ Alive(d)
    /\ st' = [st EXCEPT ![d] = "exiting"] /\ conn' = [conn EXCEPT ![c] = NoOne] /\ Go(c, "clearing")
    /\ UNCHANGED <<members, busy, fs, got, dial, before, kills, ends>>

Watchdog(d) ==
    /\ d \in Manual /\ st[d] = "serving" /\ Active(d) = {}
    /\ st' = [st EXCEPT ![d] = "exiting"]
    /\ UNCHANGED <<members, busy, fs, pc, conn, got, dial, before, kills, ends>>

(* cleanup_and_exit: the socket path and daemon.json go, whoever's they are. *)
Exit(d) ==
    /\ st[d] = "exiting" /\ busy[d] = NoOne
    /\ close_member(d, members[d])
    /\ socket' = NoOne /\ djson' = NoOne /\ st' = [st EXCEPT ![d] = "gone"]
    /\ ends' = IF \E c \in Clients : pc[c] = "clearing" THEN ends ELSE ends + 1
    /\ UNCHANGED <<busy, launching, pc, conn, got, dial, before, kills>>

Kill(d) ==
    /\ Alive(d) /\ kills < MaxKills
    /\ st' = [st EXCEPT ![d] = "gone"] /\ kills' = kills + 1 /\ ends' = ends + 1
    /\ members' = [members EXCEPT ![d] = {}] /\ busy' = [busy EXCEPT ![d] = NoOne]
    /\ UNCHANGED <<fs, pc, conn, got, dial, before>>

-----------------------------------------------------------------------------
(* The client. *)

Connects == socket # NoOne /\ st[socket] \in {"serving", "exiting"}

(* try_hello, from ensure (idle) and from hello_or_fail (again). *)
TryHello(c) ==
    /\ pc[c] \in {"idle", "again"}
    /\ IF Connects THEN conn' = [conn EXCEPT ![c] = socket] /\ Go(c, "asked") /\ UNCHANGED got
       ELSE /\ pc[c] = "idle" \* hello_or_fail sleeps and tries again
            /\ UNCHANGED conn /\ got' = [got EXCEPT ![c] = "refused"] /\ Go(c, "answered")
    /\ before' = IF pc[c] = "idle" THEN [before EXCEPT ![c] = ends] ELSE before
    /\ UNCHANGED <<st, members, busy, fs, dial, kills, ends>>

(* The daemon went away under the connection. *)
Lost(c) ==
    /\ conn[c] # NoOne /\ ~Alive(conn[c])
    /\ conn' = [conn EXCEPT ![c] = NoOne]
    /\ got' = [got EXCEPT ![c] = "refused"]
    /\ Go(c, CASE pc[c] = "asked" -> "answered" [] pc[c] = "stopping" -> "launch" [] OTHER -> "ended")
    /\ UNCHANGED <<st, members, busy, fs, dial, before, kills, ends>>

(* ensure on the reply to its first hello; hello_or_fail on later ones,      *)
(* where a refusal is retried.                                               *)
Decide(c) ==
    /\ pc[c] = "answered"
    /\ LET first == dial[c] = "first"
           pid == IF djson = NoOne THEN "failed" ELSE "ready"   \* the outcome reports daemon.json's pid
           to == CASE got[c] = "ok"       -> pid
                   [] got[c] = "rejected" -> "failed"
                   [] got[c] = "mismatch" ->
                        IF first /\ c \in Autostart THEN "stop" ELSE IF dial[c] = "launched" THEN pid ELSE "failed"
                   [] got[c] = "refused" /\ first ->
                        IF (Alive(djson) /\ socket # NoOne) \/ c \notin Autostart THEN "failed" ELSE "clean"
                   [] got[c] = "refused" /\ ~first -> "again"
       IN  Go(c, to) /\ dial' = [dial EXCEPT ![c] = CASE to = "stop" -> "restarted" [] to = "clean" -> "launched" [] OTHER -> @]
    /\ UNCHANGED <<st, members, busy, fs, conn, got, before, kills, ends>>

(* stop: nothing to do without a socket; otherwise ask and wait for the path *)
(* to clear.                                                                 *)
Stop(c) ==
    /\ pc[c] = "stop"
    /\ IF Connects THEN conn' = [conn EXCEPT ![c] = socket] /\ Go(c, "stopping")
       ELSE Go(c, "launch") /\ UNCHANGED conn
    /\ UNCHANGED <<st, members, busy, fs, got, dial, before, kills, ends>>

Cleared(c) ==
    /\ pc[c] = "clearing" /\ socket = NoOne /\ Go(c, "launch")
    /\ UNCHANGED <<st, members, busy, fs, conn, got, dial, before, kills, ends>>

RemoveSocket(c) ==
    /\ pc[c] = "clean" /\ socket' = NoOne /\ Go(c, "launch")
    /\ UNCHANGED <<st, members, busy, djson, launching, mfiles, holder, conn, got, dial, before, kills, ends>>

(* launch *)
LockLaunch(c) ==
    /\ pc[c] = "launch"
    /\ IF launching THEN Go(c, "ride") /\ UNCHANGED launching
       ELSE Go(c, "spawn") /\ launching' = TRUE
    /\ UNCHANGED <<st, members, busy, socket, djson, mfiles, holder, conn, got, dial, before, kills, ends>>

Spawn(c) ==
    /\ pc[c] = "spawn" /\ Go(c, "unlock")
    /\ \E d \in Daemons \ Manual : st[d] = "unborn" /\ st' = [st EXCEPT ![d] = "json"]
    /\ UNCHANGED <<members, busy, fs, conn, got, dial, before, kills, ends>>

UnlockLaunch(c) ==
    /\ pc[c] = "unlock" /\ launching' = FALSE /\ Go(c, "again")
    /\ UNCHANGED <<st, members, busy, socket, djson, mfiles, holder, conn, got, dial, before, kills, ends>>

Ride(c) ==
    /\ pc[c] = "ride" /\ Alive(djson) /\ socket # NoOne /\ Go(c, "again")
    /\ UNCHANGED <<st, members, busy, fs, conn, got, dial, before, kills, ends>>

(* The waits that run out: for a competing launch, for hello, for shutdown. *)
Starting == \/ \E d \in Daemons : st[d] \in {"json", "pinned", "bind"}
            \/ \E c \in Clients : pc[c] \in {"spawn", "unlock"}
GiveUp(c) ==
    /\ \/ pc[c] = "ride" /\ ~Starting /\ (~Alive(djson) \/ socket = NoOne)
       \/ pc[c] = "again" /\ ~Starting /\ ~Connects
       \/ pc[c] = "clearing" /\ socket # NoOne /\ \A d \in Daemons : st[d] = "exiting" => busy[d] # NoOne
    /\ Go(c, "failed")
    /\ UNCHANGED <<st, members, busy, fs, conn, got, dial, before, kills, ends>>

(* A launcher killed while it holds launch.lock leaves it behind. *)
KillClient(c) ==
    /\ pc[c] \in {"spawn", "unlock"} /\ kills < MaxKills /\ kills' = kills + 1 /\ Go(c, "killed")
    /\ UNCHANGED <<st, members, busy, fs, conn, got, dial, before, ends>>

(* After the dial, one request over the socket. *)
Call(c) ==
    /\ pc[c] = "ready"
    /\ IF Connects THEN conn' = [conn EXCEPT ![c] = socket] /\ Go(c, "called")
       ELSE Go(c, "ended") /\ UNCHANGED conn
    /\ UNCHANGED <<st, members, busy, fs, got, dial, before, kills, ends>>

DaemonStep(d) ==
    \/ RecordPid(d) \/ OpenPinned(d) \/ Bind(d) \/ Exit(d)
    \/ \E c \in Clients : Hello(d, c) \/ Dispatch(d, c) \/ Return(d, c) \/ Shutdown(d, c)
ClientStep(c) ==
    \/ TryHello(c) \/ Lost(c) \/ Decide(c) \/ Stop(c) \/ Cleared(c) \/ RemoveSocket(c) \/ LockLaunch(c)
    \/ Spawn(c) \/ UnlockLaunch(c) \/ Ride(c) \/ GiveUp(c) \/ Call(c)
Environment ==
    \/ \E d \in Daemons : Watchdog(d) \/ Kill(d) \/ \E r \in Roots : Sweep(d, r)
    \/ \E c \in Clients : KillClient(c)

HostNext == (\E d \in Daemons : DaemonStep(d)) \/ (\E c \in Clients : ClientStep(c)) \/ Environment

-----------------------------------------------------------------------------
TypeOK ==
    /\ st \in [Daemons -> {"unborn", "json", "pinned", "bind", "serving", "exiting", "gone"}]
    /\ members \in [Daemons -> SUBSET Roots] /\ busy \in [Daemons -> Clients \cup {NoOne}]
    /\ {socket, djson} \subseteq Daemons \cup {NoOne} /\ launching \in BOOLEAN
    /\ mfiles \subseteq Roots /\ holder \in [Roots -> Daemons \cup {NoOne}]
    /\ conn \in [Clients -> Daemons \cup {NoOne}] /\ kills \in 0..MaxKills

(* A workspace is a member of one living daemon at most, whatever daemons   *)
(* race, are killed or idle out, and that daemon holds its writer lock      *)
(* (daemon.rs: open_member, close_member, sweep_members).                   *)
MembersExclusive ==
    \A d \in Daemons : Alive(d) => \A r \in members[d] : holder[r] = d

(* Unless a process was killed, a workspace nobody has open is unlocked and *)
(* has no member file, and a socket at the path is one a living daemon      *)
(* answers ("a live socket always means a live pid", cleanup_and_exit).     *)
NothingLeftBehind ==
    kills = 0 =>
        /\ socket # NoOne => Alive(socket)
        /\ \A r \in Roots : holder[r] = NoOne \/ (Alive(holder[r]) /\ r \in members[holder[r]])
        /\ mfiles = UNION {members[d] : d \in Daemons}

(* Members, writer locks, member files and socket of a scope agree with the *)
(* daemons that live (open_member, close_member, cleanup_and_exit).         *)
MembersTrue == TypeOK /\ MembersExclusive /\ NothingLeftBehind

Dialling(c) == pc[c] \notin {"idle", "ended", "failed", "killed"}

(* Every dial ends, with a daemon or an error: the launch lock, the members *)
(* mutex held through a build, and a daemon that dies under a connection     *)
(* never leave a client waiting for good (ensure, launch, hello_or_fail).   *)
DialEnds == (\E c \in Clients : Dialling(c)) ~> (\A c \in Clients : ~Dialling(c))

(* A dial that runs alone fails only when a daemon is killed or idles out   *)
(* under it: the socket, daemon.json and writer locks that a daemon killed  *)
(* earlier left behind do not stop it                                       *)
(* ("on stale socket (refused + dead pid) clean and autostart").            *)
StaleRecovered ==
    \A c \in Clients \cap Autostart :
        pc[c] = "failed" /\ (\A o \in Clients \ {c} : pc[o] = "idle") => ends > before[c]
=============================================================================
