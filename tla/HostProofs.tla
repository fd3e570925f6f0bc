----------------------------- MODULE HostProofs -----------------------------
(***************************************************************************)
(* The members of a grazel scope, for any number of daemons, clients and   *)
(* workspaces: a workspace is a member of the one living daemon that its   *)
(* writer lock names, and unless something is killed nothing is left       *)
(* behind.                                                                 *)
(*                                                                         *)
(* MembersTrue is not inductive: it must be known that a daemon opens its  *)
(* first member, is dialled and binds the socket in that order, so that    *)
(* one that gives up before has nothing to leave.                          *)
(*                                                                         *)
(* StaleRecovered follows a dial that runs alone: until it launches there  *)
(* was one daemon, serving or dead; then the one it started is the only    *)
(* one alive and comes up, since a dead holder's lock is taken over.       *)
(*                                                                         *)
(* The streams (Views), for any number of browsers, runs and generations   *)
(* and any bound of the buffers: what a subscriber has and holds is in     *)
(* order and, while it is registered, ends where its key's history ends;   *)
(* and what the history and the upstream hold together is one gapless line *)
(* (for the build state, one of rising revisions).                         *)
(***************************************************************************)
EXTENDS Host, Views, WellFoundedInduction, TLAPS

-----------------------------------------------------------------------------
(* Before it serves a daemon is neither at the socket nor dialled, and     *)
(* before its pinned workspaces are open, or once it is gone, it has no    *)
(* member; a one-shot request runs only in a daemon that serves.           *)
StagesTrue ==
    /\ \A d \in Daemons : st[d] \in {"unborn", "json", "pinned", "gone"} => members[d] = {}
    /\ \A d \in Daemons : st[d] \in {"unborn", "json", "pinned", "bind"} =>
         /\ socket # d /\ busy[d] = NoOne
         /\ \A c \in Clients : conn[c] # d
    /\ \A c \in Clients : conn[c] # NoOne => st[conn[c]] \notin {"unborn", "json", "pinned", "bind"}

HostInv == MembersTrue /\ StagesTrue

HostSpec == HostInit /\ [][HostNext]_hostVars

-----------------------------------------------------------------------------
LEMMA InitHost == HostInit => HostInv
<1> SUFFICES ASSUME HostInit PROVE HostInv
  OBVIOUS
<1> USE HostAssumption
<1>1. PICK d \in Manual \cup {NoOne} :
        /\ st = [x \in Daemons |-> IF x = d THEN "serving" ELSE "unborn"]
        /\ socket = d /\ djson = d
        /\ members = [x \in Daemons |-> IF x = d THEN Pinned ELSE {}]
        /\ mfiles = IF d = NoOne THEN {} ELSE Pinned
        /\ holder = [r \in Roots |-> IF r \in Pinned THEN d ELSE NoOne]
  BY DEF HostInit
<1>2. /\ busy = [x \in Daemons |-> NoOne] /\ launching = FALSE
      /\ conn = [c \in Clients |-> NoOne] /\ kills = 0
  BY DEF HostInit
<1>3. TypeOK
  <2>1. d \in Daemons \cup {NoOne} /\ Pinned \in SUBSET Roots
    OBVIOUS
  <2>2. /\ st \in [Daemons -> {"unborn", "json", "pinned", "bind", "serving", "exiting", "gone"}]
        /\ members \in [Daemons -> SUBSET Roots] /\ holder \in [Roots -> Daemons \cup {NoOne}]
        /\ {socket, djson} \subseteq Daemons \cup {NoOne} /\ mfiles \subseteq Roots
    <3>1. st \in [Daemons -> {"unborn", "json", "pinned", "bind", "serving", "exiting", "gone"}]
      BY <1>1
    <3>2. members \in [Daemons -> SUBSET Roots]
      BY <1>1, <2>1
    <3>3. holder \in [Roots -> Daemons \cup {NoOne}]
      BY <1>1, <2>1
    <3>4. {socket, djson} \subseteq Daemons \cup {NoOne} /\ mfiles \subseteq Roots
      BY <1>1, <2>1
    <3> QED BY <3>1, <3>2, <3>3, <3>4
  <2>3. /\ busy \in [Daemons -> Clients \cup {NoOne}] /\ launching \in BOOLEAN
        /\ conn \in [Clients -> Daemons \cup {NoOne}] /\ kills \in 0..MaxKills
    <3>1. 0 \in 0..MaxKills
      OBVIOUS
    <3> QED BY <1>2, <3>1
  <2> QED BY <2>2, <2>3 DEF TypeOK
<1>4. MembersExclusive
  BY <1>1 DEF MembersExclusive, Alive
<1>5. NothingLeftBehind
  <2>1. socket # NoOne => Alive(socket)
    BY <1>1 DEF Alive
  <2>2. \A r \in Roots : holder[r] = NoOne \/ (Alive(holder[r]) /\ r \in members[holder[r]])
    BY <1>1 DEF Alive
  <2>3. mfiles = UNION {members[x] : x \in Daemons}
    <3>1. CASE d = NoOne
      BY <1>1, <3>1
    <3>2. CASE d # NoOne
      BY <1>1, <3>2
    <3> QED BY <3>1, <3>2
  <2> QED BY <2>1, <2>2, <2>3 DEF NothingLeftBehind
<1>6. StagesTrue
  BY <1>1, <1>2 DEF StagesTrue
<1> QED BY <1>3, <1>4, <1>5, <1>6 DEF HostInv, MembersTrue

(* What a client does: it touches no daemon and no member; it may remove   *)
(* the socket, and it is connected only to a daemon that answers there.    *)
ClientMove ==
    /\ UNCHANGED <<st, members, busy, djson, mfiles, holder>>
    /\ socket' \in {socket, NoOne} /\ launching' \in BOOLEAN
    /\ conn' \in [Clients -> Daemons \cup {NoOne}]
    /\ \A c \in Clients : conn'[c] \in {conn[c], NoOne} \/ (Connects /\ conn'[c] = socket)
    /\ kills' = kills \/ (kills < MaxKills /\ kills' = kills + 1)

LEMMA ClientMoveKeeps == HostInv /\ ClientMove => HostInv'
<1> SUFFICES ASSUME HostInv, ClientMove PROVE HostInv'
  OBVIOUS
<1> USE HostAssumption DEF HostInv, MembersTrue, ClientMove
<1>1. TypeOK'
  BY DEF TypeOK
<1>2. MembersExclusive'
  BY DEF MembersExclusive, Alive
<1>3. NothingLeftBehind'
  <2>1. kills' = 0 => kills = 0
    BY DEF TypeOK
  <2> QED BY <2>1 DEF NothingLeftBehind, Alive
<1>4. StagesTrue'
  <2>1. \A c \in Clients : conn'[c] # NoOne => st[conn'[c]] \notin {"unborn", "json", "pinned", "bind"}
    BY DEF StagesTrue, Connects
  <2>2. \A d \in Daemons : st[d] \in {"unborn", "json", "pinned", "bind"} => socket' # d
    BY DEF StagesTrue
  <2> QED BY <2>1, <2>2 DEF StagesTrue
<1> QED BY <1>1, <1>2, <1>3, <1>4

LEMMA ClientStepKeeps ==
  ASSUME HostInv, NEW c \in Clients, ClientStep(c) \/ KillClient(c)
  PROVE  HostInv'
<1> USE DEF HostInv, MembersTrue, TypeOK
<1>1. CASE Spawn(c)
  <2>1. PICK d \in Daemons : st[d] = "unborn" /\ st' = [st EXCEPT ![d] = "json"]
    BY <1>1 DEF Spawn
  <2>2. UNCHANGED <<members, busy, socket, djson, launching, mfiles, holder, conn, kills>>
    BY <1>1 DEF Spawn, fs
  <2>3. MembersExclusive'
    BY <2>1, <2>2 DEF MembersExclusive, Alive, StagesTrue
  <2>4. NothingLeftBehind'
    BY <2>1, <2>2 DEF NothingLeftBehind, Alive, StagesTrue
  <2>5. StagesTrue'
    BY <2>1, <2>2 DEF StagesTrue
  <2> QED BY <2>1, <2>2, <2>3, <2>4, <2>5
<1>2. CASE ~Spawn(c)
  <2>1. /\ UNCHANGED <<st, members, busy, djson, mfiles, holder>>
        /\ socket' \in {socket, NoOne} /\ launching' \in BOOLEAN
        /\ kills' = kills \/ (kills < MaxKills /\ kills' = kills + 1)
    BY <1>2 DEF ClientStep, KillClient, TryHello, Lost, Decide, Stop, Cleared, RemoveSocket, LockLaunch,
                UnlockLaunch, Ride, GiveUp, Call, fs
  <2>2. \/ conn' = conn \/ conn' = [conn EXCEPT ![c] = NoOne]
        \/ Connects /\ conn' = [conn EXCEPT ![c] = socket]
    BY <1>2 DEF ClientStep, KillClient, TryHello, Lost, Decide, Stop, Cleared, RemoveSocket, LockLaunch,
                UnlockLaunch, Ride, GiveUp, Call, fs
  <2>3. /\ conn' \in [Clients -> Daemons \cup {NoOne}]
        /\ \A b \in Clients : conn'[b] \in {conn[b], NoOne} \/ (Connects /\ conn'[b] = socket)
    BY <2>2
  <2> QED BY <2>1, <2>3, ClientMoveKeeps DEF ClientMove
<1> QED BY <1>1, <1>2

-----------------------------------------------------------------------------
(* What opening and closing members keeps. *)
LEMMA OpenKeeps ==
  ASSUME HostInv, NEW d \in Daemons, Alive(d), NEW R \in SUBSET Roots, open_member(d, R),
         \A e \in Daemons : Alive(e)' => Alive(e), Alive(d)',
         \A e \in Daemons : Alive(e) => Alive(e)',
         UNCHANGED <<socket, kills>>
  PROVE  /\ members' \in [Daemons -> SUBSET Roots] /\ holder' \in [Roots -> Daemons \cup {NoOne}]
         /\ mfiles' \subseteq Roots
         /\ \A e \in Daemons \ {d} : members'[e] = members[e]
         /\ MembersExclusive' /\ NothingLeftBehind'
<1> USE HostAssumption DEF HostInv, MembersTrue, TypeOK, open_member
<1>1. /\ members' \in [Daemons -> SUBSET Roots] /\ holder' \in [Roots -> Daemons \cup {NoOne}]
      /\ mfiles' \subseteq Roots
      /\ \A e \in Daemons \ {d} : members'[e] = members[e]
      /\ members'[d] = members[d] \cup R
  OBVIOUS
<1>2. \A r \in R \ members[d] : \A e \in Daemons \ {d} : Alive(e) => r \notin members[e]
  BY DEF CanLock, MembersExclusive
<1>3. MembersExclusive'
  <2> SUFFICES ASSUME NEW e \in Daemons, Alive(e)', NEW r \in members'[e] PROVE holder'[r] = e
    BY DEF MembersExclusive
  <2>1. CASE e = d
    BY <1>1, <2>1 DEF MembersExclusive
  <2>2. CASE e # d
    <3>1. r \in members[e] /\ Alive(e) /\ holder[r] = e /\ r \in Roots
      BY <1>1, <2>2 DEF MembersExclusive
    <3> QED BY <1>2, <2>2, <3>1
  <2> QED BY <2>1, <2>2
<1>4. NothingLeftBehind'
  <2> SUFFICES ASSUME kills = 0 PROVE NothingLeftBehind'
    BY DEF NothingLeftBehind
  <2>1. (socket # NoOne => Alive(socket))'
    <3>1. socket' \in Daemons => Alive(socket)
      BY DEF NothingLeftBehind
    <3>2. PICK x : x = socket /\ x = socket'
      OBVIOUS
    <3> QED BY <3>1, <3>2
  <2>2. ASSUME NEW r \in Roots, holder'[r] # NoOne
        PROVE  \E e \in Daemons : holder'[r] = e /\ Alive(e)' /\ r \in members'[e]
    <3>1. CASE r \in R \ members[d]
      BY <1>1, <3>1
    <3>2. CASE r \notin R \ members[d]
      <4>1. holder'[r] = holder[r] /\ holder[r] \in Daemons /\ Alive(holder[r]) /\ r \in members[holder[r]]
        BY <2>2, <3>2 DEF NothingLeftBehind
      <4>2. PICK e \in Daemons : e = holder[r]
        BY <4>1
      <4>3. r \in members'[e] /\ Alive(e)'
        BY <1>1, <4>1, <4>2
      <4> QED BY <4>1, <4>2, <4>3
    <3> QED BY <3>1, <3>2
  <2>3. mfiles' = UNION {members'[e] : e \in Daemons}
    <3>1. mfiles = UNION {members[e] : e \in Daemons} /\ mfiles' = mfiles \cup R
      BY DEF NothingLeftBehind
    <3>2. \A r \in mfiles' : \E e \in Daemons : r \in members'[e]
      BY <1>1, <3>1
    <3>3. \A e \in Daemons : members'[e] \subseteq mfiles'
      BY <1>1, <3>1
    <3> QED BY <3>2, <3>3
  <2>4. (\A r \in Roots : holder[r] = NoOne \/ (Alive(holder[r]) /\ r \in members[holder[r]]))'
    BY <2>2 DEF Alive
  <2> QED BY <2>1, <2>3, <2>4 DEF NothingLeftBehind
<1> QED BY <1>1, <1>3, <1>4

LEMMA CloseKeeps ==
  ASSUME HostInv, NEW d \in Daemons, Alive(d), NEW R \in SUBSET members[d], close_member(d, R),
         \A e \in Daemons \ {d} : Alive(e)' = Alive(e),
         Alive(d)' \/ R = members[d], socket' = NoOne \/ (socket' = socket /\ Alive(d)'), kills' = kills
  PROVE  /\ members' \in [Daemons -> SUBSET Roots] /\ holder' \in [Roots -> Daemons \cup {NoOne}]
         /\ mfiles' \subseteq Roots
         /\ \A e \in Daemons \ {d} : members'[e] = members[e]
         /\ members'[d] = members[d] \ R
         /\ MembersExclusive' /\ NothingLeftBehind'
<1> USE HostAssumption DEF HostInv, MembersTrue, TypeOK, close_member
<1>1. /\ members' \in [Daemons -> SUBSET Roots] /\ holder' \in [Roots -> Daemons \cup {NoOne}]
      /\ mfiles' \subseteq Roots
      /\ \A e \in Daemons \ {d} : members'[e] = members[e]
      /\ members'[d] = members[d] \ R
  OBVIOUS
<1>2. \A r \in R : r \in Roots /\ holder[r] = d
  BY DEF MembersExclusive
<1>3. MembersExclusive'
  <2> SUFFICES ASSUME NEW e \in Daemons, Alive(e)', NEW r \in members'[e] PROVE holder'[r] = e
    BY DEF MembersExclusive
  <2>1. r \in members[e] /\ Alive(e) /\ r \in Roots
    BY <1>1
  <2>2. holder[r] = e
    BY <2>1 DEF MembersExclusive
  <2>3. r \notin R
    BY <1>1, <1>2, <2>2
  <2> QED BY <2>1, <2>2, <2>3
<1>4. NothingLeftBehind'
  <2> SUFFICES ASSUME kills = 0 PROVE NothingLeftBehind'
    BY DEF NothingLeftBehind
  <2>1. (socket # NoOne => Alive(socket))'
    BY DEF NothingLeftBehind
  <2>2. ASSUME NEW r \in Roots, holder'[r] # NoOne
        PROVE  \E e \in Daemons : holder'[r] = e /\ Alive(e)' /\ r \in members'[e]
    <3>1. holder'[r] = holder[r] /\ r \notin R /\ holder[r] \in Daemons
      BY <1>2, <2>2
    <3>2. PICK e \in Daemons : e = holder[r] /\ Alive(e) /\ r \in members[e]
      BY <3>1 DEF NothingLeftBehind
    <3>3. r \in members'[e] /\ Alive(e)'
      BY <1>1, <3>1, <3>2
    <3> QED BY <3>1, <3>2, <3>3
  <2>3. mfiles' = UNION {members'[e] : e \in Daemons}
    <3>1. mfiles = UNION {members[e] : e \in Daemons} /\ mfiles' = mfiles \ R
      BY DEF NothingLeftBehind
    <3>2. \A r \in mfiles' : \E e \in Daemons : r \in members'[e]
      BY <1>1, <3>1
    <3>3. ASSUME NEW e \in Daemons, NEW r \in members'[e] PROVE r \in mfiles'
      <4>1. r \in members[e] /\ Alive(e)
        BY <1>1, <3>3 DEF StagesTrue, Alive
      <4>2. holder[r] = e
        BY <4>1 DEF MembersExclusive
      <4>3. r \notin R
        BY <1>1, <1>2, <3>3, <4>2
      <4> QED BY <3>1, <4>1, <4>3
    <3> QED BY <3>2, <3>3
  <2>4. (\A r \in Roots : holder[r] = NoOne \/ (Alive(holder[r]) /\ r \in members[holder[r]]))'
    BY <2>2 DEF Alive
  <2> QED BY <2>1, <2>3, <2>4 DEF NothingLeftBehind
<1> QED BY <1>1, <1>3, <1>4

-----------------------------------------------------------------------------
(* A daemon that lives on at a later stage, its members and the files as   *)
(* they were.                                                              *)
LEMMA LaterStage ==
  ASSUME HostInv, NEW d \in Daemons, Alive(d), NEW to \in {"pinned", "serving", "exiting"},
         st' = [st EXCEPT ![d] = to], to = "pinned" => st[d] = "json",
         UNCHANGED <<members, busy, launching, mfiles, holder, kills>>,
         socket' = socket \/ (socket' = d /\ to # "pinned"), djson' \in Daemons \cup {NoOne},
         conn' \in [Clients -> Daemons \cup {NoOne}],
         \A c \in Clients : conn'[c] \in {conn[c], NoOne}
  PROVE  HostInv'
<1> USE HostAssumption DEF HostInv, MembersTrue, TypeOK
<1>1. \A e \in Daemons : Alive(e)' = Alive(e)
  BY DEF Alive
<1>2. TypeOK'
  OBVIOUS
<1>3. MembersExclusive'
  BY <1>1 DEF MembersExclusive
<1>4. NothingLeftBehind'
  <2> SUFFICES ASSUME kills = 0 PROVE NothingLeftBehind'
    BY DEF NothingLeftBehind
  <2>1. (socket # NoOne => Alive(socket))'
    BY DEF NothingLeftBehind, Alive
  <2>2. (\A r \in Roots : holder[r] = NoOne \/ (Alive(holder[r]) /\ r \in members[holder[r]]))'
    BY DEF NothingLeftBehind, Alive
  <2> QED BY <2>1, <2>2 DEF NothingLeftBehind
<1>5. StagesTrue'
  <2>1. \A e \in Daemons : st'[e] \in {"unborn", "json", "pinned", "gone"} => members'[e] = {}
    BY DEF StagesTrue
  <2>2. \A e \in Daemons : st'[e] \in {"unborn", "json", "pinned", "bind"} =>
          /\ socket' # e /\ busy'[e] = NoOne
          /\ \A c \in Clients : conn'[c] # e
    BY DEF StagesTrue
  <2>3. ASSUME NEW c \in Clients, conn'[c] # NoOne
        PROVE  st'[conn'[c]] \notin {"unborn", "json", "pinned", "bind"}
    BY <2>2, <2>3
  <2> QED BY <2>1, <2>2, <2>3 DEF StagesTrue
<1> QED BY <1>2, <1>3, <1>4, <1>5

(* A one-shot request begins or ends in a daemon that is dialled. *)
LEMMA Served ==
  ASSUME HostInv, NEW d \in Daemons, NEW c \in Clients, Dispatch(d, c) \/ Return(d, c)
  PROVE  HostInv'
<1> USE HostAssumption DEF HostInv, MembersTrue, TypeOK
<1>1. /\ UNCHANGED <<st, members, socket, djson, launching, mfiles, holder, kills>>
      /\ Alive(d) /\ (conn[c] = d \/ busy[d] = c)
      /\ busy' \in {busy, [busy EXCEPT ![d] = c], [busy EXCEPT ![d] = NoOne]}
      /\ conn' \in {conn, [conn EXCEPT ![c] = NoOne]}
  BY DEF Dispatch, Return, fs
<1>2. st[d] \notin {"unborn", "json", "pinned", "bind"}
  BY <1>1 DEF StagesTrue
<1>3. /\ busy' \in [Daemons -> Clients \cup {NoOne}]
      /\ \A e \in Daemons \ {d} : busy'[e] = busy[e]
  BY <1>1
<1>4. /\ conn' \in [Clients -> Daemons \cup {NoOne}]
      /\ \A b \in Clients : conn'[b] \in {conn[b], NoOne}
  BY <1>1
<1>5. TypeOK'
  BY <1>1, <1>3, <1>4
<1>6. MembersExclusive' /\ NothingLeftBehind'
  BY <1>1 DEF MembersExclusive, NothingLeftBehind, Alive
<1>7. StagesTrue'
  BY <1>1, <1>2, <1>3, <1>4 DEF StagesTrue
<1> QED BY <1>5, <1>6, <1>7

LEMMA DaemonStepKeeps ==
  ASSUME HostInv, NEW d \in Daemons, DaemonStep(d)
  PROVE  HostInv'
<1> USE HostAssumption DEF HostInv, MembersTrue, TypeOK
<1>1. CASE RecordPid(d)
  BY <1>1, LaterStage DEF RecordPid, Alive
<1>2. CASE OpenPinned(d)
  <2>1. CASE open_member(d, Pinned) /\ st' = [st EXCEPT ![d] = "bind"]
    <3>1. /\ UNCHANGED <<busy, socket, djson, launching, conn, kills>> /\ st[d] = "pinned"
      BY <1>2 DEF OpenPinned
    <3>2. \A e \in Daemons : Alive(e)' = Alive(e)
      BY <2>1, <3>1 DEF Alive
    <3>3. Alive(d)
      BY <3>1 DEF Alive
    <3>4. /\ members' \in [Daemons -> SUBSET Roots] /\ holder' \in [Roots -> Daemons \cup {NoOne}]
          /\ mfiles' \subseteq Roots
          /\ \A e \in Daemons \ {d} : members'[e] = members[e]
          /\ MembersExclusive' /\ NothingLeftBehind'
      BY <2>1, <3>1, <3>2, <3>3, OpenKeeps
    <3>5. StagesTrue'
      BY <2>1, <3>1, <3>4 DEF StagesTrue
    <3> QED BY <2>1, <3>1, <3>4, <3>5
  <2>2. CASE st' = [st EXCEPT ![d] = "gone"] /\ UNCHANGED <<members, mfiles, holder>>
    <3>1. /\ UNCHANGED <<busy, socket, djson, launching, conn, kills>> /\ st[d] = "pinned"
      BY <1>2 DEF OpenPinned
    <3>2. members[d] = {} /\ socket # d
      BY <3>1 DEF StagesTrue
    <3>3. \A e \in Daemons \ {d} : Alive(e)' = Alive(e)
      BY <2>2, <3>1 DEF Alive
    <3>4. MembersExclusive'
      BY <2>2, <3>2, <3>3 DEF MembersExclusive
    <3>5. NothingLeftBehind'
      BY <2>2, <3>1, <3>2 DEF NothingLeftBehind, Alive
    <3>6. StagesTrue'
      BY <2>2, <3>1, <3>2 DEF StagesTrue
    <3> QED BY <2>2, <3>1, <3>4, <3>5, <3>6
  <2> QED BY <1>2, <2>1, <2>2 DEF OpenPinned
<1>3. CASE Bind(d)
  BY <1>3, LaterStage DEF Bind, Alive
<1>4. CASE Exit(d)
  <2>1. /\ st[d] = "exiting" /\ busy[d] = NoOne /\ close_member(d, members[d])
        /\ socket' = NoOne /\ djson' = NoOne /\ st' = [st EXCEPT ![d] = "gone"]
        /\ UNCHANGED <<busy, launching, conn, kills>>
    BY <1>4 DEF Exit
  <2>2. Alive(d) /\ \A e \in Daemons \ {d} : Alive(e)' = Alive(e)
    BY <2>1 DEF Alive
  <2>3. /\ members' \in [Daemons -> SUBSET Roots] /\ holder' \in [Roots -> Daemons \cup {NoOne}]
        /\ mfiles' \subseteq Roots
        /\ \A e \in Daemons \ {d} : members'[e] = members[e]
        /\ members'[d] = {}
        /\ MembersExclusive' /\ NothingLeftBehind'
    BY <2>1, <2>2, CloseKeeps
  <2>4. StagesTrue'
    BY <2>1, <2>3 DEF StagesTrue
  <2> QED BY <2>1, <2>3, <2>4
<1>5. ASSUME NEW c \in Clients, Hello(d, c) PROVE HostInv'
  <2>1. /\ UNCHANGED <<st, busy, socket, djson, launching, kills>> /\ Alive(d) /\ conn[c] = d
        /\ conn' = [conn EXCEPT ![c] = NoOne]
    BY <1>5 DEF Hello
  <2>2. CASE UNCHANGED <<members, holder, mfiles>>
    BY <2>1, <2>2, ClientMoveKeeps DEF ClientMove
  <2>3. CASE open_member(d, {Workspace[c]})
    <3>1. \A e \in Daemons : Alive(e)' = Alive(e)
      BY <2>1 DEF Alive
    <3>2. /\ members' \in [Daemons -> SUBSET Roots] /\ holder' \in [Roots -> Daemons \cup {NoOne}]
          /\ mfiles' \subseteq Roots
          /\ \A e \in Daemons \ {d} : members'[e] = members[e]
          /\ MembersExclusive' /\ NothingLeftBehind'
      BY <2>1, <2>3, <3>1, OpenKeeps
    <3>3. st[d] \notin {"unborn", "json", "pinned", "bind", "gone"}
      BY <2>1 DEF StagesTrue, Alive
    <3>4. StagesTrue'
      BY <2>1, <3>2, <3>3 DEF StagesTrue
    <3> QED BY <2>1, <3>2, <3>4
  <2> QED BY <1>5, <2>2, <2>3 DEF Hello
<1>6. ASSUME NEW c \in Clients, Dispatch(d, c) PROVE HostInv'
  BY <1>6, Served DEF Dispatch
<1>7. ASSUME NEW c \in Clients, Return(d, c) PROVE HostInv'
  BY <1>7, Served DEF Return
<1>8. ASSUME NEW c \in Clients, Shutdown(d, c) PROVE HostInv'
  <2>1. /\ Alive(d) /\ st' = [st EXCEPT ![d] = "exiting"] /\ conn' = [conn EXCEPT ![c] = NoOne]
        /\ UNCHANGED <<members, busy, socket, djson, launching, mfiles, holder, kills>>
    BY <1>8 DEF Shutdown, fs
  <2> QED BY <2>1, LaterStage
<1> QED BY <1>1, <1>2, <1>3, <1>4, <1>5, <1>6, <1>7, <1>8 DEF DaemonStep

LEMMA EnvironmentKeeps ==
  ASSUME HostInv, Environment
  PROVE  HostInv'
<1> USE HostAssumption DEF HostInv, MembersTrue, TypeOK
<1>1. ASSUME NEW d \in Daemons, Watchdog(d) PROVE HostInv'
  BY <1>1, LaterStage DEF Watchdog, Alive, fs
<1>2. ASSUME NEW d \in Daemons, Kill(d) PROVE HostInv'
  <2>1. /\ Alive(d) /\ kills < MaxKills /\ kills' = kills + 1
        /\ st' = [st EXCEPT ![d] = "gone"] /\ members' = [members EXCEPT ![d] = {}]
        /\ busy' = [busy EXCEPT ![d] = NoOne]
        /\ UNCHANGED <<socket, djson, launching, mfiles, holder, conn>>
    BY <1>2 DEF Kill, fs
  <2>2. TypeOK'
    BY <2>1
  <2>3. kills' # 0
    BY <2>1
  <2>4. MembersExclusive'
    BY <2>1 DEF MembersExclusive, Alive
  <2>5. StagesTrue'
    BY <2>1 DEF StagesTrue
  <2> QED BY <2>2, <2>3, <2>4, <2>5 DEF NothingLeftBehind
<1>3. ASSUME NEW d \in Daemons, NEW r \in Roots, Sweep(d, r) PROVE HostInv'
  <2>1. /\ st[d] = "serving" /\ r \in members[d] /\ close_member(d, {r})
        /\ UNCHANGED <<st, busy, socket, djson, launching, conn, kills>>
    BY <1>3 DEF Sweep
  <2>2. Alive(d) /\ Alive(d)' /\ \A e \in Daemons \ {d} : Alive(e)' = Alive(e)
    BY <2>1 DEF Alive
  <2>3. /\ members' \in [Daemons -> SUBSET Roots] /\ holder' \in [Roots -> Daemons \cup {NoOne}]
        /\ mfiles' \subseteq Roots
        /\ \A e \in Daemons \ {d} : members'[e] = members[e]
        /\ MembersExclusive' /\ NothingLeftBehind'
    BY <2>1, <2>2, CloseKeeps
  <2>4. StagesTrue'
    BY <2>1, <2>3 DEF StagesTrue
  <2> QED BY <2>1, <2>3, <2>4
<1>4. ASSUME NEW c \in Clients, KillClient(c) PROVE HostInv'
  BY <1>4, ClientStepKeeps
<1> QED BY <1>1, <1>2, <1>3, <1>4 DEF Environment

(***************************************************************************)
(* Members, writer locks, member files and socket of a scope agree with    *)
(* the daemons that live: a workspace is open in one living daemon at      *)
(* most, the one its lock names, whatever daemons race to serve the scope, *)
(* idle out, are shut down under a client or are killed; and without kills *)
(* nothing of a daemon outlives it (open_member, close_member,             *)
(* cleanup_and_exit).                                                      *)
(***************************************************************************)
THEOREM MembersInvariant == HostSpec => []MembersTrue
<1>1. HostInv /\ [HostNext]_hostVars => HostInv'
  <2> SUFFICES ASSUME HostInv, [HostNext]_hostVars PROVE HostInv'
    OBVIOUS
  <2>1. CASE UNCHANGED hostVars
    BY <2>1 DEF hostVars, HostInv, MembersTrue, TypeOK, MembersExclusive, NothingLeftBehind,
                StagesTrue, Alive
  <2>2. CASE HostNext
    BY <2>2, DaemonStepKeeps, ClientStepKeeps, EnvironmentKeeps DEF HostNext
  <2> QED BY <2>1, <2>2
<1>2. HostInv => MembersTrue
  BY DEF HostInv
<1> QED BY <1>1, <1>2, InitHost, PTL DEF HostSpec

-----------------------------------------------------------------------------
(***************************************************************************)
(* A dial that runs alone.  Its client is the only one that ever moved, so *)
(* at most two daemons matter: the one that served when it began and the   *)
(* one it starts.  Until it starts one nothing else lives; once it has,    *)
(* the first is gone, and what it left (a lock that names the dead, a      *)
(* socket nobody answers, a pid of nobody) stops neither.                  *)
(***************************************************************************)
Alone(c) == \A o \in Clients \ {c} : pc[o] = "idle"

DialTypes ==
    /\ pc \in [Clients -> {"idle", "asked", "answered", "ready", "failed", "stop", "clean", "again", "launch",
                           "stopping", "clearing", "ride", "spawn", "unlock", "killed", "called", "ended"}]
    /\ got \in [Clients -> {"none", "ok", "mismatch", "rejected", "refused", "error", "built"}]
    /\ dial \in [Clients -> {"first", "restarted", "launched"}]
    /\ ends \in Nat /\ before \in [Clients -> Nat] /\ \A c \in Clients : before[c] <= ends
    /\ \A c \in Clients : pc[c] = "answered" => got[c] \in {"ok", "mismatch", "rejected", "refused"}

(* Of the daemons, d alone was ever started, and if it lives it serves: the *)
(* socket and daemon.json are its.                                          *)
OnlyFirst(d) ==
    /\ \A e \in Daemons \ {d} : st[e] = "unborn"
    /\ \A e \in Daemons : busy[e] = NoOne
    /\ Alive(d) => st[d] \in {"serving", "exiting"} /\ socket = d /\ djson = d

(* Where the dial of c is, and what has become of d, before c starts one.   *)
BeforeLaunch(c, d) ==
    /\ OnlyFirst(d)
    /\ launching => pc[c] = "spawn"
    /\ \/ pc[c] = "idle" /\ dial[c] = "first"
       \/ pc[c] = "asked" /\ dial[c] = "first" /\ conn[c] = d /\ Alive(d)
       \/ pc[c] = "answered" /\ dial[c] = "first" /\ got[c] \in {"ok", "mismatch"} /\ Alive(d)
       \/ pc[c] = "answered" /\ dial[c] = "first" /\ got[c] = "refused" /\ ~Alive(d)
       \/ pc[c] = "stop" /\ dial[c] = "restarted" /\ Alive(d)
       \/ pc[c] = "stopping" /\ dial[c] = "restarted" /\ conn[c] = d /\ Alive(d)
       \/ pc[c] = "clearing" /\ dial[c] = "restarted" /\ Alive(d) /\ st[d] = "exiting"
       \/ pc[c] = "clearing" /\ dial[c] = "restarted" /\ ~Alive(d) /\ socket = NoOne
       \/ pc[c] \in {"clean", "launch", "spawn"} /\ dial[c] # "first" /\ ~Alive(d)

(* The daemon s that c started is the only one alive, and comes up.         *)
AfterLaunch(c, s) ==
    /\ s \notin Manual /\ dial[c] # "first"
    /\ \A e \in Daemons \ {s} : ~Alive(e)
    /\ \A e \in Daemons : busy[e] = NoOne
    /\ st[s] \in {"json", "pinned", "bind", "serving"}
    /\ st[s] # "json" => djson = s
    /\ st[s] = "serving" => socket = s
    /\ \/ pc[c] \in {"unlock", "again"}
       \/ pc[c] = "asked" /\ conn[c] = s /\ st[s] = "serving"
       \/ pc[c] = "answered" /\ got[c] = "ok" /\ st[s] = "serving"

(* As long as no daemon was killed or idled out under it, the dial is at    *)
(* one of the stages above or has ended with a daemon; it has not failed.   *)
DialTrue(c) ==
    \/ pc[c] # "idle" /\ ends > before[c]
    \/ pc[c] \in {"ready", "called", "ended", "killed"}
    \/ \E d \in Daemons \cup {NoOne} : BeforeLaunch(c, d)
    \/ \E s \in Daemons : AfterLaunch(c, s)

RecoverInv ==
    /\ HostInv /\ DialTypes
    /\ \A c \in Clients \cap Autostart : Alone(c) => DialTrue(c)

-----------------------------------------------------------------------------
LEMMA InitRecover == HostInit => RecoverInv
<1> SUFFICES ASSUME HostInit PROVE RecoverInv
  OBVIOUS
<1> USE HostAssumption
<1>1. PICK d \in Manual \cup {NoOne} :
        /\ st = [x \in Daemons |-> IF x = d THEN "serving" ELSE "unborn"]
        /\ socket = d /\ djson = d
  BY DEF HostInit
<1>2. /\ busy = [x \in Daemons |-> NoOne] /\ launching = FALSE
      /\ pc = [c \in Clients |-> "idle"] /\ got = [c \in Clients |-> "none"]
      /\ dial = [c \in Clients |-> "first"] /\ before = [c \in Clients |-> 0] /\ ends = 0
  BY DEF HostInit
<1>3. DialTypes
  BY <1>2 DEF DialTypes
<1>4. OnlyFirst(d)
  BY <1>1, <1>2 DEF OnlyFirst, Alive
<1>5. ASSUME NEW c \in Clients PROVE BeforeLaunch(c, d)
  BY <1>2, <1>4 DEF BeforeLaunch
<1> QED BY <1>3, <1>5, InitHost DEF RecoverInv, DialTrue

(* Control points a dial does not come back from. *)
Over == {"ready", "called", "ended", "killed"}

(* What a step does to the control point of a client and to the count of   *)
(* daemons that ended.                                                     *)
Onward ==
    /\ ends' = ends \/ ends' = ends + 1
    /\ \A c \in Clients :
         /\ pc'[c] = "idle" => pc[c] = "idle"
         /\ pc[c] # "idle" => before'[c] = before[c]
         /\ pc[c] \in Over => pc'[c] \in Over

LEMMA ClientTypes ==
  ASSUME RecoverInv, NEW c \in Clients, ClientStep(c) \/ KillClient(c)
  PROVE  DialTypes' /\ Onward /\ pc'[c] # "idle"
<1> USE DEF RecoverInv, DialTypes, Onward, Over, Go
<1>1. CASE TryHello(c)
  BY <1>1 DEF TryHello
<1>2. CASE Lost(c)
  BY <1>2 DEF Lost
<1>3. CASE Decide(c)
  <2> DEFINE pid == IF djson = NoOne THEN "failed" ELSE "ready"
             first == dial[c] = "first"
             to == CASE got[c] = "ok"       -> pid
                     [] got[c] = "rejected" -> "failed"
                     [] got[c] = "mismatch" ->
                          IF first /\ c \in Autostart THEN "stop" ELSE IF dial[c] = "launched" THEN pid ELSE "failed"
                     [] got[c] = "refused" /\ first ->
                          IF (Alive(djson) /\ socket # NoOne) \/ c \notin Autostart THEN "failed" ELSE "clean"
                     [] got[c] = "refused" /\ ~first -> "again"
  <2>1. /\ pc[c] = "answered" /\ pc' = [pc EXCEPT ![c] = to]
        /\ dial' = [dial EXCEPT ![c] = CASE to = "stop" -> "restarted" [] to = "clean" -> "launched" [] OTHER -> @]
        /\ UNCHANGED <<got, before, ends>>
    BY <1>3 DEF Decide
  <2>2. to \in {"failed", "ready", "stop", "clean", "again"}
    BY <2>1
  <2> HIDE DEF to
  <2> QED BY <2>1, <2>2
<1>4. CASE Stop(c) \/ Cleared(c) \/ RemoveSocket(c) \/ LockLaunch(c)
  BY <1>4 DEF Stop, Cleared, RemoveSocket, LockLaunch
<1>5. CASE Spawn(c) \/ UnlockLaunch(c) \/ Ride(c) \/ GiveUp(c)
  BY <1>5 DEF Spawn, UnlockLaunch, Ride, GiveUp
<1>6. CASE Call(c) \/ KillClient(c)
  BY <1>6 DEF Call, KillClient
<1> QED BY <1>1, <1>2, <1>3, <1>4, <1>5, <1>6 DEF ClientStep

LEMMA DaemonTypes ==
  ASSUME RecoverInv, NEW d \in Daemons,
         DaemonStep(d) \/ Watchdog(d) \/ Kill(d) \/ \E r \in Roots : Sweep(d, r)
  PROVE  DialTypes' /\ Onward
<1> USE DEF RecoverInv, DialTypes, Onward, Over, Go
<1>1. CASE RecordPid(d) \/ OpenPinned(d) \/ Bind(d) \/ Exit(d)
  BY <1>1 DEF RecordPid, OpenPinned, Bind, Exit
<1>2. ASSUME NEW c \in Clients, Hello(d, c) PROVE DialTypes' /\ Onward
  BY <1>2 DEF Hello
<1>3. ASSUME NEW c \in Clients, Dispatch(d, c) PROVE DialTypes' /\ Onward
  BY <1>3 DEF Dispatch
<1>4. ASSUME NEW c \in Clients, Return(d, c) PROVE DialTypes' /\ Onward
  BY <1>4 DEF Return
<1>5. ASSUME NEW c \in Clients, Shutdown(d, c) PROVE DialTypes' /\ Onward
  BY <1>5 DEF Shutdown
<1>6. CASE Watchdog(d)
  BY <1>6 DEF Watchdog
<1>7. CASE Kill(d)
  BY <1>7 DEF Kill
<1>8. ASSUME NEW r \in Roots, Sweep(d, r) PROVE DialTypes' /\ Onward
  BY <1>8 DEF Sweep
<1> QED BY <1>1, <1>2, <1>3, <1>4, <1>5, <1>6, <1>7, <1>8 DEF DaemonStep

LEMMA Types == RecoverInv /\ HostNext => DialTypes' /\ Onward
BY ClientTypes, DaemonTypes DEF HostNext, Environment

(* Once over, or once a daemon has ended under it, a dial stays so.        *)
LEMMA OverKeeps ==
  ASSUME RecoverInv, Onward, NEW c \in Clients,
         (pc[c] # "idle" /\ ends > before[c]) \/ pc[c] \in Over
  PROVE  DialTrue(c)'
<1>1. CASE pc[c] # "idle" /\ ends > before[c]
  <2>1. pc'[c] # "idle" /\ before'[c] = before[c] /\ ends' >= ends
    BY <1>1 DEF RecoverInv, DialTypes, Onward
  <2>2. ends' > before'[c]
    <3>1. ends \in Nat /\ ends' \in Nat /\ before[c] \in Nat
      BY DEF RecoverInv, DialTypes, Onward
    <3> QED BY <1>1, <2>1, <3>1
  <2> QED BY <2>1, <2>2 DEF DialTrue
<1>2. CASE pc[c] \in Over
  BY <1>2 DEF DialTrue, Onward, Over
<1> QED BY <1>1, <1>2

(* A daemon that ends while the dial is on its way excuses it.             *)
LEMMA Ended ==
  ASSUME RecoverInv, Onward, NEW c \in Clients, pc[c] # "idle", ends' = ends + 1
  PROVE  DialTrue(c)'
<1>1. pc'[c] # "idle" /\ before'[c] = before[c]
  BY DEF RecoverInv, DialTypes, Onward
<1>2. ends \in Nat /\ before[c] \in Nat /\ before[c] <= ends
  BY DEF RecoverInv, DialTypes
<1>3. ends' > before'[c]
  BY <1>1, <1>2
<1> QED BY <1>1, <1>3 DEF DialTrue

-----------------------------------------------------------------------------
(* The dial before it starts a daemon. *)
LEMMA BeforeClientStep ==
  ASSUME RecoverInv, NEW c \in Clients \cap Autostart, NEW d \in Daemons \cup {NoOne},
         BeforeLaunch(c, d), Onward, ClientStep(c) \/ KillClient(c)
  PROVE  DialTrue(c)'
<1> USE HostAssumption DEF RecoverInv, HostInv, MembersTrue, TypeOK, DialTypes, Go, fs
<1>1. Alive(d) => Connects
  BY DEF BeforeLaunch, OnlyFirst, Connects, Alive
<1>2. Connects => Alive(d) /\ socket = d
  BY DEF BeforeLaunch, OnlyFirst, Connects, Alive
<1>3. CASE TryHello(c)
  <2>1. pc[c] = "idle" /\ UNCHANGED <<st, members, busy, socket, djson, launching, mfiles, holder, dial, ends>>
    BY <1>3 DEF TryHello, BeforeLaunch
  <2>2. OnlyFirst(d)' /\ (Alive(d)' = Alive(d)) /\ ~launching
    BY <2>1 DEF BeforeLaunch, OnlyFirst, Alive
  <2>3. CASE Connects
    <3>1. pc'[c] = "asked" /\ conn'[c] = d /\ dial'[c] = "first"
      BY <1>2, <1>3, <2>1, <2>3 DEF TryHello, BeforeLaunch
    <3> QED BY <1>2, <2>1, <2>2, <2>3, <3>1 DEF BeforeLaunch, DialTrue
  <2>4. CASE ~Connects
    <3>1. pc'[c] = "answered" /\ got'[c] = "refused" /\ dial'[c] = "first"
      BY <1>3, <2>1, <2>4 DEF TryHello, BeforeLaunch
    <3> QED BY <1>1, <2>1, <2>2, <2>4, <3>1 DEF BeforeLaunch, DialTrue
  <2> QED BY <2>3, <2>4
<1>4. CASE Lost(c)
  <2>1. conn[c] # NoOne /\ ~Alive(conn[c]) /\ UNCHANGED <<st, busy, socket, djson, launching, dial, ends>>
    BY <1>4 DEF Lost
  <2>2. pc[c] \notin {"asked", "stopping"}
    BY <2>1 DEF BeforeLaunch
  <2>3. pc'[c] = "ended"
    BY <1>4, <2>2 DEF Lost
  <2> QED BY <2>3 DEF DialTrue
<1>5. CASE Decide(c)
  <2>1. pc[c] = "answered" /\ dial[c] = "first" /\ UNCHANGED <<st, busy, socket, djson, launching>>
    BY <1>5 DEF Decide, BeforeLaunch
  <2>2. OnlyFirst(d)' /\ (Alive(d)' = Alive(d)) /\ ~launching
    BY <2>1 DEF BeforeLaunch, OnlyFirst, Alive
  <2>3. CASE got[c] = "ok" /\ Alive(d)
    <3>1. djson # NoOne
      BY <2>3 DEF BeforeLaunch, OnlyFirst, Alive
    <3>2. pc'[c] = "ready"
      BY <1>5, <2>1, <2>3, <3>1 DEF Decide
    <3> QED BY <3>2 DEF DialTrue
  <2>4. CASE got[c] = "mismatch" /\ Alive(d)
    <3>1. pc'[c] = "stop" /\ dial'[c] = "restarted"
      BY <1>5, <2>1, <2>4 DEF Decide
    <3> QED BY <2>1, <2>2, <2>4, <3>1 DEF BeforeLaunch, DialTrue
  <2>5. CASE got[c] = "refused" /\ ~Alive(d)
    <3>1. ~Alive(djson)
      BY <2>5 DEF BeforeLaunch, OnlyFirst, Alive
    <3>2. pc'[c] = "clean" /\ dial'[c] = "launched"
      BY <1>5, <2>1, <2>5, <3>1 DEF Decide
    <3> QED BY <2>1, <2>2, <2>5, <3>2 DEF BeforeLaunch, DialTrue
  <2> QED BY <2>1, <2>3, <2>4, <2>5 DEF BeforeLaunch
<1>6. CASE Stop(c)
  <2>1. /\ pc[c] = "stop" /\ Alive(d) /\ dial[c] = "restarted"
        /\ UNCHANGED <<st, busy, socket, djson, launching, dial>>
    BY <1>6 DEF Stop, BeforeLaunch
  <2>2. OnlyFirst(d)' /\ (Alive(d)' = Alive(d)) /\ ~launching
    BY <2>1 DEF BeforeLaunch, OnlyFirst, Alive
  <2>3. pc'[c] = "stopping" /\ conn'[c] = d
    BY <1>1, <1>2, <1>6, <2>1 DEF Stop
  <2> QED BY <2>1, <2>2, <2>3 DEF BeforeLaunch, DialTrue
<1>7. CASE Cleared(c)
  <2>1. /\ pc[c] = "clearing" /\ pc'[c] = "launch" /\ socket = NoOne /\ dial[c] = "restarted"
        /\ UNCHANGED <<st, busy, socket, djson, launching, dial>>
    BY <1>7 DEF Cleared, BeforeLaunch
  <2>2. OnlyFirst(d)' /\ ~Alive(d) /\ ~Alive(d)' /\ ~launching
    BY <2>1 DEF BeforeLaunch, OnlyFirst, Alive
  <2> QED BY <2>1, <2>2 DEF BeforeLaunch, DialTrue
<1>8. CASE RemoveSocket(c) \/ LockLaunch(c)
  <2>1. pc[c] \in {"clean", "launch"} /\ ~Alive(d) /\ dial[c] # "first" /\ ~launching
    BY <1>8 DEF RemoveSocket, LockLaunch, BeforeLaunch
  <2>2. UNCHANGED <<st, busy, djson, dial>> /\ (launching' => pc'[c] = "spawn")
        /\ pc'[c] \in {"launch", "spawn"}
    BY <1>8, <2>1 DEF RemoveSocket, LockLaunch
  <2>3. OnlyFirst(d)' /\ ~Alive(d)'
    BY <2>1, <2>2 DEF BeforeLaunch, OnlyFirst, Alive
  <2> QED BY <2>1, <2>2, <2>3 DEF BeforeLaunch, DialTrue
<1>9. CASE Spawn(c)
  <2>1. PICK s \in Daemons \ Manual : st[s] = "unborn" /\ st' = [st EXCEPT ![s] = "json"]
    BY <1>9 DEF Spawn
  <2>2. pc[c] = "spawn" /\ pc'[c] = "unlock" /\ ~Alive(d) /\ dial[c] # "first" /\ UNCHANGED <<busy, dial>>
    BY <1>9 DEF Spawn, BeforeLaunch
  <2>3. \A e \in Daemons \ {s} : ~Alive(e)'
    BY <2>1, <2>2 DEF BeforeLaunch, OnlyFirst, Alive
  <2>4. \A e \in Daemons : busy'[e] = NoOne
    BY <2>2 DEF BeforeLaunch, OnlyFirst
  <2>5. AfterLaunch(c, s)'
    BY <2>1, <2>2, <2>3, <2>4 DEF AfterLaunch
  <2> QED BY <2>1, <2>5 DEF DialTrue
<1>10. CASE GiveUp(c)
  <2>1. pc[c] = "clearing" /\ socket # NoOne /\ \A e \in Daemons : st[e] = "exiting" => busy[e] # NoOne
    BY <1>10 DEF GiveUp, BeforeLaunch
  <2>2. d \in Daemons /\ st[d] = "exiting"
    BY <2>1 DEF BeforeLaunch, Alive
  <2> QED BY <2>1, <2>2 DEF BeforeLaunch, OnlyFirst
<1>11. CASE UnlockLaunch(c) \/ Ride(c) \/ Call(c)
  BY <1>11 DEF UnlockLaunch, Ride, Call, BeforeLaunch
<1>12. CASE KillClient(c)
  BY <1>12 DEF KillClient, DialTrue
<1> QED BY <1>3, <1>4, <1>5, <1>6, <1>7, <1>8, <1>9, <1>10, <1>11, <1>12 DEF ClientStep

LEMMA BeforeDaemonStep ==
  ASSUME RecoverInv, NEW c \in Clients \cap Autostart, Alone(c), NEW d \in Daemons \cup {NoOne},
         BeforeLaunch(c, d), Onward, NEW e \in Daemons,
         DaemonStep(e) \/ Watchdog(e) \/ Kill(e) \/ \E r \in Roots : Sweep(e, r)
  PROVE  DialTrue(c)'
<1> USE HostAssumption DEF RecoverInv, HostInv, MembersTrue, TypeOK, DialTypes, Go, fs
<1>1. Alive(e) => e = d
  BY DEF BeforeLaunch, OnlyFirst, Alive
<1>2. \A b \in Clients : pc[b] # "idle" => b = c
  BY DEF Alone
<1>3. CASE RecordPid(e) \/ OpenPinned(e) \/ Bind(e)
  <2>1. Alive(e) /\ st[e] \in {"json", "pinned", "bind"}
    BY <1>3 DEF RecordPid, OpenPinned, Bind, Alive
  <2> QED BY <1>1, <2>1 DEF BeforeLaunch, OnlyFirst
<1>4. CASE Exit(e)
  <2>1. /\ st[e] = "exiting" /\ socket' = NoOne /\ st' = [st EXCEPT ![e] = "gone"]
        /\ UNCHANGED <<busy, launching, pc, conn, got, dial>>
    BY <1>4 DEF Exit
  <2>2. e = d
    BY <1>1, <2>1 DEF Alive
  <2>3. OnlyFirst(d)' /\ ~Alive(d)'
    BY <2>1, <2>2 DEF BeforeLaunch, OnlyFirst, Alive
  <2>4. CASE pc[c] \in {"idle", "clearing"}
    BY <2>1, <2>2, <2>3, <2>4 DEF BeforeLaunch, DialTrue
  <2>5. CASE pc[c] \notin {"idle", "clearing"}
    <3>1. ends' = ends + 1
      BY <1>2, <1>4, <2>5 DEF Exit
    <3> QED BY <2>5, <3>1, Ended
  <2> QED BY <2>4, <2>5
<1>5. ASSUME NEW b \in Clients, Hello(e, b) PROVE DialTrue(c)'
  <2>1. /\ pc[b] = "asked" /\ conn[b] = e /\ Alive(e)
        /\ UNCHANGED <<st, busy, socket, djson, launching, dial>> /\ pc' = [pc EXCEPT ![b] = "answered"]
    BY <1>5 DEF Hello
  <2>2. b = c /\ e = d /\ dial[c] = "first" /\ pc'[c] = "answered"
    BY <1>1, <1>2, <2>1 DEF BeforeLaunch
  <2>3. OnlyFirst(d)' /\ Alive(d)' /\ ~launching
    BY <2>1, <2>2 DEF BeforeLaunch, OnlyFirst, Alive
  <2>4. \A r \in Roots : CanLock(d, r)
    BY <2>2 DEF BeforeLaunch, OnlyFirst, CanLock, Alive
  <2>5. got'[c] \in {"ok", "mismatch"}
    BY <1>5, <2>2, <2>4 DEF Hello
  <2> QED BY <2>1, <2>2, <2>3, <2>5 DEF BeforeLaunch, DialTrue
<1>6. ASSUME NEW b \in Clients, Dispatch(e, b) \/ Return(e, b) PROVE DialTrue(c)'
  <2>1. pc[b] = "called" \/ busy[e] = b
    BY <1>6 DEF Dispatch, Return
  <2> QED BY <1>2, <2>1 DEF BeforeLaunch, OnlyFirst
<1>7. ASSUME NEW b \in Clients, Shutdown(e, b) PROVE DialTrue(c)'
  <2>1. /\ pc[b] = "stopping" /\ conn[b] = e /\ Alive(e) /\ st' = [st EXCEPT ![e] = "exiting"]
        /\ UNCHANGED <<busy, socket, djson, launching, dial>> /\ pc' = [pc EXCEPT ![b] = "clearing"]
    BY <1>7 DEF Shutdown
  <2>2. b = c /\ e = d /\ dial[c] = "restarted" /\ pc'[c] = "clearing"
    BY <1>1, <1>2, <2>1 DEF BeforeLaunch
  <2>3. OnlyFirst(d)' /\ Alive(d)' /\ ~launching /\ st'[d] = "exiting"
    BY <2>1, <2>2 DEF BeforeLaunch, OnlyFirst, Alive
  <2> QED BY <2>1, <2>2, <2>3 DEF BeforeLaunch, DialTrue
<1>8. CASE Watchdog(e)
  <2>1. /\ st[e] = "serving" /\ st' = [st EXCEPT ![e] = "exiting"]
        /\ UNCHANGED <<busy, socket, djson, launching, pc, conn, got, dial>>
    BY <1>8 DEF Watchdog
  <2>2. e = d
    BY <1>1, <2>1 DEF Alive
  <2>3. OnlyFirst(d)' /\ Alive(d)' /\ Alive(d) /\ st'[d] = "exiting"
    BY <2>1, <2>2 DEF BeforeLaunch, OnlyFirst, Alive
  <2>4. BeforeLaunch(c, d)'
    BY <2>1, <2>2, <2>3 DEF BeforeLaunch
  <2> QED BY <2>4 DEF DialTrue
<1>9. CASE Kill(e)
  <2>1. /\ Alive(e) /\ st' = [st EXCEPT ![e] = "gone"] /\ ends' = ends + 1
        /\ busy' = [busy EXCEPT ![e] = NoOne] /\ UNCHANGED <<launching, pc, dial>>
    BY <1>9 DEF Kill
  <2>2. CASE pc[c] = "idle"
    <3>1. e = d /\ OnlyFirst(d)'
      BY <1>1, <2>1 DEF BeforeLaunch, OnlyFirst, Alive
    <3> QED BY <2>1, <2>2, <3>1 DEF BeforeLaunch, DialTrue
  <2>3. CASE pc[c] # "idle"
    BY <2>1, <2>3, Ended
  <2> QED BY <2>2, <2>3
<1>10. ASSUME NEW r \in Roots, Sweep(e, r) PROVE DialTrue(c)'
  <2>1. UNCHANGED <<st, busy, socket, djson, launching, pc, conn, got, dial>>
    BY <1>10 DEF Sweep
  <2>2. BeforeLaunch(c, d)'
    BY <2>1 DEF BeforeLaunch, OnlyFirst, Alive
  <2> QED BY <2>2 DEF DialTrue
<1> QED BY <1>3, <1>4, <1>5, <1>6, <1>7, <1>8, <1>9, <1>10 DEF DaemonStep

-----------------------------------------------------------------------------
(* The dial after it has started one. *)
LEMMA AfterClientStep ==
  ASSUME RecoverInv, NEW c \in Clients \cap Autostart, NEW s \in Daemons, AfterLaunch(c, s),
         ClientStep(c) \/ KillClient(c)
  PROVE  DialTrue(c)'
<1> USE HostAssumption DEF RecoverInv, HostInv, MembersTrue, TypeOK, DialTypes, Go, fs
<1>1. Connects => socket = s /\ st[s] = "serving"
  BY DEF AfterLaunch, Connects, Alive
<1>2. pc[c] \in {"unlock", "again", "asked", "answered"} /\ Alive(s)
  BY DEF AfterLaunch, Alive
<1>3. CASE TryHello(c)
  <2>1. /\ pc[c] = "again" /\ Connects /\ pc'[c] = "asked" /\ conn'[c] = socket
        /\ UNCHANGED <<st, busy, socket, djson, dial>>
    BY <1>2, <1>3 DEF TryHello
  <2>2. AfterLaunch(c, s)'
    BY <1>1, <2>1 DEF AfterLaunch, Alive
  <2> QED BY <2>2 DEF DialTrue
<1>4. CASE Lost(c)
  <2>1. pc[c] # "asked"
    BY <1>2, <1>4 DEF Lost, AfterLaunch
  <2>2. pc'[c] = "ended"
    BY <1>2, <1>4, <2>1 DEF Lost
  <2> QED BY <2>2 DEF DialTrue
<1>5. CASE Decide(c)
  <2>1. pc[c] = "answered" /\ got[c] = "ok"
    BY <1>5 DEF Decide, AfterLaunch
  <2>2. djson # NoOne
    BY <2>1 DEF AfterLaunch
  <2>3. pc'[c] = "ready"
    BY <1>5, <2>1, <2>2 DEF Decide
  <2> QED BY <2>3 DEF DialTrue
<1>6. CASE UnlockLaunch(c)
  <2>1. pc'[c] = "again" /\ UNCHANGED <<st, busy, socket, djson, dial>>
    BY <1>6 DEF UnlockLaunch
  <2>2. AfterLaunch(c, s)'
    BY <2>1 DEF AfterLaunch, Alive
  <2> QED BY <2>2 DEF DialTrue
<1>7. CASE GiveUp(c)
  <2>1. ~Starting /\ ~Connects
    BY <1>2, <1>7 DEF GiveUp
  <2>2. st[s] = "serving" /\ socket = s
    BY <2>1 DEF Starting, AfterLaunch
  <2> QED BY <2>1, <2>2 DEF Connects
<1>8. CASE KillClient(c)
  BY <1>8 DEF KillClient, DialTrue
<1>9. CASE Stop(c) \/ Cleared(c) \/ RemoveSocket(c) \/ LockLaunch(c) \/ Spawn(c) \/ Ride(c) \/ Call(c)
  BY <1>2, <1>9 DEF Stop, Cleared, RemoveSocket, LockLaunch, Spawn, Ride, Call
<1> QED BY <1>3, <1>4, <1>5, <1>6, <1>7, <1>8, <1>9 DEF ClientStep

LEMMA AfterDaemonStep ==
  ASSUME RecoverInv, NEW c \in Clients \cap Autostart, Alone(c), NEW s \in Daemons,
         AfterLaunch(c, s), Onward, NEW e \in Daemons,
         DaemonStep(e) \/ Watchdog(e) \/ Kill(e) \/ \E r \in Roots : Sweep(e, r)
  PROVE  DialTrue(c)'
<1> USE HostAssumption, LaunchAssumption DEF RecoverInv, HostInv, MembersTrue, TypeOK, DialTypes, Go, fs
<1>1. Alive(e) => e = s
  BY DEF AfterLaunch
<1>2. \A b \in Clients : pc[b] # "idle" => b = c
  BY DEF Alone
<1>3. pc[c] \in {"unlock", "again", "asked", "answered"} /\ \A r \in Roots : CanLock(s, r)
  BY DEF AfterLaunch, CanLock, Alive
<1>4. SUFFICES ASSUME ~Kill(e), ~Exit(e), ~Watchdog(e) PROVE DialTrue(c)'
  <2>1. CASE Kill(e)
    BY <1>3, <2>1, Ended DEF Kill
  <2>2. CASE Exit(e) \/ Watchdog(e)
    BY <1>1, <2>2 DEF Exit, Watchdog, AfterLaunch, Alive
  <2> QED BY <2>1, <2>2
<1>5. CASE RecordPid(e)
  <2>1. /\ e = s /\ st[s] = "json" /\ djson' = s /\ st' = [st EXCEPT ![s] = "pinned"]
        /\ UNCHANGED <<busy, socket, pc, conn, got, dial>>
    BY <1>1, <1>5 DEF RecordPid, Alive
  <2>2. AfterLaunch(c, s)'
    BY <2>1 DEF AfterLaunch, Alive
  <2> QED BY <2>2 DEF DialTrue
<1>6. CASE OpenPinned(e)
  <2>1. e = s /\ st[s] = "pinned"
    BY <1>1, <1>6 DEF OpenPinned, Alive
  <2>2. /\ st' = [st EXCEPT ![s] = "bind"] /\ UNCHANGED <<busy, socket, djson, pc, conn, got, dial>>
    BY <1>3, <1>6, <2>1 DEF OpenPinned
  <2>3. AfterLaunch(c, s)'
    BY <2>1, <2>2 DEF AfterLaunch, Alive
  <2> QED BY <2>3 DEF DialTrue
<1>7. CASE Bind(e)
  <2>1. /\ e = s /\ st[s] = "bind" /\ socket' = s /\ st' = [st EXCEPT ![s] = "serving"]
        /\ UNCHANGED <<busy, djson, pc, conn, got, dial>>
    BY <1>1, <1>7 DEF Bind, Alive
  <2>2. AfterLaunch(c, s)'
    BY <2>1 DEF AfterLaunch, Alive
  <2> QED BY <2>2 DEF DialTrue
<1>8. ASSUME NEW b \in Clients, Hello(e, b) PROVE DialTrue(c)'
  <2>1. /\ b = c /\ e = s /\ st[s] = "serving" /\ pc' = [pc EXCEPT ![c] = "answered"]
        /\ UNCHANGED <<st, busy, socket, djson, dial>>
    BY <1>1, <1>2, <1>8 DEF Hello, AfterLaunch
  <2>2. s \notin Old
    BY DEF AfterLaunch
  <2>3. got'[c] = "ok"
    BY <1>3, <1>8, <2>1, <2>2 DEF Hello
  <2>4. AfterLaunch(c, s)'
    BY <2>1, <2>3 DEF AfterLaunch, Alive
  <2> QED BY <2>4 DEF DialTrue
<1>9. ASSUME NEW b \in Clients, Dispatch(e, b) \/ Return(e, b) \/ Shutdown(e, b) PROVE DialTrue(c)'
  <2>1. pc[b] \in {"called", "stopping"} \/ busy[e] = b
    BY <1>9 DEF Dispatch, Return, Shutdown
  <2> QED BY <1>2, <1>3, <2>1 DEF AfterLaunch
<1>10. ASSUME NEW r \in Roots, Sweep(e, r) PROVE DialTrue(c)'
  <2>1. UNCHANGED <<st, busy, socket, djson, pc, conn, got, dial>>
    BY <1>10 DEF Sweep
  <2>2. AfterLaunch(c, s)'
    BY <2>1 DEF AfterLaunch, Alive
  <2> QED BY <2>2 DEF DialTrue
<1> QED BY <1>4, <1>5, <1>6, <1>7, <1>8, <1>9, <1>10 DEF DaemonStep

-----------------------------------------------------------------------------
LEMMA StepRecover == RecoverInv /\ HostNext => RecoverInv'
<1> SUFFICES ASSUME RecoverInv, HostNext PROVE RecoverInv'
  OBVIOUS
<1>1. HostInv'
  BY DaemonStepKeeps, ClientStepKeeps, EnvironmentKeeps DEF HostNext, RecoverInv
<1>2. DialTypes' /\ Onward
  BY Types
<1>3. ASSUME NEW c \in Clients \cap Autostart, Alone(c)' PROVE DialTrue(c)'
  <2>1. Alone(c)
    BY <1>2, <1>3 DEF Alone, Onward
  <2>2. ASSUME NEW b \in Clients, ClientStep(b) \/ KillClient(b) PROVE b = c
    BY <1>3, <2>2, ClientTypes DEF Alone
  <2>3. CASE (pc[c] # "idle" /\ ends > before[c]) \/ pc[c] \in Over
    BY <1>2, <2>3, OverKeeps
  <2>4. CASE ClientStep(c) \/ KillClient(c)
    BY <1>2, <2>1, <2>3, <2>4, BeforeClientStep, AfterClientStep DEF RecoverInv, DialTrue, Over
  <2>5. ASSUME NEW e \in Daemons,
               DaemonStep(e) \/ Watchdog(e) \/ Kill(e) \/ \E r \in Roots : Sweep(e, r)
        PROVE  DialTrue(c)'
    BY <1>2, <2>1, <2>3, <2>5, BeforeDaemonStep, AfterDaemonStep DEF RecoverInv, DialTrue, Over
  <2> QED BY <2>2, <2>4, <2>5 DEF HostNext, Environment
<1> QED BY <1>1, <1>2, <1>3 DEF RecoverInv

(***************************************************************************)
(* A dial that runs alone fails only when a daemon is killed or idles out  *)
(* under it: what daemons left behind before it began, however they ended, *)
(* does not stop it (ensure, stop, launch, hello_or_fail against the       *)
(* daemon's run and acquire).                                              *)
(***************************************************************************)
THEOREM RecoveryInvariant == HostSpec => []StaleRecovered
<1>1. RecoverInv /\ [HostNext]_hostVars => RecoverInv'
  <2> SUFFICES ASSUME RecoverInv, UNCHANGED hostVars PROVE RecoverInv'
    BY StepRecover
  <2>1. UNCHANGED <<st, members, busy, socket, djson, launching, mfiles, holder, pc, conn, got, dial, before, kills, ends>>
    BY DEF hostVars
  <2>2. HostInv'
    BY <2>1 DEF RecoverInv, HostInv, MembersTrue, TypeOK, MembersExclusive, NothingLeftBehind, StagesTrue, Alive
  <2>3. DialTypes'
    BY <2>1 DEF RecoverInv, DialTypes
  <2>4. ASSUME NEW c \in Clients \cap Autostart, Alone(c)' PROVE DialTrue(c)'
    <3>1. DialTrue(c)
      BY <2>1, <2>4 DEF RecoverInv, Alone
    <3>2. ASSUME NEW d \in Daemons \cup {NoOne}, BeforeLaunch(c, d) PROVE BeforeLaunch(c, d)'
      BY <2>1, <3>2 DEF BeforeLaunch, OnlyFirst, Alive
    <3>3. ASSUME NEW s \in Daemons, AfterLaunch(c, s) PROVE AfterLaunch(c, s)'
      BY <2>1, <3>3 DEF AfterLaunch, Alive
    <3> QED BY <2>1, <3>1, <3>2, <3>3 DEF DialTrue
  <2> QED BY <2>2, <2>3, <2>4 DEF RecoverInv
<1>2. RecoverInv => StaleRecovered
  <2> SUFFICES ASSUME RecoverInv, NEW c \in Clients \cap Autostart, pc[c] = "failed", Alone(c)
               PROVE  ends > before[c]
    BY DEF StaleRecovered, Alone
  <2> QED BY DEF RecoverInv, DialTrue, BeforeLaunch, AfterLaunch
<1> QED BY <1>1, <1>2, InitRecover, PTL DEF HostSpec

-----------------------------------------------------------------------------
(* The streams: what they keep true.                                         *)

(* What a frame can be, and which frames a server sends one after another:   *)
(* an event is followed by the next event, a revision by a later one.        *)
Frames == [k : {"rev", "event", "resync", "error"}, n : Nat]
Succeeds(f, l) == f.k = l.k /\ (IF f.k = "event" THEN f.n = l.n + 1 ELSE f.n > l.n)
Chain(h) == /\ h # <<>> /\ h[1].k = "event" => h[1].n = 1
            /\ \A i \in 1..(Len(h) - 1) : Succeeds(h[i + 1], h[i])

(* Frame f may come after what t holds. *)
MayFollow(t, f) ==
    /\ \A i \in DOMAIN t : t[i].k = f.k => t[i].n < f.n
    /\ f.k = "event" /\ f.n > 1 => \E i \in DOMAIN t : t[i] = Frame("event", f.n - 1)

(* Frames t end with the last of h. *)
HasLast(t, l) == /\ \E i \in DOMAIN t : t[i] = l
                 /\ \A i \in DOMAIN t : t[i].k = l.k => t[i].n <= l.n
UpTo(t, h) == IF h = <<>> THEN t = <<>> ELSE HasLast(t, h[Len(h)])

(* What an entry's upstream has sent: read into its history, or on the way. *)
Line(k) == fmap[k].history \o up[fmap[k].gen].chan
Latest(k) == IF k = "atom" THEN rev ELSE Len(log)

(* The line of a key that is served: its frames follow one another, and it   *)
(* ends with the last revision or event that the server sent.                *)
LineTrue(k) ==
    LET g == fmap[k].gen
        l == Line(k)
    IN  g # 0 =>
          /\ g \in DOMAIN up /\ up[g].key = k
          /\ Chain(l)
          /\ k = "atom" => \A i \in 1..Len(l) : l[i].k # "event"
          /\ up[g].st \in {"new", "stream", "closed"}
          /\ up[g].st = "new" => l = <<>>
          /\ up[g].st # "closed" =>
               /\ IF l = <<>> THEN up[g].sent = (IF k = "atom" THEN -1 ELSE 0)
                  ELSE l[Len(l)] = Frame(IF k = "atom" THEN "rev" ELSE "event", up[g].sent)
               /\ up[g].sent <= Latest(k)

Seen(s) == sub[s].got \o sub[s].q

(* What a subscriber has been given, read or not, is in order; a key has it  *)
(* registered under its own id, and then it ends where the history ends.     *)
SubTrue(s) == /\ Ordered(Seen(s))
              /\ \A k \in Keys : \A p \in fmap[k].subs : p[2] = s =>
                   /\ fmap[k].gen # 0
                   /\ sub[s].st = "open" /\ sub[s].key = k /\ sub[s].id = p[1]
                   /\ UpTo(Seen(s), fmap[k].history)

Connections == [key : Keys, st : {"new", "stream", "closed", "reaped"}, sent : Int, chan : Seq(Frames)]
Entries == [gen : Nat, subs : SUBSET (Nat \X Subscribers), next : Nat, history : Seq(Frames)]
Subscriptions == [st : {"none", "open", "gone"}, key : Keys, id : Nat, q : Seq(Frames),
                  closed : BOOLEAN, got : Seq(Frames)]
StreamTypes ==
    /\ rev \in Nat /\ log \in Seq(Runners \X {1, 2})
    /\ up \in Seq(Connections)
    /\ \A g \in DOMAIN up : up[g].key = "log" => up[g].sent >= 0
    /\ fmap \in [Keys -> Entries]
    /\ sub \in [Subscribers -> Subscriptions]

StreamInv == /\ StreamTypes
             /\ \A k \in Keys : LineTrue(k)
             /\ \A s \in Subscribers : SubTrue(s)

-----------------------------------------------------------------------------
(* Induction over the natural numbers, stated for a set of numbers.          *)
LEMMA Induct == ASSUME NEW T, 0 \in T, \A n \in Nat : n \in T => n + 1 \in T PROVE Nat \subseteq T
<1> DEFINE R == {p \in Nat \X Nat : p[1] < p[2]}
<1> SUFFICES ASSUME Nat \ T # {} PROVE FALSE
  OBVIOUS
<1>0. IsWellFoundedOn(R, Nat)
  BY NatLessThanWellFounded DEF OpToRel
<1>1. PICK n \in Nat \ T : \A m \in Nat \ T : <<m, n>> \notin R
  <2> HIDE DEF R
  <2> QED BY <1>0, WFMin
<1>2. n # 0 /\ n - 1 \in Nat /\ <<n - 1, n>> \in R
  OBVIOUS
<1>3. n - 1 \in T
  BY <1>1, <1>2
<1> QED BY <1>2, <1>3

LEMMA MaxIs == ASSUME NEW S, S \subseteq Nat, NEW m \in S, \A y \in S : m >= y PROVE Max(S) = m
<1>1. Max(S) \in S /\ \A y \in S : Max(S) >= y
  BY DEF Max
<1>2. Max(S) \in Nat /\ m \in Nat /\ Max(S) >= m /\ m >= Max(S)
  BY <1>1
<1> QED BY <1>2

(* The function by which FoldLeft folds push over h, on subsets of 1..n. *)
Folds(f, h, n) ==
    f = [S \in SUBSET (1..n) |-> IF S = {} THEN <<>> ELSE push(f[S \ {Max(S)}], h[Max(S)])]

(* Such a function exists: one on subsets of 1..(n+1) takes a set with n + 1 *)
(* in it to the one on subsets of 1..n.                                      *)
LEMMA FoldExists == ASSUME NEW h PROVE \A n \in Nat : \E f : Folds(f, h, n)
<1> DEFINE T == {n \in Nat : \E f : Folds(f, h, n)}
<1>1. 0 \in T
  <2> DEFINE f == [S \in SUBSET (1..0) |-> <<>>]
  <2>1. \A S \in SUBSET (1..0) : S = {}
    OBVIOUS
  <2>2. Folds(f, h, 0)
    BY <2>1 DEF Folds
  <2> QED BY <2>2
<1>2. ASSUME NEW n \in Nat, n \in T PROVE n + 1 \in T
  <2>1. PICK f : Folds(f, h, n)
    BY <1>2
  <2> DEFINE g == [S \in SUBSET (1..(n + 1)) |->
                     IF n + 1 \in S THEN push(f[S \ {n + 1}], h[n + 1]) ELSE f[S]]
  <2>2. ASSUME NEW S \in SUBSET (1..(n + 1))
        PROVE  g[S] = IF S = {} THEN <<>> ELSE push(g[S \ {Max(S)}], h[Max(S)])
    <3>1. CASE n + 1 \in S
      <4>1. Max(S) = n + 1
        <5>1. S \subseteq Nat /\ \A y \in S : n + 1 >= y
          OBVIOUS
        <5> QED BY <3>1, <5>1, MaxIs
      <4>2. g[S \ {n + 1}] = f[S \ {n + 1}]
        OBVIOUS
      <4> QED BY <3>1, <4>1, <4>2
    <3>2. CASE n + 1 \notin S
      <4>1. S \in SUBSET (1..n)
        BY <3>2
      <4>0. \A x : S \ {x} \in SUBSET (1..n) /\ S \ {x} \in SUBSET (1..(n + 1)) /\ n + 1 \notin S \ {x}
        BY <3>2, <4>1
      <4>2. g[S] = f[S] /\ \A x : g[S \ {x}] = f[S \ {x}]
        BY <3>2, <4>0, <4>1
      <4>3. f[S] = IF S = {} THEN <<>> ELSE push(f[S \ {Max(S)}], h[Max(S)])
        BY <2>1, <4>1 DEF Folds
      <4> HIDE DEF g
      <4> QED BY <4>2, <4>3
    <3> QED BY <3>1, <3>2
  <2>3. Folds(g, h, n + 1)
    <3> DEFINE r == [S \in SUBSET (1..(n + 1)) |-> IF S = {} THEN <<>> ELSE push(g[S \ {Max(S)}], h[Max(S)])]
    <3>1. DOMAIN g = SUBSET (1..(n + 1)) /\ g = [S \in DOMAIN g |-> g[S]]
      OBVIOUS
    <3> HIDE DEF g
    <3>2. g = r
      BY <2>2, <3>1
    <3> QED BY <3>2 DEF Folds
  <2> QED BY <2>3
<1>3. Nat \subseteq T
  <2> HIDE DEF T
  <2> QED BY <1>1, <1>2, Induct
<1> QED BY <1>3

(* What subscribe replays: the history, pushed frame by frame. *)
LEMMA Replayed ==
  ASSUME NEW n \in Nat, NEW h, DOMAIN h = 1..n
  PROVE  \E b : /\ b[0] = <<>> /\ FoldLeft(push, <<>>, h) = b[n]
                /\ \A m \in 1..n : b[m] = push(b[m - 1], h[m])
<1> DEFINE f == CHOOSE f : Folds(f, h, n)
           b == [m \in 0..n |-> f[1..m]]
<1>1. Folds(f, h, n)
  BY FoldExists
<1>2. FoldLeft(push, <<>>, h) = f[1..n]
  BY DEF FoldLeft, MapThenFoldSet, Folds
<1> HIDE DEF f
<1>3. b[0] = <<>>
  <2>1. 1..0 = {} /\ 1..0 \in SUBSET (1..n)
    OBVIOUS
  <2>2. f[1..0] = <<>>
    BY <1>1, <2>1 DEF Folds
  <2> QED BY <2>2
<1>4. ASSUME NEW m \in 1..n PROVE b[m] = push(b[m - 1], h[m])
  <2>1. 1..m \in SUBSET (1..n) /\ m \in 1..m /\ m \in 0..n /\ m - 1 \in 0..n
    OBVIOUS
  <2>2. Max(1..m) = m
    <3>1. 1..m \subseteq Nat /\ \A y \in 1..m : m >= y
      OBVIOUS
    <3> QED BY <2>1, <3>1, MaxIs
  <2>3. (1..m) \ {m} = 1..(m - 1)
    OBVIOUS
  <2>4. f[1..m] = push(f[1..(m - 1)], h[m])
    BY <1>1, <2>1, <2>2, <2>3 DEF Folds
  <2> QED BY <2>1, <2>4
<1>5. FoldLeft(push, <<>>, h) = b[n]
  BY <1>2
<1> HIDE DEF b
<1> QED BY <1>3, <1>4, <1>5

-----------------------------------------------------------------------------
(* What pushing does to the order of frames.                                 *)

LEMMA Joined ==
  ASSUME NEW a \in Seq(Frames), NEW b \in Seq(Frames)
  PROVE  /\ a \o b \in Seq(Frames) /\ Len(a \o b) = Len(a) + Len(b)
         /\ DOMAIN (a \o b) = 1..(Len(a) + Len(b)) /\ DOMAIN a = 1..Len(a) /\ DOMAIN b = 1..Len(b)
         /\ Len(a) \in Nat /\ Len(b) \in Nat
         /\ \A i \in 1..Len(a) : (a \o b)[i] = a[i]
         /\ \A i \in 1..Len(b) : (a \o b)[Len(a) + i] = b[i]
OBVIOUS

LEMMA OneMore ==
  ASSUME NEW a \in Seq(Frames), NEW f \in Frames
  PROVE  /\ Append(a, f) \in Seq(Frames) /\ Append(a, f) # <<>>
         /\ Len(Append(a, f)) = Len(a) + 1
         /\ DOMAIN Append(a, f) = 1..(Len(a) + 1) /\ DOMAIN a = 1..Len(a) /\ Len(a) \in Nat
         /\ Append(a, f)[Len(a) + 1] = f
         /\ \A i \in 1..Len(a) : Append(a, f)[i] = a[i] /\ a[i] \in Frames
OBVIOUS

(* Ordered, frame by frame. *)
OrderedAt(t, j) ==
    t[j].k \in {"rev", "event"} =>
      /\ \A i \in 1..(j - 1) : t[i].k = t[j].k => t[i].n < t[j].n
      /\ t[j].k = "event" /\ t[j].n > 1 =>
           \/ \E i \in 1..(j - 1) : t[i].k = "event" /\ t[i].n = t[j].n - 1
           \/ \E i \in 1..(j - 1) : t[i] = Resync /\ \A h \in 1..(j - 1) : t[h].k = "event" => h < i

LEMMA FrameByFrame == ASSUME NEW t PROVE Ordered(t) <=> \A j \in DOMAIN t : OrderedAt(t, j)
<1>1. ASSUME Ordered(t), NEW j \in DOMAIN t, t[j].k \in {"rev", "event"} PROVE OrderedAt(t, j)
  <2> DEFINE earlier == {i \in 1..(j - 1) : t[i].k = t[j].k}
  <2>1. /\ \A i \in earlier : t[i].n < t[j].n
        /\ t[j].k = "event" /\ ~(\E i \in earlier : t[i].n = t[j].n - 1) /\ t[j].n > 1
             => \E i \in 1..(j - 1) : t[i] = Resync /\ \A h \in earlier : h < i
    BY <1>1 DEF Ordered
  <2> QED BY <2>1 DEF OrderedAt
<1>2. ASSUME \A j \in DOMAIN t : OrderedAt(t, j) PROVE Ordered(t)
  <2> SUFFICES ASSUME NEW j \in DOMAIN t, t[j].k \in {"rev", "event"}
               PROVE  LET earlier == {i \in 1..(j - 1) : t[i].k = t[j].k}
                      IN  /\ \A i \in earlier : t[i].n < t[j].n
                          /\ t[j].k = "event" /\ ~(\E i \in earlier : t[i].n = t[j].n - 1) /\ t[j].n > 1
                               => \E i \in 1..(j - 1) : t[i] = Resync /\ \A h \in earlier : h < i
    BY DEF Ordered
  <2>1. OrderedAt(t, j)
    BY <1>2
  <2> QED BY <2>1 DEF OrderedAt
<1>3. ASSUME Ordered(t), NEW j \in DOMAIN t PROVE OrderedAt(t, j)
  BY <1>1, <1>3 DEF OrderedAt
<1> QED BY <1>2, <1>3

LEMMA SameUpTo ==
  ASSUME NEW a, NEW c, NEW j \in Nat \ {0}, \A i \in 1..j : c[i] = a[i], OrderedAt(a, j)
  PROVE  OrderedAt(c, j)
<1>1. j \in 1..j /\ \A i \in 1..(j - 1) : i \in 1..j
  OBVIOUS
<1>2. c[j] = a[j] /\ \A i \in 1..(j - 1) : c[i] = a[i]
  BY <1>1
<1> QED BY <1>2 DEF OrderedAt

LEMMA OrderedPrefix ==
  ASSUME NEW a \in Seq(Frames), NEW b \in Seq(Frames), Ordered(a \o b)
  PROVE  Ordered(a)
<1> DEFINE c == a \o b
<1>1. /\ DOMAIN a = 1..Len(a) /\ DOMAIN c = 1..(Len(a) + Len(b)) /\ Len(a) \in Nat /\ Len(b) \in Nat
      /\ \A i \in 1..Len(a) : c[i] = a[i]
  BY Joined
<1>2. \A j \in DOMAIN c : OrderedAt(c, j)
  BY FrameByFrame
<1> HIDE DEF c
<1>3. ASSUME NEW j \in DOMAIN a PROVE OrderedAt(a, j)
  <2>1. j \in DOMAIN c /\ j \in Nat \ {0} /\ \A i \in 1..j : a[i] = c[i]
    BY <1>1
  <2> QED BY <1>2, <2>1, SameUpTo
<1> QED BY <1>3, FrameByFrame

LEMMA OrderedAppend ==
  ASSUME NEW a \in Seq(Frames), NEW f \in Frames, Ordered(a), MayFollow(a, f)
  PROVE  Ordered(Append(a, f))
<1> DEFINE c == Append(a, f)
           m == Len(a) + 1
<1>1. /\ DOMAIN c = 1..m /\ DOMAIN a = 1..(m - 1) /\ m \in Nat \ {0} /\ c[m] = f
      /\ \A i \in 1..(m - 1) : c[i] = a[i]
  <2>1. /\ DOMAIN c = 1..(Len(a) + 1) /\ DOMAIN a = 1..Len(a) /\ Len(a) \in Nat /\ c[Len(a) + 1] = f
        /\ \A i \in 1..Len(a) : c[i] = a[i]
    BY OneMore
  <2>2. m - 1 = Len(a) /\ m \in Nat \ {0}
    BY <2>1
  <2> HIDE DEF c
  <2> QED BY <2>1, <2>2
<1> HIDE DEF c, m
<1>2. OrderedAt(c, m)
  <2>1. \A i \in 1..(m - 1) : c[i].k = f.k => c[i].n < f.n
    BY <1>1 DEF MayFollow
  <2>2. ASSUME f.k = "event", f.n > 1 PROVE \E i \in 1..(m - 1) : c[i].k = "event" /\ c[i].n = f.n - 1
    <3>1. PICK i \in 1..(m - 1) : a[i] = [k |-> "event", n |-> f.n - 1]
      BY <1>1, <2>2 DEF MayFollow, Frame
    <3>2. c[i].k = "event" /\ c[i].n = f.n - 1
      BY <1>1, <3>1
    <3> QED BY <3>2
  <2> QED BY <1>1, <2>1, <2>2 DEF OrderedAt
<1>3. ASSUME NEW j \in DOMAIN c, j # m PROVE OrderedAt(c, j)
  <2>1. j \in DOMAIN a /\ j \in Nat \ {0} /\ \A i \in 1..j : c[i] = a[i]
    BY <1>1, <1>3
  <2> QED BY <2>1, FrameByFrame, SameUpTo
<1> QED BY <1>2, <1>3, FrameByFrame DEF c

LEMMA OrderedResync ==
  ASSUME NEW a \in Seq(Frames), NEW f \in Frames, Ordered(a),
         \A i \in DOMAIN a : a[i].k = f.k => a[i].n < f.n
  PROVE  Ordered(Append(Append(a, Resync), f))
<1> DEFINE b == Append(a, Resync)
           c == Append(b, f)
           m == Len(a)
<1>1. Resync \in Frames /\ Resync.k = "resync"
  BY DEF Resync, Frame, Frames
<1>2. /\ DOMAIN c = 1..(m + 2) /\ DOMAIN a = 1..m /\ m \in Nat
      /\ c[m + 2] = f /\ c[m + 1] = Resync
      /\ \A i \in 1..m : c[i] = a[i]
  <2>1. /\ b \in Seq(Frames) /\ Len(b) = m + 1 /\ b[m + 1] = Resync /\ m \in Nat
        /\ DOMAIN a = 1..m /\ \A i \in 1..m : b[i] = a[i]
    BY <1>1, OneMore
  <2> HIDE DEF b, m
  <2>2. /\ DOMAIN c = 1..(Len(b) + 1) /\ c[Len(b) + 1] = f
        /\ \A i \in 1..Len(b) : c[i] = b[i]
    BY <2>1, OneMore
  <2> HIDE DEF c
  <2> QED BY <2>1, <2>2
<1> HIDE DEF b, c, m
<1>3. OrderedAt(c, m + 2)
  <2>1. \A i \in 1..(m + 1) : i \in 1..m \/ i = m + 1
    BY <1>2
  <2>2. ASSUME NEW i \in 1..(m + 1), c[i].k = f.k, f.k \in {"rev", "event"} PROVE i \in 1..m /\ c[i].n < f.n
    BY <1>1, <1>2, <2>1, <2>2
  <2>3. (m + 2) - 1 = m + 1 /\ m + 1 \in 1..(m + 1) /\ \A i \in 1..m : i < m + 1
    BY <1>2
  <2> QED BY <1>2, <2>2, <2>3 DEF OrderedAt
<1>4. OrderedAt(c, m + 1)
  BY <1>1, <1>2 DEF OrderedAt
<1>5. ASSUME NEW j \in 1..m PROVE OrderedAt(c, j)
  <2>1. j \in DOMAIN a /\ j \in Nat \ {0} /\ \A i \in 1..j : c[i] = a[i]
    BY <1>2
  <2> QED BY <2>1, FrameByFrame, SameUpTo
<1>6. \A j \in DOMAIN c : j \in 1..m \/ j = m + 1 \/ j = m + 2
  BY <1>2
<1> QED BY <1>3, <1>4, <1>5, <1>6, FrameByFrame DEF b, c

(* The step of a subscriber: a frame that may follow what it has and holds   *)
(* is pushed, whether its buffer is full or not.                             *)
LEMMA Pushes ==
  ASSUME NEW a \in Seq(Frames), NEW q \in Seq(Frames), NEW f \in Frames,
         Ordered(a \o q), MayFollow(a \o q, f)
  PROVE  /\ push(q, f) \in Seq(Frames)
         /\ Ordered(a \o push(q, f)) /\ HasLast(a \o push(q, f), f)
<1>0. Resync \in Frames /\ Resync.k = "resync" /\ Resync.n = 0 /\ f.n \in Nat
  BY DEF Resync, Frame, Frames
<1>1. CASE Len(q) >= Bound
  <2> DEFINE c == Append(Append(a, Resync), f)
  <2>1. push(q, f) = <<Resync, f>> /\ <<Resync, f>> \in Seq(Frames) /\ a \o <<Resync, f>> = c
    BY <1>0, <1>1 DEF push
  <2>2. Ordered(a) /\ \A i \in DOMAIN a : (a \o q)[i] = a[i] /\ i \in DOMAIN (a \o q)
    BY OrderedPrefix, Joined
  <2>3. \A i \in DOMAIN a : a[i].k = f.k => a[i].n < f.n
    BY <2>2 DEF MayFollow
  <2>4. Ordered(c)
    BY <2>2, <2>3, OrderedResync
  <2>5. /\ DOMAIN c = 1..(Len(a) + 2) /\ Len(a) \in Nat /\ DOMAIN a = 1..Len(a)
        /\ c[Len(a) + 2] = f /\ c[Len(a) + 1] = Resync
        /\ \A i \in 1..Len(a) : c[i] = a[i] /\ a[i] \in Frames
    BY <1>0
  <2> HIDE DEF c
  <2>6. \A i \in DOMAIN c : c[i].k = f.k => c[i].n <= f.n
    <3> SUFFICES ASSUME NEW i \in DOMAIN c, c[i].k = f.k PROVE c[i].n <= f.n
      OBVIOUS
    <3>1. CASE i \in DOMAIN a
      BY <1>0, <2>3, <2>5, <3>1 DEF Frames
    <3>2. CASE i \notin DOMAIN a
      BY <1>0, <2>5, <3>2
    <3> QED BY <3>1, <3>2
  <2>7. HasLast(c, f)
    BY <2>5, <2>6 DEF HasLast
  <2>8. a \o push(q, f) = c /\ push(q, f) \in Seq(Frames)
    BY <2>1
  <2> QED BY <2>4, <2>7, <2>8
<1>2. CASE ~(Len(q) >= Bound)
  <2> DEFINE c == Append(a \o q, f)
  <2>1. push(q, f) = Append(q, f) /\ Append(q, f) \in Seq(Frames) /\ a \o Append(q, f) = c /\ a \o q \in Seq(Frames)
    BY <1>2 DEF push
  <2>2. Ordered(c)
    BY <2>1, OrderedAppend
  <2>3. /\ DOMAIN c = 1..(Len(a \o q) + 1) /\ DOMAIN (a \o q) = 1..Len(a \o q) /\ Len(a \o q) \in Nat
        /\ c[Len(a \o q) + 1] = f /\ \A i \in 1..Len(a \o q) : c[i] = (a \o q)[i] /\ (a \o q)[i] \in Frames
    BY <2>1, OneMore
  <2> HIDE DEF c
  <2>4. \A i \in DOMAIN c : c[i].k = f.k => c[i].n <= f.n
    <3> SUFFICES ASSUME NEW i \in DOMAIN c, c[i].k = f.k PROVE c[i].n <= f.n
      OBVIOUS
    <3>1. CASE i \in DOMAIN (a \o q)
      <4>1. (a \o q)[i].n < f.n /\ (a \o q)[i].n \in Nat
        BY <2>3, <3>1 DEF MayFollow, Frames
      <4> QED BY <1>0, <2>3, <3>1, <4>1
    <3>2. CASE i \notin DOMAIN (a \o q)
      BY <1>0, <2>3, <3>2
    <3> QED BY <3>1, <3>2
  <2> QED BY <2>1, <2>2, <2>3, <2>4 DEF HasLast
<1> QED BY <1>1, <1>2

-----------------------------------------------------------------------------
(* The next frame of a line may follow what a subscriber has that is up to   *)
(* the frame before it.                                                      *)
LEMMA FollowsLast ==
  ASSUME NEW t \in Seq(Frames), NEW l \in Frames, NEW f \in Frames, Succeeds(f, l), HasLast(t, l)
  PROVE  MayFollow(t, f)
<1>1. f.n \in Nat /\ l.n \in Nat /\ \A i \in DOMAIN t : t[i] \in Frames /\ t[i].n \in Nat
  <2>1. \A i \in DOMAIN t : t[i] \in Frames
    OBVIOUS
  <2> QED BY <2>1 DEF Frames
<1>2. ASSUME NEW i \in DOMAIN t, t[i].k = f.k PROVE t[i].n < f.n
  <2>1. t[i].n <= l.n
    BY <1>2 DEF HasLast, Succeeds
  <2>2. l.n < f.n
    BY <1>1 DEF Succeeds
  <2> QED BY <1>1, <2>1, <2>2
<1>3. ASSUME f.k = "event", f.n > 1 PROVE \E i \in DOMAIN t : t[i] = Frame("event", f.n - 1)
  <2>1. l.k = "event" /\ l.n = f.n - 1
    BY <1>1, <1>3 DEF Succeeds
  <2>2. l = Frame("event", f.n - 1)
    BY <2>1 DEF Frames, Frame
  <2> QED BY <2>2 DEF HasLast
<1> QED BY <1>2, <1>3 DEF MayFollow

LEMMA FollowsNone ==
  ASSUME NEW f \in Frames, f.k = "event" => f.n = 1
  PROVE  MayFollow(<<>>, f)
BY DEF MayFollow

LEMMA FollowsLine ==
  ASSUME NEW h \in Seq(Frames), NEW c \in Seq(Frames), c # <<>>, Chain(h \o c),
         NEW t \in Seq(Frames), UpTo(t, h)
  PROVE  MayFollow(t, c[1])
<1> DEFINE f == c[1]
           d == h \o c
<1>1. /\ Len(h) \in Nat /\ Len(c) \in Nat /\ Len(c) >= 1 /\ d[Len(h) + 1] = f /\ f \in Frames
      /\ Len(d) = Len(h) + Len(c) /\ \A i \in 1..Len(h) : d[i] = h[i] /\ h[i] \in Frames
  OBVIOUS
<1>2. CASE h = <<>>
  <2>1. d[1] = f /\ d # <<>>
    BY <1>1, <1>2
  <2>2. t = <<>> /\ (f.k = "event" => f.n = 1)
    BY <1>2, <2>1 DEF Chain, UpTo
  <2> QED BY <1>1, <2>2, FollowsNone
<1>3. CASE h # <<>>
  <2>1. Len(h) >= 1 /\ Len(h) \in 1..(Len(d) - 1)
    BY <1>1, <1>3
  <2>2. Succeeds(d[Len(h) + 1], d[Len(h)])
    BY <2>1 DEF Chain
  <2>3. HasLast(t, h[Len(h)])
    BY <1>3 DEF UpTo
  <2> HIDE DEF d, f
  <2> QED BY <1>1, <2>1, <2>2, <2>3, FollowsLast DEF f
<1> QED BY <1>2, <1>3

(* What a late subscriber is given is in order, and up to the history.       *)
LEMMA ReplayOrdered ==
  ASSUME NEW h \in Seq(Frames), Chain(h)
  PROVE  LET q == FoldLeft(push, <<>>, h)
         IN  q \in Seq(Frames) /\ Ordered(q) /\ UpTo(q, h)
<1>0. Len(h) \in Nat /\ DOMAIN h = 1..Len(h) /\ \A i \in 1..Len(h) : h[i] \in Frames
  OBVIOUS
<1>1. PICK b : /\ b[0] = <<>> /\ FoldLeft(push, <<>>, h) = b[Len(h)]
               /\ \A m \in 1..Len(h) : b[m] = push(b[m - 1], h[m])
  BY <1>0, Replayed
<1> DEFINE Good(m) == /\ b[m] \in Seq(Frames) /\ Ordered(b[m])
                      /\ IF m = 0 THEN b[m] = <<>> ELSE HasLast(b[m], h[m])
           T == {m \in Nat : m <= Len(h) => Good(m)}
<1>2. 0 \in T
  <2>1. Ordered(<<>>)
    BY DEF Ordered
  <2>2. Good(0)
    BY <1>1, <2>1
  <2> HIDE DEF Good
  <2> QED BY <2>2
<1>3. ASSUME NEW m \in Nat, m \in T PROVE m + 1 \in T
  <2> SUFFICES ASSUME m + 1 <= Len(h) PROVE Good(m + 1)
    OBVIOUS
  <2> DEFINE f == h[m + 1]
  <2>1. Good(m)
    BY <1>0, <1>3
  <2>2. m + 1 \in 1..Len(h) /\ f \in Frames /\ b[m + 1] = push(b[m], f)
    <3>1. m + 1 \in 1..Len(h) /\ (m + 1) - 1 = m
      BY <1>0
    <3> QED BY <1>0, <1>1, <3>1
  <2>3. MayFollow(b[m], f)
    <3>1. CASE m = 0
      <4>1. f.k = "event" => f.n = 1
        BY <1>0, <2>2, <3>1 DEF Chain
      <4> HIDE DEF f
      <4> QED BY <2>1, <2>2, <3>1, <4>1, FollowsNone
    <3>2. CASE m # 0
      <4>1. m \in 1..(Len(h) - 1)
        BY <1>0, <2>2, <3>2
      <4>2. Succeeds(f, h[m]) /\ h[m] \in Frames
        BY <1>0, <4>1 DEF Chain
      <4> HIDE DEF f
      <4> QED BY <2>1, <2>2, <3>2, <4>2, FollowsLast
    <3> QED BY <3>1, <3>2
  <2>5. <<>> \in Seq(Frames) /\ \A x \in Seq(Frames) : <<>> \o x = x
    OBVIOUS
  <2>6. b[m + 1] \in Seq(Frames) /\ Ordered(b[m + 1]) /\ HasLast(b[m + 1], f)
    <3>1. b[m] \in Seq(Frames) /\ Ordered(<<>> \o b[m]) /\ MayFollow(<<>> \o b[m], f)
      BY <2>1, <2>3, <2>5
    <3> HIDE DEF f
    <3>2. /\ push(b[m], f) \in Seq(Frames) /\ Ordered(<<>> \o push(b[m], f))
          /\ HasLast(<<>> \o push(b[m], f), f)
      BY <2>2, <2>5, <3>1, Pushes
    <3> QED BY <2>2, <2>5, <3>2
  <2> QED BY <2>6
<1>4. Good(Len(h))
  <2>1. Nat \subseteq T
    <3> HIDE DEF T
    <3> QED BY <1>2, <1>3, Induct
  <2> QED BY <1>0, <2>1
<1>5. h = <<>> <=> Len(h) = 0
  BY <1>0
<1> QED BY <1>1, <1>4, <1>5 DEF UpTo

-----------------------------------------------------------------------------
(* The steps.                                                                *)

LEMMA InitStreams == ViewInit => StreamInv
<1> SUFFICES ASSUME ViewInit PROVE StreamInv
  OBVIOUS
<1>1. StreamTypes
  <2>1. NoEntry \in Entries /\ NoSub \in Subscriptions
    BY DEF NoEntry, NoSub, Keys, Entries, Subscriptions
  <2> QED BY <2>1 DEF ViewInit, StreamTypes
<1>2. \A k \in Keys : LineTrue(k)
  BY DEF ViewInit, LineTrue, NoEntry
<1>3. \A s \in Subscribers : SubTrue(s)
  <2>1. \A s \in Subscribers : Seen(s) = <<>>
    BY DEF ViewInit, NoSub, Seen
  <2>2. \A k \in Keys : fmap[k].subs = {}
    BY DEF ViewInit, NoEntry
  <2>3. Ordered(<<>>)
    BY DEF Ordered
  <2> QED BY <2>1, <2>2, <2>3 DEF SubTrue
<1> QED BY <1>1, <1>2, <1>3 DEF StreamInv

(* A line that no step touches stays true, as revisions and events only      *)
(* become more.                                                              *)
LEMMA LineKept ==
  ASSUME NEW k \in Keys, LineTrue(k),
         fmap'[k].gen = fmap[k].gen, fmap'[k].history = fmap[k].history,
         fmap[k].gen \in DOMAIN up =>
           fmap[k].gen \in DOMAIN up' /\ up'[fmap[k].gen] = up[fmap[k].gen] /\ up[fmap[k].gen].sent \in Int,
         Latest(k) \in Nat, Latest(k)' \in Nat, Latest(k)' >= Latest(k)
  PROVE  LineTrue(k)'
<1> SUFFICES ASSUME fmap[k].gen # 0 PROVE LineTrue(k)'
  BY DEF LineTrue
<1> DEFINE g == fmap[k].gen
<1>1. g \in DOMAIN up
  BY DEF LineTrue
<1>2. Line(k)' = Line(k) /\ up'[g] = up[g] /\ g \in DOMAIN up' /\ fmap'[k].gen = g
  BY <1>1 DEF Line
<1>3. up[g].sent <= Latest(k) => up[g].sent <= Latest(k)'
  BY <1>1
<1> HIDE DEF g
<1> QED BY <1>2, <1>3 DEF LineTrue, g

LEMMA Typed ==
  ASSUME StreamTypes
  PROVE  /\ \A k \in Keys : /\ Latest(k) \in Nat /\ fmap[k].gen \in Nat /\ fmap[k].history \in Seq(Frames)
                            /\ fmap[k].subs \in SUBSET (Nat \X Subscribers) /\ fmap[k].next \in Nat
         /\ \A g \in DOMAIN up : /\ up[g].key \in Keys /\ up[g].sent \in Int /\ up[g].chan \in Seq(Frames)
                                /\ up[g].st \in {"new", "stream", "closed", "reaped"}
                                /\ up[g] = [key |-> up[g].key, st |-> up[g].st, sent |-> up[g].sent, chan |-> up[g].chan]
         /\ \A s \in Subscribers : sub[s].got \in Seq(Frames) /\ sub[s].q \in Seq(Frames)
         /\ DOMAIN up = 1..Len(up) /\ Len(up) \in Nat
<1>1. \A k \in Keys : Latest(k) \in Nat
  BY DEF StreamTypes, Latest
<1>2. \A g \in DOMAIN up : up[g] \in Connections
  BY DEF StreamTypes
<1>3. DOMAIN up = 1..Len(up) /\ Len(up) \in Nat
  BY DEF StreamTypes
<1>4. \A k \in Keys : fmap[k] \in Entries
  BY DEF StreamTypes
<1>5. \A s \in Subscribers : sub[s] \in Subscriptions
  BY DEF StreamTypes
<1>6. \A s \in Subscribers : sub[s].got \in Seq(Frames) /\ sub[s].q \in Seq(Frames)
  BY <1>5 DEF Subscriptions
<1>7. \A k \in Keys : /\ fmap[k].gen \in Nat /\ fmap[k].history \in Seq(Frames)
                     /\ fmap[k].subs \in SUBSET (Nat \X Subscribers) /\ fmap[k].next \in Nat
  BY <1>4 DEF Entries
<1>8. \A g \in DOMAIN up : /\ up[g].key \in Keys /\ up[g].sent \in Int /\ up[g].chan \in Seq(Frames)
                         /\ up[g].st \in {"new", "stream", "closed", "reaped"}
                         /\ up[g] = [key |-> up[g].key, st |-> up[g].st, sent |-> up[g].sent, chan |-> up[g].chan]
  BY <1>2 DEF Connections
<1> QED BY <1>1, <1>3, <1>6, <1>7, <1>8

(* A step that changes neither the entries nor the subscribers.              *)
LEMMA ServerKeeps ==
  ASSUME StreamInv, UNCHANGED <<up, fmap, sub>>, rev' \in Nat, rev' >= rev,
         log' \in Seq(Runners \X {1, 2}), Len(log') >= Len(log)
  PROVE  StreamInv'
<1>1. StreamTypes'
  BY DEF StreamInv, StreamTypes
<1>2. ASSUME NEW k \in Keys PROVE LineTrue(k)'
  <2>1. Latest(k)' \in Nat /\ Latest(k)' >= Latest(k)
    BY DEF Latest, StreamInv, StreamTypes
  <2> QED BY <2>1, Typed, LineKept DEF StreamInv
<1>3. ASSUME NEW s \in Subscribers PROVE SubTrue(s)'
  BY DEF StreamInv, SubTrue, Seen
<1> QED BY <1>1, <1>2, <1>3 DEF StreamInv

(* A step of one upstream connection.                                        *)
LEMMA UpstreamKeeps ==
  ASSUME StreamInv, UNCHANGED <<rev, log, fmap, sub>>, NEW g \in DOMAIN up,
         NEW u \in Connections,
         up' = [up EXCEPT ![g] = u], u.key = "log" => u.sent >= 0,
         \A k \in Keys : fmap[k].gen = g => LineTrue(k)'
  PROVE  StreamInv'
<1>1. StreamTypes'
  BY DEF StreamInv, StreamTypes
<1>2. ASSUME NEW k \in Keys PROVE LineTrue(k)'
  <2>1. CASE fmap[k].gen # g
    <3>1. Latest(k)' = Latest(k) /\ \A h \in DOMAIN up : h # g => h \in DOMAIN up' /\ up'[h] = up[h]
      BY DEF Latest
    <3> QED BY <2>1, <3>1, Typed, LineKept DEF StreamInv
  <2> QED BY <2>1
<1>3. ASSUME NEW s \in Subscribers PROVE SubTrue(s)'
  BY DEF StreamInv, SubTrue, Seen
<1> QED BY <1>1, <1>2, <1>3 DEF StreamInv

LEMMA Connected ==
  ASSUME NEW r \in Connections
  PROVE  r.key \in Keys /\ r.st \in {"new", "stream", "closed", "reaped"} /\ r.sent \in Int /\ r.chan \in Seq(Frames)
BY DEF Connections

LEMMA RouteKeeps == ASSUME StreamInv, NEW g \in DOMAIN up, Route(g) PROVE StreamInv'
<1> DEFINE u == IF sole THEN [up[g] EXCEPT !.st = "stream"] ELSE [up[g] EXCEPT !.st = "closed", !.chan = <<Error>>]
<1>1. up[g].st = "new" /\ UNCHANGED <<rev, log, fmap, sub>>
  BY DEF Route, server
<1>2. up' = [up EXCEPT ![g] = u]
  BY DEF Route
<1>3. Error \in Frames /\ Error.k = "error"
  BY DEF Error, Frame, Frames
<1>4. u \in Connections /\ u.key = up[g].key /\ u.sent = up[g].sent
      /\ \/ u.st = "stream" /\ u.chan = up[g].chan
         \/ u.st = "closed" /\ u.chan = <<Error>>
  <2>1. up[g] \in Connections /\ <<Error>> \in Seq(Frames)
    BY <1>3 DEF StreamInv, StreamTypes
  <2>2. CASE sole
    BY <2>1, <2>2 DEF Connections
  <2>3. CASE ~sole
    BY <2>1, <2>3 DEF Connections
  <2> QED BY <2>2, <2>3
<1>5. up'[g] = u /\ g \in DOMAIN up'
  BY <1>2
<1> HIDE DEF u
<1>6. ASSUME NEW k \in Keys, fmap[k].gen = g PROVE LineTrue(k)'
  <2>1. g # 0 /\ up[g].key = k /\ Line(k) = <<>> /\ up[g].sent <= Latest(k)
        /\ up[g].sent = (IF k = "atom" THEN -1 ELSE 0)
    BY <1>1, <1>6, Typed DEF StreamInv, LineTrue
  <2>2. fmap[k].history = <<>> /\ up[g].chan = <<>>
    BY <1>6, <2>1, Typed, Joined DEF Line, StreamInv
  <2>3. Line(k)' = u.chan /\ Latest(k)' = Latest(k)
    BY <1>1, <1>4, <1>5, <1>6, <2>2 DEF Line, Latest
  <2>4. Chain(<<>>) /\ Chain(<<Error>>) /\ \A i \in 1..Len(u.chan) : u.chan[i].k # "event"
    BY <1>3, <1>4, <2>2 DEF Chain
  <2> QED BY <1>1, <1>4, <1>5, <1>6, <2>1, <2>2, <2>3, <2>4 DEF LineTrue
<1>7. u.key = "log" => u.sent >= 0
  BY <1>4 DEF StreamInv, StreamTypes
<1> QED BY <1>1, <1>2, <1>4, <1>6, <1>7, UpstreamKeeps

LEMMA ChainAppend ==
  ASSUME NEW l \in Seq(Frames), NEW f \in Frames, Chain(l),
         l = <<>> => f.k # "event" \/ f.n = 1,
         l # <<>> => Succeeds(f, l[Len(l)])
  PROVE  Chain(Append(l, f))
<1>1. /\ Len(Append(l, f)) = Len(l) + 1 /\ Append(l, f)[Len(l) + 1] = f /\ Len(l) \in Nat
      /\ \A i \in 1..Len(l) : Append(l, f)[i] = l[i]
  BY OneMore
<1> DEFINE c == Append(l, f)
<1>2. c # <<>> /\ (l = <<>> <=> Len(l) = 0)
  BY <1>1
<1> HIDE DEF c
<1>3. c[1].k = "event" => c[1].n = 1
  <2>1. CASE l = <<>>
    BY <1>1, <1>2, <2>1 DEF c
  <2>2. CASE l # <<>>
    <3>1. c[1] = l[1]
      BY <1>1, <1>2, <2>2 DEF c
    <3> QED BY <2>2, <3>1 DEF Chain
  <2> QED BY <2>1, <2>2
<1>4. ASSUME NEW i \in 1..(Len(c) - 1) PROVE Succeeds(c[i + 1], c[i])
  <2>1. CASE i = Len(l)
    BY <1>1, <1>2, <2>1 DEF c
  <2>2. CASE i # Len(l)
    <3>1. i \in 1..(Len(l) - 1) /\ c[i] = l[i] /\ c[i + 1] = l[i + 1]
      BY <1>1, <2>2 DEF c
    <3> QED BY <3>1 DEF Chain
  <2> QED BY <2>1, <2>2
<1> QED BY <1>2, <1>3, <1>4 DEF Chain, c

LEMMA ChainBatch ==
  ASSUME NEW l \in Seq(Frames), Chain(l), NEW m \in Nat, NEW n \in Nat, m < n,
         IF l = <<>> THEN m = 0 ELSE l[Len(l)] = Frame("event", m)
  PROVE  LET c == l \o [i \in 1..(n - m) |-> Frame("event", m + i)]
         IN  c \in Seq(Frames) /\ c # <<>> /\ Chain(c) /\ c[Len(c)] = Frame("event", n)
<1> DEFINE b == [i \in 1..(n - m) |-> Frame("event", m + i)]
           c == l \o b
<1>1. /\ b \in Seq(Frames) /\ Len(b) = n - m /\ n - m >= 1
      /\ \A i \in 1..(n - m) : b[i].k = "event" /\ b[i].n = m + i /\ b[i] = Frame("event", m + i)
  <2>1. \A i \in 1..(n - m) : Frame("event", m + i) \in Frames /\ n - m \in Nat
    BY DEF Frame, Frames
  <2> QED BY <2>1 DEF Frame
<1>2. l = <<>> <=> Len(l) = 0
  OBVIOUS
<1> HIDE DEF b
<1>3. /\ c \in Seq(Frames) /\ Len(c) = Len(l) + (n - m) /\ Len(l) \in Nat
      /\ \A i \in 1..Len(l) : c[i] = l[i]
      /\ \A i \in 1..(n - m) : c[Len(l) + i] = b[i]
  <2>1. b \in Seq(Frames) /\ Len(b) = n - m
    BY <1>1
  <2>2. /\ c \in Seq(Frames) /\ Len(c) = Len(l) + Len(b) /\ Len(l) \in Nat
        /\ \A i \in 1..Len(l) : c[i] = l[i]
        /\ \A i \in 1..Len(b) : c[Len(l) + i] = b[i]
    BY <2>1, Joined
  <2> HIDE DEF c
  <2> QED BY <2>1, <2>2
<1>4. c # <<>>
  BY <1>1, <1>3
<1> HIDE DEF c
<1>5. c[Len(c)] = Frame("event", n)
  BY <1>1, <1>3
<1>6. c[1].k = "event" => c[1].n = 1
  <2>1. CASE l = <<>>
    <3>1. c[1] = b[1] /\ b[1].n = m + 1 /\ m = 0
      BY <1>1, <1>2, <1>3, <2>1
    <3> QED BY <3>1
  <2>2. CASE l # <<>>
    <3>1. c[1] = l[1]
      BY <1>2, <1>3, <2>2
    <3> QED BY <2>2, <3>1 DEF Chain
  <2> QED BY <2>1, <2>2
<1>7. ASSUME NEW i \in 1..(Len(c) - 1) PROVE Succeeds(c[i + 1], c[i])
  <2>1. CASE i < Len(l)
    <3>1. i \in 1..(Len(l) - 1) /\ c[i] = l[i] /\ c[i + 1] = l[i + 1]
      BY <1>3, <2>1
    <3> QED BY <3>1 DEF Chain
  <2>2. CASE i = Len(l)
    <3>1. c[i + 1] = b[1] /\ c[i] = Frame("event", m)
      BY <1>1, <1>2, <1>3, <2>2
    <3>2. b[1].k = "event" /\ b[1].n = m + 1
      BY <1>1
    <3>3. Frame("event", m).k = "event" /\ Frame("event", m).n = m
      BY DEF Frame
    <3> QED BY <3>1, <3>2, <3>3 DEF Succeeds
  <2>3. CASE i > Len(l)
    <3> DEFINE j == i - Len(l)
    <3>1. j \in 1..(n - m) /\ j + 1 \in 1..(n - m) /\ i = Len(l) + j /\ i + 1 = Len(l) + (j + 1)
      BY <1>3, <2>3
    <3>2. c[i] = b[j] /\ c[i + 1] = b[j + 1]
      BY <1>3, <3>1
    <3> HIDE DEF j
    <3> QED BY <1>1, <3>1, <3>2 DEF Succeeds
  <2> QED BY <1>3, <2>1, <2>2, <2>3
<1> QED BY <1>3, <1>4, <1>5, <1>6, <1>7 DEF Chain, c, b

LEMMA StateKeeps == ASSUME StreamInv, NEW g \in DOMAIN up, StreamState(g) PROVE StreamInv'
<1> DEFINE f == Frame("rev", rev)
           u == [up[g] EXCEPT !.sent = rev, !.chan = Append(@, f)]
<1>1. /\ up[g].st = "stream" /\ up[g].key = "atom" /\ up[g].sent # rev
      /\ UNCHANGED <<rev, log, fmap, sub>>
  BY DEF StreamState, server
<1>2. up' = [up EXCEPT ![g] = u]
  BY DEF StreamState
<1>3. f \in Frames /\ rev \in Nat /\ f.k = "rev" /\ f.n = rev
  BY DEF Frame, Frames, StreamInv, StreamTypes
<1>4. u \in Connections /\ u.key = "atom" /\ u.sent = rev /\ u.st = "stream" /\ u.chan = Append(up[g].chan, f)
  <2>1. up[g] \in Connections
    BY DEF StreamInv, StreamTypes
  <2>2. Append(up[g].chan, f) \in Seq(Frames)
    <3> HIDE DEF f
    <3> QED BY <1>3, <2>1, Connected, OneMore
  <2> DEFINE c == Append(up[g].chan, f)
  <2>3. u = [up[g] EXCEPT !.sent = rev, !.chan = c] /\ c \in Seq(Frames)
    BY <2>2
  <2>4. c = Append(up[g].chan, f)
    OBVIOUS
  <2>5. rev \in Int
    BY <1>3
  <2> HIDE DEF c, u, f
  <2> QED BY <1>1, <2>1, <2>3, <2>4, <2>5 DEF Connections
<1>5. up'[g] = u /\ g \in DOMAIN up'
  BY <1>2
<1> HIDE DEF u, f
<1>6. ASSUME NEW k \in Keys, fmap[k].gen = g PROVE LineTrue(k)'
  <2> DEFINE l == Line(k)
  <2>1. k = "atom" /\ g # 0 /\ Chain(l) /\ up[g].sent <= rev /\ (\A i \in 1..Len(l) : l[i].k # "event")
        /\ IF l = <<>> THEN up[g].sent = -1 ELSE l[Len(l)] = Frame("rev", up[g].sent)
    BY <1>1, <1>6, Typed DEF StreamInv, LineTrue, Latest
  <2>2. fmap[k].history \in Seq(Frames) /\ up[g].chan \in Seq(Frames) /\ up[g].sent \in Int
    BY Typed DEF StreamInv
  <2>3. Line(k)' = Append(l, f) /\ l \in Seq(Frames) /\ Latest(k)' = rev
    <3>1. Latest(k)' = rev /\ fmap'[k].history = fmap[k].history /\ fmap'[k].gen = g
      BY <1>1, <1>6, <2>1 DEF Latest
    <3>2. Line(k)' = fmap[k].history \o Append(up[g].chan, f)
      BY <1>4, <1>5, <3>1 DEF Line
    <3>3. l = fmap[k].history \o up[g].chan
      BY <1>6 DEF Line
    <3>4. \A x \in Seq(Frames), y \in Seq(Frames) : x \o Append(y, f) = Append(x \o y, f) /\ x \o y \in Seq(Frames)
      <4> HIDE DEF l
      <4> QED BY <1>3
    <3> HIDE DEF l
    <3> QED BY <2>2, <3>1, <3>2, <3>3, <3>4
  <2> HIDE DEF l
  <2>4. Chain(Append(l, f))
    <3>1. up[g].sent < rev
      BY <1>1, <1>3, <2>1, <2>2
    <3>2. l # <<>> => Succeeds(f, l[Len(l)])
      BY <1>3, <2>1, <3>1 DEF Succeeds, Frame
    <3> QED BY <1>3, <2>1, <2>3, <3>2, ChainAppend
  <2>5. /\ Append(l, f) # <<>> /\ Append(l, f)[Len(Append(l, f))] = f
        /\ \A i \in 1..Len(Append(l, f)) : Append(l, f)[i].k # "event"
    BY <1>3, <2>1, <2>3, OneMore
  <2>6. /\ fmap'[k].gen = g /\ up'[g].key = "atom" /\ up'[g].sent = rev /\ up'[g].st = "stream" /\ rev <= rev
    BY <1>1, <1>3, <1>4, <1>5, <1>6
  <2>7. f = Frame("rev", rev)
    BY DEF f
  <2> QED BY <1>5, <2>1, <2>3, <2>4, <2>5, <2>6, <2>7 DEF LineTrue
<1> QED BY <1>1, <1>2, <1>4, <1>6, UpstreamKeeps

LEMMA EventsKeep == ASSUME StreamInv, NEW g \in DOMAIN up, StreamEvents(g) PROVE StreamInv'
<1> DEFINE m == up[g].sent
           n == Len(log)
           batch == [i \in 1..(n - m) |-> Frame("event", m + i)]
           u == [up[g] EXCEPT !.sent = n, !.chan = @ \o batch]
<1>1. /\ up[g].st = "stream" /\ up[g].key = "log" /\ m < n
      /\ UNCHANGED <<rev, log, fmap, sub>>
  BY DEF StreamEvents, server
<1>2. up' = [up EXCEPT ![g] = u]
  BY DEF StreamEvents
<1>3. n \in Nat /\ m \in Int /\ up[g].chan \in Seq(Frames)
  BY Typed DEF StreamInv, StreamTypes
<1>4. batch \in Seq(Frames) /\ up[g].chan \o batch \in Seq(Frames)
  <2>1. m >= 0
    BY <1>1 DEF StreamInv, StreamTypes
  <2>2. \A i \in 1..(n - m) : Frame("event", m + i) \in Frames
    BY <1>3, <2>1 DEF Frame, Frames
  <2>3. n - m \in Nat
    BY <1>1, <1>3
  <2>4. batch \in Seq(Frames)
    BY <2>2, <2>3
  <2> HIDE DEF batch
  <2> QED BY <1>3, <2>4
<1>5. /\ u \in Connections /\ u.key = "log" /\ u.sent = n /\ u.st = "stream"
      /\ u.chan = up[g].chan \o batch
  <2>1. up[g] \in Connections /\ n \in Int
    BY DEF StreamInv, StreamTypes
  <2> DEFINE c == up[g].chan \o batch
  <2>2. u = [up[g] EXCEPT !.sent = n, !.chan = c] /\ c \in Seq(Frames)
    BY <1>4
  <2>3. c = up[g].chan \o batch
    OBVIOUS
  <2> HIDE DEF batch, n, c, u
  <2> QED BY <1>1, <2>1, <2>2, <2>3 DEF Connections
<1>6. up'[g] = u /\ g \in DOMAIN up'
  BY <1>2
<1>7. batch = [i \in 1..(n - m) |-> Frame("event", m + i)]
  OBVIOUS
<1> HIDE DEF u, batch
<1>8. ASSUME NEW k \in Keys, fmap[k].gen = g PROVE LineTrue(k)'
  <2> DEFINE l == Line(k)
  <2>1. k = "log" /\ g # 0 /\ Chain(l) /\ IF l = <<>> THEN m = 0 ELSE l[Len(l)] = Frame("event", m)
    BY <1>1, <1>8, Typed DEF StreamInv, LineTrue, Latest
  <2>2. fmap[k].history \in Seq(Frames) /\ l \in Seq(Frames) /\ m \in Nat
    BY <1>1, <1>3, <1>8, Typed, Joined DEF StreamInv, StreamTypes, Line
  <2>3. Line(k)' = l \o batch /\ Latest(k)' = n
    <3>1. Latest(k)' = n /\ fmap'[k].history = fmap[k].history /\ fmap'[k].gen = g
      BY <1>1, <1>8, <2>1 DEF Latest
    <3>2. Line(k)' = fmap[k].history \o (up[g].chan \o batch)
      BY <1>5, <1>6, <3>1 DEF Line
    <3>3. l = fmap[k].history \o up[g].chan
      BY <1>8 DEF Line
    <3>4. \A x \in Seq(Frames), y \in Seq(Frames), z \in Seq(Frames) : x \o (y \o z) = (x \o y) \o z
      OBVIOUS
    <3>5. fmap[k].history \o (up[g].chan \o batch) = (fmap[k].history \o up[g].chan) \o batch
      BY <1>3, <1>4, <2>2, <3>4
    <3>6. n = Len(log)
      OBVIOUS
    <3> HIDE DEF l, n
    <3> QED BY <3>1, <3>2, <3>3, <3>5, <3>6
  <2> HIDE DEF l, n, m
  <2>4. LET c == l \o batch IN c # <<>> /\ Chain(c) /\ c[Len(c)] = Frame("event", n)
    BY <1>1, <1>3, <1>7, <2>1, <2>2, ChainBatch
  <2>5. fmap'[k].gen = g /\ n <= n
    BY <1>1, <1>3, <1>8
  <2> QED BY <1>5, <1>6, <2>1, <2>3, <2>4, <2>5 DEF LineTrue
<1>9. u.key = "log" => u.sent >= 0
  BY <1>3, <1>5
<1> QED BY <1>1, <1>2, <1>5, <1>8, <1>9, UpstreamKeeps

(* A key has a subscriber registered only if its own key and id say so.      *)
LEMMA Members ==
  ASSUME StreamInv, NEW k \in Keys, NEW s \in Subscribers, s \in {p[2] : p \in fmap[k].subs}
  PROVE  /\ fmap[k].gen # 0 /\ sub[s].st = "open" /\ sub[s].key = k
         /\ UpTo(Seen(s), fmap[k].history)
         /\ \A p \in fmap[k].subs : p[2] = s => p[1] = sub[s].id
<1>1. PICK p \in fmap[k].subs : p[2] = s
  OBVIOUS
<1>2. SubTrue(s)
  BY DEF StreamInv
<1> QED BY <1>1, <1>2 DEF SubTrue

LEMMA HeadAndTail ==
  ASSUME NEW c \in Seq(Frames), c # <<>>, NEW h \in Seq(Frames)
  PROVE  <<Head(c)>> \o Tail(c) = c /\ Append(h, Head(c)) \o Tail(c) = h \o c
OBVIOUS

LEMMA ChainSuffix ==
  ASSUME NEW h \in Seq(Frames), NEW c \in Seq(Frames), Chain(h \o c), c # <<>>,
         \A i \in 1..Len(h \o c) : (h \o c)[i].k # "event"
  PROVE  Chain(c) /\ c[Len(c)] = (h \o c)[Len(h \o c)] /\ \A i \in 1..Len(c) : c[i].k # "event"
<1> DEFINE d == h \o c
<1>1. /\ Len(h) \in Nat /\ Len(c) \in Nat /\ Len(c) >= 1 /\ Len(d) = Len(h) + Len(c)
      /\ \A i \in 1..Len(c) : d[Len(h) + i] = c[i]
  BY Joined
<1>2. Chain(d) /\ \A i \in 1..Len(d) : d[i].k # "event"
  OBVIOUS
<1>3. d = h \o c
  OBVIOUS
<1> HIDE DEF d
<1>4. \A i \in 1..Len(c) : Len(h) + i \in 1..Len(d)
  BY <1>1
<1>5. \A i \in 1..Len(c) : c[i].k # "event"
  BY <1>1, <1>2, <1>4
<1>6. c[Len(c)] = d[Len(d)]
  BY <1>1
<1>7. ASSUME NEW i \in 1..(Len(c) - 1) PROVE Succeeds(c[i + 1], c[i])
  <2>1. Len(h) + i \in 1..(Len(d) - 1) /\ Len(h) + (i + 1) = (Len(h) + i) + 1
    BY <1>1
  <2>3. i \in 1..Len(c) /\ i + 1 \in 1..Len(c)
    BY <1>1
  <2>4. c[i] = d[Len(h) + i] /\ c[i + 1] = d[Len(h) + (i + 1)]
    BY <1>1, <2>3
  <2>2. c[i] = d[Len(h) + i] /\ c[i + 1] = d[(Len(h) + i) + 1]
    BY <2>1, <2>4
  <2> QED BY <1>2, <2>1, <2>2 DEF Chain
<1>8. 1 \in 1..Len(c)
  BY <1>1
<1> QED BY <1>3, <1>5, <1>6, <1>7, <1>8 DEF Chain

LEMMA ReaderKeeps == ASSUME StreamInv, NEW g \in DOMAIN up, Reader(g) PROVE StreamInv'
<1> DEFINE k == up[g].key
           f == Head(up[g].chan)
           rest == Tail(up[g].chan)
           mine == {p[2] : p \in fmap[k].subs}
<1>1. /\ up[g].st \notin {"new", "reaped"} /\ up[g].chan # <<>>
      /\ UNCHANGED <<rev, log>>
  BY DEF Reader, server
<1>2. k \in Keys /\ up[g].chan \in Seq(Frames) /\ up[g] \in Connections
  BY Typed DEF StreamInv, StreamTypes
<1>3. f \in Frames /\ rest \in Seq(Frames) /\ f = up[g].chan[1]
  BY <1>1, <1>2
<1>4. CASE fmap[k].gen # g
  <2> DEFINE u == [up[g] EXCEPT !.st = "reaped", !.chan = <<>>]
  <2>1. up' = [up EXCEPT ![g] = u] /\ UNCHANGED <<fmap, sub>>
    BY <1>4 DEF Reader
  <2>2. u \in Connections /\ u.key = up[g].key /\ u.sent = up[g].sent
    <3>1. <<>> \in Seq(Frames) /\ up[g] \in Connections
      BY <1>2
    <3> QED BY <3>1 DEF Connections
  <2>3. ASSUME NEW j \in Keys, fmap[j].gen = g PROVE FALSE
    <3>1. up[g].key = j
      BY <2>3, Typed DEF StreamInv, LineTrue
    <3> QED BY <1>4, <2>3, <3>1
  <2>4. u.key = "log" => u.sent >= 0
    BY <2>2 DEF StreamInv, StreamTypes
  <2> HIDE DEF u
  <2> QED BY <1>1, <2>1, <2>2, <2>3, <2>4, UpstreamKeeps
<1>5. CASE fmap[k].gen = g
  <2> DEFINE h == fmap[k].history
             new == IF k = "atom" THEN <<f>> ELSE Append(h, f)
  <2>1. /\ up' = [up EXCEPT ![g].chan = rest]
        /\ fmap' = [fmap EXCEPT ![k].history = new]
        /\ sub' = [s \in Subscribers |-> IF s \in mine THEN [sub[s] EXCEPT !.q = push(@, f)] ELSE sub[s]]
    BY <1>5 DEF Reader
  <2>2. h \in Seq(Frames) /\ new \in Seq(Frames) /\ new # <<>> /\ new[Len(new)] = f
    <3>1. h \in Seq(Frames)
      BY <1>2, Typed DEF StreamInv
    <3> HIDE DEF h, f
    <3>2. CASE k = "atom"
      BY <1>3, <3>1, <3>2
    <3>3. CASE k # "atom"
      BY <1>3, <3>1, <3>3, OneMore
    <3> QED BY <3>1, <3>2, <3>3
  <2>3. /\ g # 0 /\ Chain(h \o up[g].chan)
        /\ k = "atom" => \A i \in 1..Len(h \o up[g].chan) : (h \o up[g].chan)[i].k # "event"
        /\ up[g].st # "closed" =>
             /\ (h \o up[g].chan)[Len(h \o up[g].chan)] = Frame(IF k = "atom" THEN "rev" ELSE "event", up[g].sent)
             /\ up[g].sent <= Latest(k)
        /\ up[g].st \in {"stream", "closed"}
    <3>1. LineTrue(k) /\ g # 0
      BY <1>2, <1>5, Typed DEF StreamInv
    <3>2. Line(k) = h \o up[g].chan
      BY <1>5 DEF Line
    <3>3. h \o up[g].chan # <<>>
      BY <1>1, <1>2, <2>2
    <3> HIDE DEF h, f, k
    <3> QED BY <1>1, <1>5, <3>1, <3>2, <3>3 DEF LineTrue
  <2> DEFINE n == new \o rest
             l == h \o up[g].chan
  <2>4. n # <<>> /\ Chain(n) /\ n[Len(n)] = l[Len(l)] /\ (k = "atom" => \A i \in 1..Len(n) : n[i].k # "event")
    <3> HIDE DEF h
    <3>1. CASE k = "atom"
      <4>1. n = up[g].chan
        BY <1>1, <1>2, <3>1, HeadAndTail
      <4> HIDE DEF n, f, rest, new
      <4> QED BY <1>1, <1>2, <2>2, <2>3, <3>1, <4>1, ChainSuffix
    <3>2. CASE k # "atom"
      <4>1. n = l
        BY <1>1, <1>2, <2>2, <3>2, HeadAndTail
      <4>2. l # <<>>
        BY <1>1, <1>2, <2>2
      <4> HIDE DEF n, f, rest, new
      <4> QED BY <2>3, <3>2, <4>1, <4>2
    <3> QED BY <3>1, <3>2
  <2> HIDE DEF n, l
  <2>5. /\ up'[g].chan = rest /\ up'[g].key = k /\ up'[g].st = up[g].st /\ up'[g].sent = up[g].sent
        /\ up'[g] \in Connections /\ DOMAIN up' = DOMAIN up
        /\ \A j \in DOMAIN up : j # g => up'[j] = up[j]
    <3> DEFINE u == [up[g] EXCEPT !.chan = rest]
    <3>1. u \in Connections /\ u.key = k /\ u.st = up[g].st /\ u.sent = up[g].sent /\ u.chan = rest
      <4> HIDE DEF f, rest
      <4> QED BY <1>2, <1>3 DEF Connections
    <3>2. up' = [up EXCEPT ![g] = u]
      BY <2>1
    <3> HIDE DEF u
    <3> QED BY <3>1, <3>2
  <2>6. /\ fmap'[k].history = new /\ fmap'[k].gen = fmap[k].gen /\ fmap'[k].subs = fmap[k].subs
        /\ fmap'[k] \in Entries /\ DOMAIN fmap' = Keys
        /\ \A j \in Keys : j # k => fmap'[j] = fmap[j]
    <3> DEFINE e == [fmap[k] EXCEPT !.history = new]
    <3>0. fmap[k] \in Entries /\ DOMAIN fmap = Keys
      BY <1>2 DEF StreamInv, StreamTypes
    <3>1. e \in Entries /\ e.history = new /\ e.gen = fmap[k].gen /\ e.subs = fmap[k].subs
      <4> HIDE DEF new
      <4> QED BY <2>2, <3>0 DEF Entries
    <3>2. fmap' = [fmap EXCEPT ![k] = e]
      BY <2>1
    <3> HIDE DEF e
    <3> QED BY <1>2, <3>0, <3>1, <3>2
  <2>7. ASSUME NEW s \in Subscribers
        PROVE  /\ sub'[s] \in Subscriptions /\ sub'[s].st = sub[s].st /\ sub'[s].key = sub[s].key
               /\ sub'[s].id = sub[s].id /\ sub'[s].got = sub[s].got
               /\ sub'[s].q = IF s \in mine THEN push(sub[s].q, f) ELSE sub[s].q
    <3>1. sub[s] \in Subscriptions /\ sub[s].q \in Seq(Frames)
      BY Typed DEF StreamInv, StreamTypes
    <3>2. push(sub[s].q, f) \in Seq(Frames)
      <4>1. Resync \in Frames
        BY DEF Resync, Frame, Frames
      <4> HIDE DEF f
      <4> QED BY <1>3, <3>1, <4>1 DEF push
    <3> HIDE DEF f, mine
    <3>3. CASE s \in mine
      <4> DEFINE r == [sub[s] EXCEPT !.q = push(sub[s].q, f)]
      <4>1. sub'[s] = r
        BY <2>1, <3>3
      <4>2. /\ r \in Subscriptions /\ r.st = sub[s].st /\ r.key = sub[s].key
            /\ r.id = sub[s].id /\ r.got = sub[s].got /\ r.q = push(sub[s].q, f)
        BY <3>1, <3>2 DEF Subscriptions
      <4> HIDE DEF r
      <4> QED BY <3>3, <4>1, <4>2
    <3>4. CASE s \notin mine
      BY <2>1, <3>1, <3>4
    <3> QED BY <3>3, <3>4
  <2>8. StreamTypes'
    <3>1. up' \in Seq(Connections)
      <4>1. up \in Seq(Connections)
        BY DEF StreamInv, StreamTypes
      <4>2. up' = [up EXCEPT ![g] = up'[g]]
        BY <2>1
      <4> QED BY <2>5, <4>1, <4>2
    <3>2. fmap' \in [Keys -> Entries]
      <4>1. fmap' = [j \in Keys |-> fmap'[j]]
        BY <2>1, <2>6
      <4>2. \A j \in Keys : fmap'[j] \in Entries
        BY <2>6 DEF StreamInv, StreamTypes
      <4> QED BY <4>1, <4>2
    <3>3. sub' \in [Subscribers -> Subscriptions]
      <4>1. sub' = [s \in Subscribers |-> sub'[s]]
        BY <2>1
      <4> QED BY <2>7, <4>1
    <3>4. \A j \in DOMAIN up' : up'[j].key = "log" => up'[j].sent >= 0
      BY <2>5 DEF StreamInv, StreamTypes
    <3> QED BY <1>1, <3>1, <3>2, <3>3, <3>4 DEF StreamInv, StreamTypes
  <2>9. ASSUME NEW j \in Keys PROVE LineTrue(j)'
    <3>1. CASE j # k
      <4>1. fmap[j].gen # g \/ fmap[j].gen = 0
        BY <3>1, Typed DEF StreamInv, LineTrue
      <4>2. Latest(j)' = Latest(j) /\ fmap'[j] = fmap[j]
        BY <1>1, <2>6, <3>1 DEF Latest
      <4>3. fmap[j].gen \in DOMAIN up => fmap[j].gen # 0
        BY <1>1, Typed DEF StreamInv
      <4> QED BY <2>5, <4>1, <4>2, <4>3, Typed, LineKept DEF StreamInv
    <3>2. CASE j = k
      <4>1. Line(j)' = n /\ Latest(j)' = Latest(j) /\ g \in DOMAIN up'
        BY <1>1, <1>5, <2>5, <2>6, <3>2 DEF Line, Latest, n
      <4>2. l = h \o up[g].chan
        BY DEF l
      <4> HIDE DEF k, h, new, f, rest, mine
      <4> QED BY <1>5, <2>3, <2>4, <2>5, <2>6, <3>2, <4>1, <4>2 DEF LineTrue
    <3> QED BY <3>1, <3>2
  <2>10. ASSUME NEW s \in Subscribers PROVE SubTrue(s)'
    <3>1. SubTrue(s) /\ sub[s].got \in Seq(Frames) /\ sub[s].q \in Seq(Frames)
      BY Typed DEF StreamInv
    <3>2. CASE s \in mine
      <4>1. /\ sub[s].st = "open" /\ sub[s].key = k /\ UpTo(Seen(s), h)
            /\ \A p \in fmap[k].subs : p[2] = s => p[1] = sub[s].id
        BY <1>2, <3>2, Members
      <4>2. MayFollow(Seen(s), f) /\ Ordered(Seen(s)) /\ Seen(s) \in Seq(Frames)
        <5>1. Ordered(Seen(s)) /\ Seen(s) \in Seq(Frames)
          BY <3>1, Joined DEF SubTrue, Seen
        <5> HIDE DEF h
        <5>2. MayFollow(Seen(s), up[g].chan[1])
          BY <1>1, <1>2, <2>2, <2>3, <4>1, <5>1, FollowsLine
        <5> QED BY <1>3, <5>1, <5>2
      <4>3. Seen(s)' = sub[s].got \o push(sub[s].q, f)
        BY <2>7, <3>2 DEF Seen
      <4>4. Ordered(Seen(s)') /\ HasLast(Seen(s)', f)
        <5> HIDE DEF f, h, k, mine
        <5> QED BY <1>3, <3>1, <4>2, <4>3, Pushes DEF Seen
      <4>5. UpTo(Seen(s)', fmap'[k].history)
        <5> HIDE DEF f, new
        <5> QED BY <2>2, <2>6, <4>4 DEF UpTo
      <4>6. ASSUME NEW j \in Keys, NEW p \in fmap'[j].subs, p[2] = s PROVE j = k
        <5>1. p \in fmap[j].subs
          BY <2>6, <4>6
        <5> QED BY <3>1, <4>1, <4>6, <5>1 DEF SubTrue
      <4>7. fmap'[k].gen # 0 /\ fmap'[k].subs = fmap[k].subs
        BY <1>5, <2>3, <2>6
      <4> HIDE DEF k, h, new, f, rest, mine
      <4> QED BY <2>7, <4>1, <4>4, <4>5, <4>6, <4>7 DEF SubTrue
    <3>3. CASE s \notin mine
      <4>1. Seen(s)' = Seen(s)
        BY <2>7, <3>3 DEF Seen
      <4>2. ASSUME NEW j \in Keys, NEW p \in fmap'[j].subs, p[2] = s PROVE j # k /\ p \in fmap[j].subs
        BY <2>6, <3>3, <4>2
      <4> HIDE DEF k, h, new, f, rest, mine
      <4> QED BY <2>6, <2>7, <3>1, <4>1, <4>2 DEF SubTrue
    <3> QED BY <3>2, <3>3
  <2> QED BY <2>8, <2>9, <2>10 DEF StreamInv
<1> QED BY <1>4, <1>5

LEMMA ReaderEndKeeps == ASSUME StreamInv, NEW g \in DOMAIN up, ReaderEnd(g) PROVE StreamInv'
<1> DEFINE k == up[g].key
           mine == {p[2] : p \in fmap[k].subs}
           u == [up[g] EXCEPT !.st = "reaped"]
<1>1. up' = [up EXCEPT ![g] = u] /\ UNCHANGED <<rev, log>>
  BY DEF ReaderEnd, server
<1>2. k \in Keys /\ up[g] \in Connections
  BY Typed DEF StreamInv, StreamTypes
<1>3. u \in Connections /\ u.key = up[g].key /\ u.sent = up[g].sent
  BY <1>2 DEF Connections
<1>4. u.key = "log" => u.sent >= 0
  BY <1>3 DEF StreamInv, StreamTypes
<1> HIDE DEF u
<1>5. ASSUME NEW j \in Keys, fmap[j].gen = g PROVE j = k
  BY <1>5, Typed DEF StreamInv, LineTrue
<1>6. CASE fmap[k].gen # g
  <2>1. UNCHANGED <<fmap, sub>>
    BY <1>6 DEF ReaderEnd
  <2>2. \A j \in Keys : fmap[j].gen # g
    BY <1>5, <1>6
  <2> QED BY <1>1, <1>3, <1>4, <2>1, <2>2, UpstreamKeeps
<1>7. CASE fmap[k].gen = g
  <2>1. /\ sub' = [s \in Subscribers |-> IF s \in mine THEN [sub[s] EXCEPT !.closed = TRUE] ELSE sub[s]]
        /\ fmap' = [fmap EXCEPT ![k] = NoEntry]
    BY <1>7 DEF ReaderEnd
  <2>2. NoEntry \in Entries /\ NoEntry.gen = 0 /\ NoEntry.subs = {}
    BY DEF NoEntry, Entries
  <2>3. fmap \in [Keys -> Entries] /\ up \in Seq(Connections) /\ sub \in [Subscribers -> Subscriptions]
    BY DEF StreamInv, StreamTypes
  <2>4. /\ fmap' \in [Keys -> Entries] /\ fmap'[k] = NoEntry
        /\ \A j \in Keys : j # k => fmap'[j] = fmap[j]
    BY <1>2, <2>1, <2>2, <2>3
  <2>5. ASSUME NEW s \in Subscribers
        PROVE  /\ sub'[s] \in Subscriptions /\ sub'[s].st = sub[s].st /\ sub'[s].key = sub[s].key
               /\ sub'[s].id = sub[s].id /\ sub'[s].got = sub[s].got /\ sub'[s].q = sub[s].q
    <3>1. sub[s] \in Subscriptions
      BY <2>3
    <3> HIDE DEF mine
    <3> QED BY <2>1, <3>1 DEF Subscriptions
  <2>6. StreamTypes'
    <3>1. up' \in Seq(Connections) /\ \A j \in DOMAIN up' : up'[j].key = "log" => up'[j].sent >= 0
      BY <1>1, <1>3, <1>4, <2>3 DEF StreamInv, StreamTypes
    <3>2. sub' \in [Subscribers -> Subscriptions]
      <4>1. sub' = [s \in Subscribers |-> sub'[s]]
        BY <2>1
      <4> QED BY <2>5, <4>1
    <3> QED BY <1>1, <2>4, <3>1, <3>2 DEF StreamInv, StreamTypes
  <2>7. ASSUME NEW j \in Keys PROVE LineTrue(j)'
    <3>1. CASE j # k
      <4>1. fmap[j].gen # g
        BY <1>5, <3>1
      <4>2. Latest(j)' = Latest(j) /\ fmap'[j] = fmap[j]
        BY <1>1, <2>4, <3>1 DEF Latest
      <4>3. \A i \in DOMAIN up : i # g => i \in DOMAIN up' /\ up'[i] = up[i]
        BY <1>1
      <4> QED BY <4>1, <4>2, <4>3, Typed, LineKept DEF StreamInv
    <3>2. CASE j = k
      BY <2>2, <2>4, <3>2 DEF LineTrue
    <3> QED BY <3>1, <3>2
  <2>8. ASSUME NEW s \in Subscribers PROVE SubTrue(s)'
    <3>1. Seen(s)' = Seen(s) /\ SubTrue(s)
      BY <2>5 DEF Seen, StreamInv
    <3>2. ASSUME NEW j \in Keys, NEW p \in fmap'[j].subs, p[2] = s PROVE j # k /\ fmap'[j] = fmap[j]
      BY <2>2, <2>4, <3>2
    <3> HIDE DEF k, mine
    <3> QED BY <2>5, <3>1, <3>2 DEF SubTrue
  <2> QED BY <2>6, <2>7, <2>8 DEF StreamInv
<1> QED BY <1>6, <1>7

LEMMA BrowserKeeps == ASSUME StreamInv, NEW s \in Subscribers, recv(s) \/ closer(s) PROVE StreamInv'
<1>1. UNCHANGED <<rev, log, up, fmap>>
  BY DEF recv, closer, server
<1>2. sub \in [Subscribers -> Subscriptions] /\ sub[s] \in Subscriptions
  BY DEF StreamInv, StreamTypes
<1>3. sub[s].got \in Seq(Frames) /\ sub[s].q \in Seq(Frames)
  BY Typed DEF StreamInv
<1>4. PICK r \in Subscriptions : /\ sub' = [sub EXCEPT ![s] = r]
                                /\ r.st = sub[s].st /\ r.key = sub[s].key /\ r.id = sub[s].id
                                /\ r.got \o r.q = Seen(s)
  <2>1. CASE recv(s)
    <3> DEFINE a == Append(sub[s].got, Head(sub[s].q))
               b == Tail(sub[s].q)
               r == [sub[s] EXCEPT !.q = b, !.got = a]
    <3>1. a \in Seq(Frames) /\ b \in Seq(Frames) /\ a \o b = Seen(s)
      <4>1. sub[s].q # <<>>
        BY <2>1 DEF recv
      <4>2. Head(sub[s].q) \in Frames /\ b \in Seq(Frames)
        BY <1>3, <4>1
      <4>3. a \in Seq(Frames)
        BY <1>3, <4>2, OneMore
      <4>4. a \o b = Seen(s)
        BY <1>3, <4>1, HeadAndTail DEF Seen
      <4> QED BY <4>2, <4>3, <4>4
    <3>2. sub' = [sub EXCEPT ![s] = r]
      BY <2>1 DEF recv
    <3> HIDE DEF a, b
    <3>3. /\ r \in Subscriptions /\ r.st = sub[s].st /\ r.key = sub[s].key /\ r.id = sub[s].id
          /\ r.got = a /\ r.q = b
      BY <1>2, <3>1 DEF Subscriptions
    <3> HIDE DEF r
    <3> QED BY <3>1, <3>2, <3>3
  <2>2. CASE closer(s)
    <3> DEFINE r == [sub[s] EXCEPT !.closed = TRUE]
    <3>2. sub' = [sub EXCEPT ![s] = r]
      BY <2>2 DEF closer
    <3>3. /\ r \in Subscriptions /\ r.st = sub[s].st /\ r.key = sub[s].key /\ r.id = sub[s].id
          /\ r.got = sub[s].got /\ r.q = sub[s].q
      BY <1>2 DEF Subscriptions
    <3> HIDE DEF r
    <3> QED BY <3>2, <3>3 DEF Seen
  <2> QED BY <2>1, <2>2
<1>5. StreamTypes'
  BY <1>1, <1>2, <1>4 DEF StreamInv, StreamTypes
<1>6. ASSUME NEW j \in Keys PROVE LineTrue(j)'
  BY <1>1 DEF StreamInv, LineTrue, Line, Latest
<1>7. ASSUME NEW t \in Subscribers PROVE SubTrue(t)'
  <2>1. /\ sub'[t].st = sub[t].st /\ sub'[t].key = sub[t].key /\ sub'[t].id = sub[t].id
        /\ Seen(t)' = Seen(t)
    BY <1>2, <1>4 DEF Seen
  <2> QED BY <1>1, <2>1 DEF StreamInv, SubTrue
<1> QED BY <1>5, <1>6, <1>7 DEF StreamInv

LEMMA DropKeeps == ASSUME StreamInv, NEW s \in Subscribers, Drop(s) PROVE StreamInv'
<1> DEFINE k == sub[s].key
           left == {p \in fmap[k].subs : p[1] # sub[s].id}
           r == [sub[s] EXCEPT !.st = "gone", !.q = <<>>]
           e == IF left = {} THEN NoEntry ELSE [fmap[k] EXCEPT !.subs = left]
<1>1. UNCHANGED <<rev, log, up>> /\ sub' = [sub EXCEPT ![s] = r]
  BY DEF Drop, server
<1>2. sub \in [Subscribers -> Subscriptions] /\ sub[s] \in Subscriptions /\ fmap \in [Keys -> Entries]
  BY DEF StreamInv, StreamTypes
<1>3. r \in Subscriptions /\ r.got = sub[s].got /\ r.q = <<>> /\ k \in Keys
  <2>1. <<>> \in Seq(Frames)
    OBVIOUS
  <2> QED BY <1>2, <2>1 DEF Subscriptions
<1>4. PICK n \in Entries : /\ fmap' = [fmap EXCEPT ![k] = n]
                           /\ n.subs \subseteq fmap[k].subs
                           /\ (fmap[k].gen # 0 => n.subs \subseteq left)
                           /\ n = NoEntry \/ (n.gen = fmap[k].gen /\ n.history = fmap[k].history)
  <2>1. CASE fmap[k].gen = 0
    <3>1. fmap' = [fmap EXCEPT ![k] = fmap[k]] /\ fmap[k] \in Entries
      BY <1>2, <1>3, <2>1 DEF Drop
    <3> QED BY <2>1, <3>1
  <2>2. CASE fmap[k].gen # 0
    <3>1. fmap' = [fmap EXCEPT ![k] = e] /\ fmap[k] \in Entries /\ left \subseteq fmap[k].subs
      BY <1>2, <1>3, <2>2 DEF Drop
    <3>2. CASE left = {}
      <4>1. e = NoEntry /\ NoEntry \in Entries /\ NoEntry.subs = {}
        BY <3>2 DEF NoEntry, Entries
      <4> QED BY <3>1, <4>1
    <3>3. CASE left # {}
      <4>1. e = [fmap[k] EXCEPT !.subs = left]
        BY <3>3
      <4> HIDE DEF left, e, k
      <4>2. e \in Entries /\ e.subs = left /\ e.gen = fmap[k].gen /\ e.history = fmap[k].history
        BY <3>1, <4>1 DEF Entries
      <4> QED BY <3>1, <4>2
    <3> QED BY <3>2, <3>3
  <2> QED BY <2>1, <2>2
<1> HIDE DEF r, e
<1>9. fmap'[k] = n /\ fmap' \in [Keys -> Entries] /\ \A j \in Keys : j # k => fmap'[j] = fmap[j]
  <2>1. k \in Keys
    BY <1>3
  <2>2. fmap' = [fmap EXCEPT ![k] = n] /\ fmap \in [Keys -> Entries]
    BY <1>2, <1>4
  <2> HIDE DEF k, left
  <2> QED BY <2>1, <2>2
<1>10. sub'[s] = r /\ sub' \in [Subscribers -> Subscriptions] /\ \A t \in Subscribers : t # s => sub'[t] = sub[t]
  BY <1>1, <1>2, <1>3
<1>11. /\ n.subs \subseteq fmap[k].subs
       /\ fmap[k].gen # 0 => n.subs \subseteq left
       /\ (n.subs = {} /\ n.gen = 0) \/ (n.gen = fmap[k].gen /\ n.history = fmap[k].history)
  <2>1. NoEntry.subs = {} /\ NoEntry.gen = 0
    BY DEF NoEntry
  <2>2. /\ n.subs \subseteq fmap[k].subs
        /\ fmap[k].gen # 0 => n.subs \subseteq left
        /\ n = NoEntry \/ (n.gen = fmap[k].gen /\ n.history = fmap[k].history)
    BY <1>4
  <2> HIDE DEF k, left
  <2> QED BY <2>1, <2>2
<1>5. StreamTypes'
  <2> HIDE DEF k, left
  <2> QED BY <1>1, <1>9, <1>10 DEF StreamInv, StreamTypes
<1>6. ASSUME NEW j \in Keys PROVE LineTrue(j)'
  <2>1. CASE j # k \/ fmap'[j].gen # 0
    <3>1. fmap'[j].gen = fmap[j].gen /\ fmap'[j].history = fmap[j].history
      BY <1>9, <1>11, <2>1
    <3>2. Latest(j)' = Latest(j)
      BY <1>1 DEF Latest
    <3> QED BY <1>1, <3>1, <3>2, Typed, LineKept DEF StreamInv
  <2>2. CASE fmap'[j].gen = 0
    BY <2>2 DEF LineTrue
  <2> QED BY <2>1, <2>2
<1>7. ASSUME NEW t \in Subscribers PROVE SubTrue(t)'
  <2>1. SubTrue(t) /\ sub[t].got \in Seq(Frames) /\ sub[t].q \in Seq(Frames)
    BY Typed DEF StreamInv
  <2>2. ASSUME NEW j \in Keys, NEW p \in fmap'[j].subs
        PROVE  /\ p \in fmap[j].subs /\ (p[2] = t => t # s)
               /\ fmap'[j].history = fmap[j].history /\ fmap'[j].gen = fmap[j].gen
    <3>1. p \in fmap[j].subs
      BY <1>9, <1>11, <2>2
    <3>2. fmap'[j].history = fmap[j].history /\ fmap'[j].gen = fmap[j].gen
      BY <1>9, <1>11, <2>2
    <3>3. ASSUME p[2] = s, t = s PROVE FALSE
      <4>1. fmap[j].gen # 0 /\ j = k /\ p[1] = sub[s].id
        BY <2>1, <3>1, <3>3 DEF SubTrue
      <4>2. p \in left
        BY <1>9, <1>11, <2>2, <4>1
      <4> QED BY <4>1, <4>2
    <3> QED BY <3>1, <3>2, <3>3
  <2>3. CASE t = s
    <3>1. Seen(t)' = sub[s].got
      <4>1. sub[s].got \o <<>> = sub[s].got
        BY <2>1, <2>3
      <4>2. Seen(t)' = r.got \o r.q
        BY <1>10, <2>3 DEF Seen
      <4> QED BY <1>3, <4>1, <4>2
    <3>2. Ordered(sub[s].got)
      BY <2>1, <2>3, OrderedPrefix DEF SubTrue, Seen
    <3> QED BY <2>2, <2>3, <3>1, <3>2 DEF SubTrue
  <2>4. CASE t # s
    <3>1. sub'[t] = sub[t] /\ Seen(t)' = Seen(t)
      BY <1>10, <2>4 DEF Seen
    <3> HIDE DEF k, left
    <3> QED BY <2>1, <2>2, <3>1 DEF SubTrue
  <2> QED BY <2>3, <2>4
<1> QED BY <1>5, <1>6, <1>7 DEF StreamInv

LEMMA SubscribeKeeps == ASSUME StreamInv, NEW s \in Subscribers, NEW k \in Keys, subscribe(s, k) PROVE StreamInv'
<1> DEFINE fresh == fmap[k].gen = 0
           e == IF fresh THEN [NoEntry EXCEPT !.gen = Len(up) + 1] ELSE fmap[k]
           c == [key |-> k, st |-> "new", sent |-> IF k = "atom" THEN -1 ELSE 0, chan |-> <<>>]
           n == [e EXCEPT !.subs = @ \cup {<<e.next, s>>}, !.next = @ + 1]
           b == FoldLeft(push, <<>>, e.history)
           r == [NoSub EXCEPT !.st = "open", !.key = k, !.id = e.next, !.q = b]
<1>1. /\ UNCHANGED <<rev, log>> /\ sub[s].st = "none"
      /\ up' = IF fresh THEN Append(up, c) ELSE up
      /\ fmap' = [fmap EXCEPT ![k] = n]
      /\ sub' = [sub EXCEPT ![s] = r]
  BY DEF subscribe, server
<1>2. sub \in [Subscribers -> Subscriptions] /\ fmap \in [Keys -> Entries] /\ up \in Seq(Connections) /\ Len(up) \in Nat
  BY DEF StreamInv, StreamTypes
<1>3. c \in Connections /\ c.key = k /\ c.chan = <<>> /\ c.st = "new" /\ c.sent = IF k = "atom" THEN -1 ELSE 0
  <2>1. <<>> \in Seq(Frames)
    OBVIOUS
  <2> QED BY <2>1 DEF Connections
<1>4. /\ e \in Entries /\ e.gen # 0 /\ e.history \in Seq(Frames) /\ e.next \in Nat
      /\ ~fresh => e = fmap[k]
      /\ fresh => e.gen = Len(up) + 1 /\ e.history = <<>> /\ e.subs = {}
  <2>1. CASE fresh
    <3>1. /\ e = [NoEntry EXCEPT !.gen = Len(up) + 1] /\ Len(up) + 1 # 0 /\ Len(up) + 1 \in Nat /\ <<>> \in Seq(Frames)
      BY <1>2, <2>1
    <3> HIDE DEF e
    <3> QED BY <2>1, <3>1 DEF NoEntry, Entries
  <2>2. CASE ~fresh
    <3>1. e = fmap[k] /\ e \in Entries
      BY <1>2, <2>2
    <3> HIDE DEF e
    <3> QED BY <2>2, <3>1 DEF Entries
  <2> QED BY <2>1, <2>2
<1> HIDE DEF c, e
<1>5. Chain(e.history)
  <2>1. CASE fresh
    BY <1>4, <2>1 DEF Chain
  <2>2. CASE ~fresh
    <3> DEFINE h == fmap[k].history
               a == up[fmap[k].gen].chan
    <3>1. Chain(h \o a) /\ h \in Seq(Frames) /\ a \in Seq(Frames)
      BY <2>2, Typed DEF StreamInv, LineTrue, Line
    <3> HIDE DEF h, a
    <3>2. /\ Len(h \o a) = Len(h) + Len(a) /\ Len(h) \in Nat /\ Len(a) \in Nat
          /\ \A i \in 1..Len(h) : (h \o a)[i] = h[i]
      BY <3>1, Joined
    <3>3. h # <<>> => h \o a # <<>> /\ 1 \in 1..Len(h)
      BY <3>1, <3>2
    <3>4. \A i \in 1..(Len(h) - 1) : i \in 1..(Len(h \o a) - 1) /\ i \in 1..Len(h) /\ i + 1 \in 1..Len(h)
      BY <3>2
    <3>5. Chain(h)
      BY <3>1, <3>2, <3>3, <3>4 DEF Chain
    <3> QED BY <1>4, <2>2, <3>5 DEF h
  <2> QED BY <2>1, <2>2
<1>6. b \in Seq(Frames) /\ Ordered(b) /\ UpTo(b, e.history)
  BY <1>4, <1>5, ReplayOrdered
<1> HIDE DEF b
<1>7. /\ r \in Subscriptions /\ r.st = "open" /\ r.key = k /\ r.id = e.next /\ r.got = <<>> /\ r.q = b
  <2>1. <<>> \in Seq(Frames)
    OBVIOUS
  <2> QED BY <1>4, <1>6, <2>1 DEF NoSub, Subscriptions
<1>8. n \in Entries /\ n.gen = e.gen /\ n.history = e.history /\ n.subs = e.subs \cup {<<e.next, s>>}
  <2> DEFINE m == e.subs \cup {<<e.next, s>>}
             i == e.next + 1
  <2>1. m \in SUBSET (Nat \X Subscribers) /\ i \in Nat
    <3>1. e.subs \in SUBSET (Nat \X Subscribers)
      BY <1>4 DEF Entries
    <3> QED BY <1>4, <3>1
  <2>2. n = [e EXCEPT !.subs = m, !.next = i]
    OBVIOUS
  <2>3. m = e.subs \cup {<<e.next, s>>}
    OBVIOUS
  <2>4. e \in Entries
    BY <1>4
  <2> HIDE DEF m, i, n
  <2> QED BY <2>1, <2>2, <2>3, <2>4 DEF Entries
<1> HIDE DEF r, n
<1>9. /\ fmap' \in [Keys -> Entries] /\ fmap'[k] = n /\ \A j \in Keys : j # k => fmap'[j] = fmap[j]
      /\ sub' \in [Subscribers -> Subscriptions] /\ sub'[s] = r /\ \A t \in Subscribers : t # s => sub'[t] = sub[t]
  BY <1>1, <1>2, <1>7, <1>8
<1>10. /\ up' \in Seq(Connections) /\ \A g \in DOMAIN up : g \in DOMAIN up' /\ up'[g] = up[g]
       /\ fresh => Len(up) + 1 \in DOMAIN up' /\ up'[Len(up) + 1] = c
       /\ \A g \in DOMAIN up' : up'[g].key = "log" => up'[g].sent >= 0
  <2>1. CASE fresh
    <3>1. up' = Append(up, c)
      BY <1>1, <2>1
    <3>2. c.key = "log" => c.sent >= 0
      BY <1>3
    <3>3. /\ up' \in Seq(Connections) /\ DOMAIN up' = 1..(Len(up) + 1) /\ up'[Len(up) + 1] = c
          /\ DOMAIN up = 1..Len(up) /\ \A g \in 1..Len(up) : up'[g] = up[g]
      BY <1>2, <1>3, <3>1
    <3>4. \A g \in 1..Len(up) : up[g].key = "log" => up[g].sent >= 0
      BY <3>3 DEF StreamInv, StreamTypes
    <3> QED BY <1>2, <3>2, <3>3, <3>4
  <2>2. CASE ~fresh
    <3>1. up' = up
      BY <1>1, <2>2
    <3> QED BY <2>2, <3>1 DEF StreamInv, StreamTypes
  <2> QED BY <2>1, <2>2
<1>11. StreamTypes'
  BY <1>1, <1>9, <1>10 DEF StreamInv, StreamTypes
<1>12. ASSUME NEW j \in Keys PROVE LineTrue(j)'
  <2>0. Latest(j)' = Latest(j)
    BY <1>1 DEF Latest
  <2>1. CASE j # k \/ ~fresh
    <3>1. fmap'[j].gen = fmap[j].gen /\ fmap'[j].history = fmap[j].history
      BY <1>4, <1>8, <1>9, <2>1
    <3> QED BY <1>10, <2>0, <3>1, Typed, LineKept DEF StreamInv
  <2>2. CASE j = k /\ fresh
    <3> DEFINE g == Len(up) + 1
    <3>1. fmap'[j].gen = g /\ fmap'[j].history = <<>> /\ g \in DOMAIN up' /\ up'[g] = c
      BY <1>4, <1>8, <1>9, <1>10, <2>2
    <3> HIDE DEF g
    <3>2. Line(j)' = <<>>
      BY <1>3, <3>1 DEF Line
    <3>3. Chain(<<>>) /\ Latest(j) \in Nat /\ Len(<<>>) = 0 /\ \A i \in 1..0 : FALSE
      BY Typed DEF Chain, StreamInv
    <3>4. c.sent <= Latest(j)
      BY <1>3, <3>3
    <3> QED BY <1>3, <2>0, <2>2, <3>1, <3>2, <3>3, <3>4 DEF LineTrue
  <2> QED BY <2>1, <2>2
<1>13. ASSUME NEW t \in Subscribers PROVE SubTrue(t)'
  <2>0. SubTrue(t)
    BY DEF StreamInv
  <2>1. ASSUME NEW j \in Keys, NEW p \in fmap'[j].subs, p[2] = t
        PROVE  \/ t # s /\ p \in fmap[j].subs
               \/ t = s /\ j = k /\ p[1] = e.next
    <3>1. p \in fmap[j].subs \/ (j = k /\ p = <<e.next, s>>)
      BY <1>4, <1>8, <1>9, <2>1
    <3>2. p \in fmap[j].subs => t # s
      BY <1>1, <2>0, <2>1 DEF SubTrue
    <3> QED BY <2>1, <3>1, <3>2
  <2>2. CASE t # s
    <3>1. sub'[t] = sub[t] /\ Seen(t)' = Seen(t)
      BY <1>9, <2>2 DEF Seen
    <3>2. ASSUME NEW j \in Keys, fmap[j].subs # {}, fmap[j].gen # 0
          PROVE  fmap'[j].gen # 0 /\ fmap'[j].history = fmap[j].history
      BY <1>4, <1>8, <1>9, <3>2
    <3> HIDE DEF fresh
    <3> QED BY <2>0, <2>1, <2>2, <3>1, <3>2 DEF SubTrue
  <2>3. CASE t = s
    <3>1. Seen(t)' = b
      <4>1. <<>> \o b = b
        BY <1>6
      <4>2. Seen(t)' = r.got \o r.q
        BY <1>9, <2>3 DEF Seen
      <4> QED BY <1>7, <4>1, <4>2
    <3> QED BY <1>4, <1>6, <1>7, <1>8, <1>9, <2>1, <2>3, <3>1 DEF SubTrue
  <2> QED BY <2>2, <2>3
<1> QED BY <1>11, <1>12, <1>13 DEF StreamInv

(* The streams alone: the other half of MCHost.                              *)
StreamSpec == ViewInit /\ [][ViewNext]_viewVars

(***************************************************************************)
(* A subscriber never sees a revision go back or repeat, nor an event      *)
(* twice or out of order, and a gap in the log always follows a resync     *)
(* marker, whatever joins late, overflows, is unregistered by another's    *)
(* Drop or belongs to a superseded generation (subscribe, spawn_reader,    *)
(* SubBuf::push; stream_build_state and stream_invocation_events).         *)
(***************************************************************************)
THEOREM OrderedInvariant == StreamSpec => []StreamOrdered
<1>1. StreamInv /\ [ViewNext]_viewVars => StreamInv'
  <2> SUFFICES ASSUME StreamInv, [ViewNext]_viewVars PROVE StreamInv'
    OBVIOUS
  <2>0. rev \in Nat /\ log \in Seq(Runners \X {1, 2}) /\ Len(log) \in Nat
    BY DEF StreamInv, StreamTypes
  <2>1. CASE Commit \/ MembersChange \/ UNCHANGED viewVars
    <3>1. /\ UNCHANGED <<up, fmap, sub, log>> /\ rev' \in Nat /\ rev' >= rev /\ Len(log') >= Len(log)
      BY <2>0, <2>1 DEF Commit, MembersChange, viewVars
    <3> QED BY <2>0, <3>1, ServerKeeps
  <2>2. ASSUME NEW r \in Runners, StartRun(r) \/ emit(r) \/ Follow(r) PROVE StreamInv'
    <3>1. UNCHANGED <<up, fmap, sub, rev>>
      BY <2>2 DEF StartRun, emit, Follow, server
    <3>2. log' \in Seq(Runners \X {1, 2}) /\ Len(log') >= Len(log)
      <4>1. CASE emit(r)
        <5>1. PICK i \in {1, 2} : log' = Append(log, <<r, i>>)
          BY <4>1 DEF emit
        <5> QED BY <2>0, <5>1
      <4>2. CASE StartRun(r) \/ Follow(r)
        BY <2>0, <4>2 DEF StartRun, Follow, server
      <4> QED BY <2>2, <4>1, <4>2
    <3> QED BY <2>0, <3>1, <3>2, ServerKeeps
  <2>3. ASSUME NEW g \in DOMAIN up, Upstream(g) PROVE StreamInv'
    BY <2>3, RouteKeeps, StateKeeps, EventsKeep, ReaderKeeps, ReaderEndKeeps DEF Upstream
  <2>4. ASSUME NEW s \in Subscribers, recv(s) \/ closer(s) \/ Drop(s) \/ \E k \in Keys : subscribe(s, k)
        PROVE  StreamInv'
    BY <2>4, BrowserKeeps, DropKeeps, SubscribeKeeps
  <2> QED BY <2>1, <2>2, <2>3, <2>4 DEF ViewNext
<1>2. StreamInv => StreamOrdered
  <2> SUFFICES ASSUME StreamInv, NEW s \in Subscribers PROVE Ordered(sub[s].got)
    BY DEF StreamOrdered
  <2>1. Ordered(Seen(s)) /\ sub[s].got \in Seq(Frames) /\ sub[s].q \in Seq(Frames)
    BY Typed DEF StreamInv, SubTrue
  <2> QED BY <2>1, OrderedPrefix DEF Seen
<1> QED BY <1>1, <1>2, InitStreams, PTL DEF StreamSpec

=============================================================================
