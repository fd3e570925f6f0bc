-------------------------------- MODULE Views --------------------------------
(***************************************************************************)
(* Streams of a daemon and their fan-out to browsers.  A member's server   *)
(* (rpc.rs) streams its build state (`atom': the latest revision) and its  *)
(* invocation log (`log': every event, from the first); the fan-out of     *)
(* views.rs opens one upstream connection per key and copies its frames    *)
(* into a bounded buffer per subscriber (ws.rs).                           *)
(*                                                                         *)
(* A frame is [k, n]: revision n, event number n of the log, a resync      *)
(* marker or an error.  A generation is one upstream connection with the   *)
(* reader thread at its near end.                                          *)
(***************************************************************************)
EXTENDS Naturals, Integers, Sequences, FiniteSets, SequencesExt

CONSTANTS Subscribers, Runners, Bound, MaxRev, MaxGen, MaxChanges

Keys == {"atom", "log"}
Frame(k, n) == [k |-> k, n |-> n]
Resync == Frame("resync", 0)
Error == Frame("error", 0)
NoEntry == [gen |-> 0, subs |-> {}, next |-> 0, history |-> <<>>]
NoSub == [st |-> "none", key |-> "atom", id |-> 0, q |-> <<>>, closed |-> FALSE, got |-> <<>>]

VARIABLES rev,      \* the build state's revision
          log,      \* the invocation log: <<runner, event number of its run>>
          sole,     \* the scope has exactly one member, whose server is streamed
          changes,  \* how often that changed
          up,       \* generation -> [key, st, sent, chan]: the serving side
          fmap,     \* key -> [gen, subs, next, history]
          sub,      \* subscriber -> its subscription
          counts,   \* the observability file: key -> number of subscribers
          run       \* runner -> new, load, build, over or told

viewVars == <<rev, log, sole, changes, up, fmap, sub, counts, run>>
server == <<rev, log, sole, changes>>

ViewInit ==
    /\ rev = 0 /\ log = <<>> /\ sole \in BOOLEAN /\ changes = 0
    /\ up = <<>> /\ fmap = [k \in Keys |-> NoEntry]
    /\ sub = [s \in Subscribers |-> NoSub]
    /\ counts = [k \in Keys |-> 0]
    /\ run = [r \in Runners |-> "new"]

-----------------------------------------------------------------------------
(* The server. *)

(* The actor commits a build: a new revision, and every stream is woken. *)
Commit == /\ rev < MaxRev /\ rev' = rev + 1
          /\ UNCHANGED <<log, sole, changes, up, fmap, sub, counts, run>>

(* A workspace is opened or idles out. *)
MembersChange == /\ changes < MaxChanges /\ changes' = changes + 1 /\ sole' = ~sole
                 /\ UNCHANGED <<rev, log, up, fmap, sub, counts, run>>

(* do_run returns at once; its thread emits a progress event, builds, and    *)
(* emits the result.                                                         *)
StartRun(r) ==
    /\ run[r] = "new" /\ run' = [run EXCEPT ![r] = "load"]
    /\ UNCHANGED <<server, up, fmap, sub, counts>>

emit(r) ==
    /\ run[r] \in {"load", "build"}
    /\ log' = Append(log, <<r, IF run[r] = "load" THEN 1 ELSE 2>>)
    /\ run' = [run EXCEPT ![r] = IF @ = "load" THEN "build" ELSE "over"]
    /\ UNCHANGED <<rev, sole, changes, up, fmap, sub, counts>>

(* run_streamed follows the log, which is replayed from its first event, to  *)
(* the result of its own invocation.                                         *)
Follow(r) ==
    /\ run[r] = "over" /\ \E n \in DOMAIN log : log[n] = <<r, 2>>
    /\ run' = [run EXCEPT ![r] = "told"]
    /\ UNCHANGED <<server, up, fmap, sub, counts>>

(* handle (daemon.rs): a stream request is routed to the only member, or     *)
(* answered with one error frame.                                            *)
Route(g) ==
    /\ up[g].st = "new"
    /\ up' = IF sole THEN [up EXCEPT ![g].st = "stream"]
             ELSE [up EXCEPT ![g].st = "closed", ![g].chan = <<Error>>]
    /\ UNCHANGED <<server, fmap, sub, counts, run>>

(* Plausible bug: the stream waits for the second commit after the last one  *)
(* it sent.                                                                  *)
StreamSkipping(g) ==
    /\ up[g].st = "stream" /\ up[g].key = "atom" /\ (up[g].sent = -1 \/ up[g].sent + 1 < rev)
    /\ up' = [up EXCEPT ![g].sent = rev, ![g].chan = Append(@, Frame("rev", rev))]
    /\ UNCHANGED <<server, fmap, sub, counts, run>>

(* stream_build_state: a frame for the current revision once it differs from *)
(* the last one sent; revisions in between are skipped.                      *)
StreamState(g) ==
    /\ up[g].st = "stream" /\ up[g].key = "atom" /\ up[g].sent # rev
    /\ up' = [up EXCEPT ![g].sent = rev, ![g].chan = Append(@, Frame("rev", rev))]
    /\ UNCHANGED <<server, fmap, sub, counts, run>>

(* stream_invocation_events: all events not sent yet. *)
StreamEvents(g) ==
    /\ up[g].st = "stream" /\ up[g].key = "log" /\ up[g].sent < Len(log)
    /\ LET batch == [i \in 1..(Len(log) - up[g].sent) |-> Frame("event", up[g].sent + i)]
       IN  up' = [up EXCEPT ![g].sent = Len(log), ![g].chan = @ \o batch]
    /\ UNCHANGED <<server, fmap, sub, counts, run>>

-----------------------------------------------------------------------------
(* The fan-out.  Its operations run under the lock of the map. *)

(* Plausible bug: the overflowing buffer is emptied without a marker. *)
push_silently(q, f) == IF Len(q) >= Bound THEN <<f>> ELSE Append(q, f)

(* SubBuf::push: a full buffer is replaced by a marker. *)
push(q, f) == IF Len(q) >= Bound THEN <<Resync, f>> ELSE Append(q, f)

Counted(m) == [k \in Keys |-> Cardinality(m[k].subs)]

(* subscribe: the first subscriber of a key opens its upstream; the history *)
(* is replayed through the bounded buffer.                                  *)
subscribe(s, k) ==
    LET fresh == fmap[k].gen = 0
        e     == IF fresh THEN [NoEntry EXCEPT !.gen = Len(up) + 1] ELSE fmap[k]
    IN  /\ sub[s].st = "none" /\ (fresh => Len(up) < MaxGen)
        /\ up' = IF fresh THEN Append(up, [key |-> k, st |-> "new", sent |-> IF k = "atom" THEN -1 ELSE 0, chan |-> <<>>])
                 ELSE up
        /\ fmap' = [fmap EXCEPT ![k] = [e EXCEPT !.subs = @ \cup {<<e.next, s>>}, !.next = @ + 1]]
        /\ sub' = [sub EXCEPT ![s] = [NoSub EXCEPT !.st = "open", !.key = k, !.id = e.next,
                                                   !.q = FoldLeft(push, <<>>, e.history)]]
        /\ counts' = Counted(fmap')
        /\ UNCHANGED <<server, run>>

(* The reader of generation g takes a frame: kept as the key's history (the  *)
(* latest for an atom, all for a log) and copied to every subscriber; when   *)
(* the entry is gone or of another generation the reader ends and drops its  *)
(* connection.                                                               *)
Reader(g) ==
    LET k == up[g].key
        f == Head(up[g].chan)
        mine == {p[2] : p \in fmap[k].subs}
    IN  /\ up[g].st \notin {"new", "reaped"} /\ up[g].chan # <<>>
        /\ IF fmap[k].gen = g
           THEN /\ up' = [up EXCEPT ![g].chan = Tail(@)]
                /\ fmap' = [fmap EXCEPT ![k].history = IF k = "atom" THEN <<f>> ELSE Append(@, f)]
                /\ sub' = [s \in Subscribers |-> IF s \in mine THEN [sub[s] EXCEPT !.q = push(@, f)] ELSE sub[s]]
           ELSE up' = [up EXCEPT ![g].st = "reaped", ![g].chan = <<>>] /\ UNCHANGED <<fmap, sub>>
        /\ UNCHANGED <<server, counts, run>>

(* The upstream is over: the reader closes its subscribers and removes the   *)
(* entry; the observability file is not rewritten.                           *)
ReaderEnd(g) ==
    LET k == up[g].key
        mine == {p[2] : p \in fmap[k].subs}
    IN  /\ up[g].st = "closed" /\ up[g].chan = <<>>
        /\ up' = [up EXCEPT ![g].st = "reaped"]
        /\ IF fmap[k].gen = g
           THEN /\ sub' = [s \in Subscribers |-> IF s \in mine THEN [sub[s] EXCEPT !.closed = TRUE] ELSE sub[s]]
                /\ fmap' = [fmap EXCEPT ![k] = NoEntry]
           ELSE UNCHANGED <<fmap, sub>>
        /\ UNCHANGED <<server, counts, run>>

(* recv, and the frame written to the browser. *)
recv(s) ==
    /\ sub[s].st = "open" /\ sub[s].q # <<>>
    /\ sub' = [sub EXCEPT ![s].q = Tail(@), ![s].got = Append(@, Head(sub[s].q))]
    /\ UNCHANGED <<server, up, fmap, counts, run>>

(* The browser goes away: its reader thread closes the subscription. *)
closer(s) ==
    /\ sub[s].st = "open" /\ ~sub[s].closed
    /\ sub' = [sub EXCEPT ![s].closed = TRUE]
    /\ UNCHANGED <<server, up, fmap, counts, run>>

(* The serve loop ends (recv returned None, or the write failed) and drops   *)
(* the subscription, which unregisters its id under its key.                 *)
Drop(s) ==
    LET k == sub[s].key
        left == {p \in fmap[k].subs : p[1] # sub[s].id}
    IN  /\ sub[s].st = "open" /\ sub[s].closed
        /\ sub' = [sub EXCEPT ![s].st = "gone", ![s].q = <<>>]
        /\ fmap' = IF fmap[k].gen = 0 THEN fmap
                   ELSE [fmap EXCEPT ![k] = IF left = {} THEN NoEntry ELSE [@ EXCEPT !.subs = left]]
        /\ counts' = Counted(fmap')
        /\ UNCHANGED <<server, up, run>>

Upstream(g) == Route(g) \/ StreamState(g) \/ StreamEvents(g) \/ Reader(g) \/ ReaderEnd(g)
ViewNext ==
    \/ Commit \/ MembersChange
    \/ \E r \in Runners : StartRun(r) \/ emit(r) \/ Follow(r)
    \/ \E g \in DOMAIN up : Upstream(g)
    \/ \E s \in Subscribers : recv(s) \/ closer(s) \/ Drop(s) \/ \E k \in Keys : subscribe(s, k)

-----------------------------------------------------------------------------
Registered(s) == \E p \in fmap[sub[s].key].subs : p[2] = s

Ordered(got) ==
    \A j \in DOMAIN got : got[j].k \in {"rev", "event"} =>
        LET before == {i \in 1..(j - 1) : got[i].k = got[j].k}
        IN  /\ \A i \in before : got[i].n < got[j].n
            /\ got[j].k = "event" /\ ~(\E i \in before : got[i].n = got[j].n - 1) /\ got[j].n > 1
                   => \E i \in 1..(j - 1) : got[i] = Resync /\ \A h \in before : h < i

(* A subscriber never sees a revision go back or repeat, nor an event twice *)
(* or out of order, and a gap in the log always follows a resync marker,    *)
(* whatever joins late, overflows or is superseded (push, subscribe and the *)
(* generation check of the reader; stream_build_state and                   *)
(* stream_invocation_events).                                               *)
StreamOrdered == \A s \in Subscribers : Ordered(sub[s].got)

Watching(s) == sub[s].st = "open" /\ ~sub[s].closed /\ sub[s].key = "atom" /\ Registered(s)
Behind(s) == Watching(s) /\ ~\E i \in DOMAIN sub[s].got : sub[s].got[i].k = "rev" /\ sub[s].got[i].n >= rev

(* Whenever subscribers of the build state are behind it, all of them catch *)
(* up: a commit between two samples, or while a buffer overflows, is never  *)
(* the last one missed (wait_while in stream_build_state; history in        *)
(* subscribe).                                                              *)
SeesLatest == (\E s \in Subscribers : Behind(s)) ~> (\A s \in Subscribers : ~Behind(s))
=============================================================================
