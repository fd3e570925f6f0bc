---------------------------- MODULE DepsEngine -----------------------------
(***************************************************************************)
(* The message seam over the loader (razel-deps-engine): commands are      *)
(* submitted from any thread, events go to the subscribers a command found *)
(* when it was accepted, results are immutable snapshots, and a cache of   *)
(* serialised snapshots answers a repeated command (legacy.rs, api.rs,     *)
(* facts.rs). The state mutex is held for single reads and writes only.    *)
(***************************************************************************)
EXTENDS Integers, Sequences, FiniteSets, SequencesExt

CONSTANTS Commands,   \* submitted commands
          Request,    \* [Commands -> [src, mode, layout, threads]]
          Analysed,   \* source and options -> <<"ok", facts>> or <<"err">>
          Subscribers

VARIABLES deng,   \* EngineState: [epoch, next, subs, snapshots, cache]
          cmd,    \* command -> [pc, epoch, sinks, seq, facts, id, hit]
          sink    \* subscriber -> command -> its events, in emission order

depsVars == <<deng, cmd, sink>>
NoId == -1

-----------------------------------------------------------------------------
(***************************************************************************)
(* facts.rs: a fact (an analysed target) as CBOR, and a snapshot as its    *)
(* facts, each after its length. Sets are written in order; an action's    *)
(* description is not written.                                             *)
(***************************************************************************)
ScalarTag == [str |-> 0, int |-> 1, bool |-> 2]
scalar_cbor(s) == <<ScalarTag[s.t], s.v>>
scalar_of(c) == [t |-> CHOOSE t \in DOMAIN ScalarTag : ScalarTag[t] = c[1], v |-> c[2]]
field_value_cbor(v) ==
  IF v.kind = "scalar" THEN <<0, scalar_cbor(v.of)>>
  ELSE IF v.kind = "set" THEN <<1, [i \in DOMAIN v.of |-> scalar_cbor(v.of[i])]>>
  ELSE <<2, [i \in DOMAIN v.of |-> scalar_cbor(v.of[i])]>>
field_value_of(c) ==
  IF c[1] = 0 THEN [kind |-> "scalar", of |-> scalar_of(c[2])]
  ELSE [kind |-> IF c[1] = 1 THEN "set" ELSE "depset",
        of |-> [i \in DOMAIN c[2] |-> scalar_of(c[2][i])]]
action_cbor(a) == <<a.mnemonic, a.argv, a.inputs, a.outputs>>
action_of(c) == [mnemonic |-> c[1], argv |-> c[2], inputs |-> c[3], outputs |-> c[4],
                 description |-> ""]
encode_target(t) ==
  <<t.name, t.deps, [i \in DOMAIN t.actions |-> action_cbor(t.actions[i])], t.default_info,
    [i \in DOMAIN t.providers |->
       <<t.providers[i].ty, t.providers[i].field, field_value_cbor(t.providers[i].value)>>]>>
decode_target(c) ==
  [name |-> c[1], deps |-> c[2], actions |-> [i \in DOMAIN c[3] |-> action_of(c[3][i])],
   default_info |-> c[4],
   providers |-> [i \in DOMAIN c[5] |->
                    [ty |-> c[5][i][1], field |-> c[5][i][2], value |-> field_value_of(c[5][i][3])]]]
\* A snapshot is one frame per fact: the length, then the fact.
encode_snapshot(ts) == [i \in DOMAIN ts |-> <<Len(encode_target(ts[i])), encode_target(ts[i])>>]
decode_snapshot(b) == [i \in DOMAIN b |-> decode_target(SubSeq(b[i][2], 1, b[i][1]))]
snapshot_fingerprint(ts) == encode_snapshot(ts)

-----------------------------------------------------------------------------
\* The options that tell results apart. The thread count does not, and the
\* output layout is not in the digest either.
options_digest_unmoded(r) == <<"options">>
options_digest(r) == <<"options", r.mode>>
cache_key(r) == <<r.src, options_digest(r)>>

\* What the loader makes of a command's source under its options.
ResultOf(c) == Analysed[Request[c].src, Request[c].mode, Request[c].layout]
\* A field holds scalars, alone or in a sequence.
IsScalar(s) == s.t \in DOMAIN ScalarTag
IsValue(v) == \/ v.kind = "scalar" /\ IsScalar(v.of)
              \/ v.kind \in {"set", "depset"} /\ \A i \in DOMAIN v.of : IsScalar(v.of[i])
IsFact(t) == \A i \in DOMAIN t.providers : IsValue(t.providers[i].value)
ASSUME ResultsAreFacts ==
  \A c \in Commands : ResultOf(c)[1] = "ok" => \A i \in DOMAIN ResultOf(c)[2] : IsFact(ResultOf(c)[2][i])
\* A process keeps its output layout from one command to the next.
ASSUME OneLayout == \A c, d \in Commands : Request[c].layout = Request[d].layout

header(c, id) == [command |-> c, epoch |-> cmd[c].epoch, snapshot |-> id, sequence |-> cmd[c].seq + 1]

\* Events go to the subscribers there were when the command was accepted.
SinksOf(c) == cmd[c].sinks
emit(c, kind, id) ==
  sink' = [s \in Subscribers |-> [sink[s] EXCEPT ![c] =
             IF s \in SinksOf(c) THEN Append(@, [kind |-> kind, h |-> header(c, id)]) ELSE @]]
GoEmitted(c, pc) == cmd' = [cmd EXCEPT ![c].pc = pc, ![c].seq = @ + 1]

DepsInit ==
  /\ deng = [epoch |-> 0, next |-> 0, subs |-> {}, snapshots |-> << >>, cache |-> << >>]
  /\ cmd = [c \in Commands |-> [pc |-> "new", epoch |-> 0, sinks |-> {}, seq |-> 0,
                                facts |-> << >>, id |-> NoId, hit |-> FALSE]]
  /\ sink = [s \in Subscribers |-> [c \in Commands |-> << >>]]

subscribe(s) ==
  /\ s \notin deng.subs
  /\ deng' = [deng EXCEPT !.subs = @ \cup {s}]
  /\ UNCHANGED <<cmd, sink>>

\* evaluate: the epoch and the subscribers under one lock, then no lock.
submit(c) ==
  /\ cmd[c].pc = "new"
  /\ deng' = [deng EXCEPT !.epoch = @ + 1]
  /\ cmd' = [cmd EXCEPT ![c].pc = "accept", ![c].epoch = deng.epoch + 1, ![c].sinks = deng.subs]
  /\ UNCHANGED sink
Accepted(c) ==
  /\ cmd[c].pc = "accept"
  /\ emit(c, "accepted", NoId) /\ GoEmitted(c, "lookup")
  /\ UNCHANGED deng
Lookup(c) ==
  LET k == cache_key(Request[c])
      hit == k \in DOMAIN deng.cache
  IN /\ cmd[c].pc = "lookup"
     /\ cmd' = [cmd EXCEPT ![c].pc = IF hit THEN "commit" ELSE "analyse", ![c].hit = hit,
                           ![c].facts = IF hit THEN decode_snapshot(deng.cache[k]) ELSE << >>]
     /\ UNCHANGED <<deng, sink>>
\* The loader's scheduling hook reports while it analyses.
Diagnostic(c) ==
  /\ cmd[c].pc = "analyse" /\ cmd[c].seq = 1
  /\ emit(c, "diagnostic", NoId) /\ GoEmitted(c, "analyse")
  /\ UNCHANGED deng
Analyse(c) ==
  LET r == ResultOf(c)
      k == cache_key(Request[c])
  IN /\ cmd[c].pc = "analyse" /\ cmd[c].seq > 1
     /\ \/ /\ r[1] = "ok"
           /\ deng' = [deng EXCEPT !.cache =
                         [q \in DOMAIN @ \cup {k} |-> IF q = k THEN encode_snapshot(r[2]) ELSE @[q]]]
           /\ cmd' = [cmd EXCEPT ![c].pc = "commit", ![c].facts = r[2]]
           /\ UNCHANGED sink
        \/ /\ r[1] = "err"
           /\ emit(c, "failed", NoId) /\ GoEmitted(c, "end")
           /\ UNCHANGED deng
commit(c) ==
  /\ cmd[c].pc = "commit"
  /\ deng' = [deng EXCEPT !.next = @ + 1,
                !.snapshots = [i \in DOMAIN @ \cup {deng.next} |-> IF i = deng.next THEN cmd[c].facts ELSE @[i]]]
  /\ cmd' = [cmd EXCEPT ![c].pc = "committed", ![c].id = deng.next]
Commit(c) == commit(c) /\ UNCHANGED sink
Committed(c) ==
  /\ cmd[c].pc = "committed"
  /\ emit(c, "committed", cmd[c].id) /\ GoEmitted(c, "finish")
  /\ UNCHANGED deng
Finished(c) ==
  /\ cmd[c].pc = "finish"
  /\ emit(c, "finished", cmd[c].id) /\ GoEmitted(c, "end")
  /\ UNCHANGED deng

evaluate(c) == \/ submit(c) \/ Accepted(c) \/ Lookup(c) \/ Diagnostic(c) \/ Analyse(c)
               \/ Commit(c) \/ Committed(c) \/ Finished(c)
DepsNext == \/ \E c \in Commands : evaluate(c)
            \/ \E s \in Subscribers : subscribe(s)

-----------------------------------------------------------------------------
\* What a subscriber drains of a command, in as many reads as it likes.
drain(s, c) == sink[s][c]
Lives == {<<"accepted", "diagnostic", "committed", "finished">>, <<"accepted", "committed", "finished">>,
          <<"accepted", "diagnostic", "failed">>}

\* A subscriber sees a command from its acceptance on or not at all, whenever it
\* subscribed and whatever other commands do: the events are a prefix of one of
\* the lives of a command, numbered 1, 2, 3 without a gap, and the one that names
\* a snapshot names one that can be read.
StreamIsWhole ==
  \A s \in Subscribers, c \in Commands :
    LET t == drain(s, c)
    IN /\ \E l \in Lives : IsPrefix([i \in DOMAIN t |-> t[i].kind], l)
       /\ \A i \in DOMAIN t : t[i].h.sequence = i
       /\ \A i \in DOMAIN t : t[i].h.snapshot # NoId => t[i].h.snapshot \in DOMAIN deng.snapshots

\* A snapshot, decoded from the cache or not, is for ever the analysis of the
\* source and options of the command it was committed for.
SnapshotIsAnalysis ==
  \A c \in Commands : cmd[c].id # NoId =>
    LET r == ResultOf(c)
    IN r[1] = "ok" /\ snapshot_fingerprint(deng.snapshots[cmd[c].id]) = snapshot_fingerprint(r[2])

\* The seam's promise to a client: a whole stream, and a snapshot that is the
\* analysis it asked for, however commands and subscriptions interleave.
SeamTrue == StreamIsWhole /\ SnapshotIsAnalysis
=============================================================================
