---------------------------- MODULE CommandLine ----------------------------
(***************************************************************************)
(* The one command-line parser of razel's CLI and daemon                   *)
(* (razel-loading/src/args.rs), razel's verbs (razel-cli) and the routing  *)
(* grazel puts in front of them (grazel-cli-lib: lib.rs, scope.rs,         *)
(* paths.rs).                                                              *)
(*                                                                         *)
(* An argument is a token: a word, `--`, or a flag with its name, an       *)
(* inline value (`--f=v`, `-xv`) and the `--no` prefix. A value taken from *)
(* the next argument is that whole token, whatever it looks like.          *)
(***************************************************************************)
EXTENDS Integers, Sequences, SequencesExt

CONSTANTS Lines,   \* the command lines typed: [prog, verb, args, cwd, env]
          Rcs,     \* workspace -> lines of its rc files
          Scopes   \* workspace -> [service_scope, in_razelrc]

VARIABLES line,    \* the command line
          call,    \* how it is routed: [by, out]
          parsed   \* the options razel ends up with
cmdVars == <<line, call, parsed>>

None == "none"
NoWord == [t |-> "word", n |-> None, v |-> None, neg |-> FALSE]
Word(w) == [t |-> "word", n |-> w, v |-> None, neg |-> FALSE]
DashDash == [t |-> "dashdash", n |-> "--", v |-> None, neg |-> FALSE]
Long(f) == [t |-> "flag", n |-> f, v |-> None, neg |-> FALSE]
LongNo(f) == [t |-> "flag", n |-> f, v |-> None, neg |-> TRUE]
LongV(f, x) == [t |-> "flag", n |-> f, v |-> x, neg |-> FALSE]

\* Flags that take a value and flags that do not: razel's own, and the part
\* of the generated Bazel table the model's lines use ("keep_going" is
\* recognised and ignored, "scope" and "no_daemon" are in neither).
RAZEL_FLAGS == [workspace |-> TRUE, socket |-> TRUE, daemon |-> FALSE, batch |-> FALSE,
                cbor |-> FALSE, bazel_build_compat |-> FALSE, cache |-> TRUE]
BAZEL_FLAGS == [disk_cache |-> TRUE, compilation_mode |-> TRUE, copt |-> TRUE, cxxopt |-> TRUE,
                conlyopt |-> TRUE, linkopt |-> TRUE, define |-> TRUE, jobs |-> TRUE,
                expunge |-> FALSE, keep_going |-> FALSE]
TakesValue(f) == IF f \in DOMAIN RAZEL_FLAGS THEN RAZEL_FLAGS[f] ELSE BAZEL_FLAGS[f]

\* resolve_long: a name of either table; `--noNAME` only for a boolean.
Recognised(a) == /\ a.n \in DOMAIN RAZEL_FLAGS \cup DOMAIN BAZEL_FLAGS
                 /\ a.neg => ~TakesValue(a.n)

\* What a supported flag does to the options: the field, and how it is set.
HANDLERS == [workspace |-> <<"workspace", "set">>, disk_cache |-> <<"cache", "set">>,
             cache |-> <<"cache", "set">>, socket |-> <<"socket", "set">>,
             daemon |-> <<"daemon", "set">>, batch |-> <<"batch", "set">>,
             cbor |-> <<"cbor", "set">>, expunge |-> <<"expunge", "set">>,
             bazel_build_compat |-> <<"compat", "set">>,
             compilation_mode |-> <<"mode", "set">>, jobs |-> <<"jobs", "count">>,
             copt |-> <<"copts", "add">>, cxxopt |-> <<"cxxopts", "add">>,
             conlyopt |-> <<"conlyopts", "add">>, linkopt |-> <<"linkopts", "add">>,
             define |-> <<"defines", "add">>]
Numerals == {Word("1"), Word("8")}

Opts == [workspace |-> Word("."), cache |-> NoWord, socket |-> NoWord, daemon |-> FALSE,
         batch |-> FALSE, cbor |-> FALSE, expunge |-> FALSE, compat |-> FALSE, mode |-> NoWord,
         jobs |-> NoWord, copts |-> <<>>, cxxopts |-> <<>>, conlyopts |-> <<>>,
         linkopts |-> <<>>, defines |-> <<>>, positionals |-> <<>>]
Error == [error |-> "usage"]

\* A recognised flag without a handler is diagnosed or ignored.
dispatch(o, f, v) ==
  IF f \notin DOMAIN HANDLERS THEN o
  ELSE LET field == HANDLERS[f][1]
           how   == HANDLERS[f][2]
       IN IF how = "add" THEN [o EXCEPT ![field] = Append(@, v)]
          ELSE IF how = "set" \/ v \in Numerals THEN [o EXCEPT ![field] = v]
          ELSE o

\* The loop of parse_opts.
RECURSIVE ParseFrom(_, _, _)
ParseFrom(o, args, targets_only) ==
  IF args = <<>> THEN o
  ELSE LET a == Head(args)
       IN IF targets_only \/ a.t = "word"
          THEN ParseFrom([o EXCEPT !.positionals = Append(@, a)], Tail(args), targets_only)
          ELSE IF a.t = "dashdash" THEN ParseFrom(o, Tail(args), TRUE)
          ELSE IF ~Recognised(a) THEN Error
          ELSE IF ~TakesValue(a.n) THEN ParseFrom(dispatch(o, a.n, ~a.neg), Tail(args), FALSE)
          ELSE IF a.v # None THEN ParseFrom(dispatch(o, a.n, Word(a.v)), Tail(args), FALSE)
          ELSE IF Len(args) = 1 THEN Error
          ELSE ParseFrom(dispatch(o, a.n, args[2]), Tail(Tail(args)), FALSE)

\* Directories: two workspaces, the second also reached as "sub" from the first.
Absolute == {Word("/w"), Word("/v")}
Canonical(cwd, w) == IF w \in Absolute THEN w
                     ELSE IF w = Word(".") THEN cwd
                     ELSE IF cwd = Word("/w") /\ w = Word("sub") THEN Word("/v")
                     ELSE NoWord

parse_opts(cwd, args) ==
  LET o == ParseFrom(Opts, args, FALSE)
  IN IF o = Error \/ Canonical(cwd, o.workspace) = NoWord THEN Error
     ELSE [o EXCEPT !.workspace = Canonical(cwd, @)]

\* An rc file is a sequence of lines [cmd, flags]; .bazelrc goes before .razelrc.
rc_lite_flags(rc, commands) ==
  FlattenSeq([i \in DOMAIN rc |-> IF rc[i].cmd \in commands THEN rc[i].flags ELSE <<>>])

\* The flags of the rc files of the workspace the command line names go first.
parse_with_rc_last(cwd, rcs, commands, args) ==
  LET pre == parse_opts(cwd, args)
  IN IF pre = Error THEN Error
     ELSE parse_opts(cwd, args \o rc_lite_flags(rcs[pre.workspace.n], commands))
parse_opts_with_rc(cwd, rcs, commands, args) ==
  LET pre == parse_opts(cwd, args)
      rc  == IF pre = Error THEN <<>> ELSE rc_lite_flags(rcs[pre.workspace.n], commands)
  IN IF pre = Error THEN Error
     ELSE IF rc = <<>> THEN pre
     ELSE parse_opts(cwd, rc \o args)

\* The engine's view of the options; -D defines ride after the other compile flags.
global_flags(o) ==
  [copts    |-> (IF o.mode = Word("opt") THEN <<Word("-O2"), Word("-DNDEBUG")>>
                 ELSE IF o.mode = Word("dbg") THEN <<Word("-O0"), Word("-g")>> ELSE <<>>)
                \o o.copts \o o.cxxopts \o o.conlyopts
                \o [i \in DOMAIN o.defines |-> LongV("D", o.defines[i])],
   linkopts |-> o.linkopts, mode |-> o.mode, jobs |-> o.jobs, compat |-> o.compat]

-----------------------------------------------------------------------------
(***************************************************************************)
(* razel: the verb of a command line and how its options are read.         *)
(***************************************************************************)
RcOf == [build |-> {"common", "build"}, run |-> {"common", "build", "run"},
         test |-> {"common", "build", "test"}]
RazelVerbs == {"build", "run", "test", "clean", "affected", "query", "subscribe",
               "version", "daemon", "shutdown", "help"}

razel_run(cwd, rcs, verb, args) ==
  IF verb \notin RazelVerbs THEN Error
  ELSE IF verb \in DOMAIN RcOf THEN parse_opts_with_rc(cwd, rcs, RcOf[verb], args)
  ELSE parse_opts(cwd, args)

-----------------------------------------------------------------------------
(***************************************************************************)
(* grazel: the scope of a workspace, and the routing of razel's verbs.     *)
(* `scopes` gives each workspace the service_scope of its .grazelrc, and   *)
(* whether a .razelrc wrongly has one.                                     *)
(***************************************************************************)
ValidScopes == {"default", "s"}
ScopeError == "scope error"

resolve(flag, env, rc) ==
  IF rc.in_razelrc THEN ScopeError
  ELSE LET chosen == IF flag # None THEN flag
                     ELSE IF env # None THEN env
                     ELSE IF rc.service_scope # None THEN rc.service_scope ELSE "default"
       IN IF chosen \in ValidScopes THEN chosen ELSE ScopeError

Last_(s, none) == IF s = <<>> THEN none ELSE s[Len(s)]
Without(args, fs) == SelectSeq(args, LAMBDA a : ~(a.t = "flag" /\ a.n \in fs))
ScopeFlag(args) == Last_(SelectSeq(args, LAMBDA a : a.t = "flag" /\ a.n = "scope"), [v |-> None]).v

\* The workspace a routed line names: the last -C/--workspace, its value looked
\* at and left in place.
ScannedWorkspace(cwd, args) ==
  LET at == {i \in DOMAIN args : args[i].t = "flag" /\ args[i].n = "workspace"}
      i  == CHOOSE i \in at : \A j \in at : j <= i
      w  == IF at = {} THEN cwd
            ELSE IF args[i].v # None THEN Word(args[i].v)
            ELSE IF i < Len(args) THEN args[i + 1] ELSE cwd
  IN IF Canonical(cwd, w) = NoWord THEN w ELSE Canonical(cwd, w)

\* routed_razel_verb: what razel is called with, and the scope daemon that has
\* been ensured first (None: razel runs without one).
Injected(scope) == <<Long("daemon"), Long("socket"), Word(scope)>>
routed_peeling_workspace(cwd, env, scopes, args) ==
  [args |-> Without(args, {"scope", "no_daemon", "workspace"}) \o Injected("default"), scope |-> "default"]
routed_razel_verb(cwd, env, scopes, args) ==
  IF \E i \in DOMAIN args : args[i].t = "flag" /\ args[i].n \in {"daemon", "socket"} /\ ~args[i].neg
  THEN [args |-> args, scope |-> None]
  ELSE LET rest == Without(args, {"scope", "no_daemon"})
           ws   == ScannedWorkspace(cwd, rest)
           s    == IF ws \notin Absolute THEN resolve(ScopeFlag(args), env, [service_scope |-> None, in_razelrc |-> FALSE])
                   ELSE resolve(ScopeFlag(args), env, scopes[ws.n])
       IN IF \E i \in DOMAIN args : args[i].t = "flag" /\ args[i].n = "no_daemon"
          THEN [args |-> rest, scope |-> None]
          ELSE IF s = ScopeError THEN [args |-> rest, scope |-> ScopeError]
          ELSE [args |-> rest \o Injected(s), scope |-> s]

\* grazel_run: the loop over the arguments up to `--`.
RECURSIVE RunFrom(_, _)
RunFrom(r, args) ==
  IF args = <<>> THEN r
  ELSE LET a == Head(args)
       IN IF a.t = "dashdash" THEN [r EXCEPT !.prog_args = Tail(args)]
          ELSE IF a.t = "flag" /\ a.n = "scope" THEN RunFrom([r EXCEPT !.scope = a.v], Tail(args))
          ELSE IF a.t = "flag" /\ a.n = "workspace" /\ a.v # None
          THEN RunFrom([r EXCEPT !.workspace = Word(a.v)], Tail(args))
          ELSE IF a.t = "flag" /\ a.n = "workspace"
          THEN IF Len(args) = 1 THEN [r EXCEPT !.workspace = NoWord]
               ELSE RunFrom([r EXCEPT !.workspace = args[2]], Tail(Tail(args)))
          ELSE IF a.t = "word" /\ r.target = NoWord THEN RunFrom([r EXCEPT !.target = a], Tail(args))
          ELSE Error
grazel_run(cwd, args) ==
  IF \E i \in DOMAIN args : args[i].t = "flag" /\ args[i].n = "no_daemon"
  THEN [local |-> Without(args, {"no_daemon", "scope"})]
  ELSE LET r == RunFrom([target |-> NoWord, prog_args |-> <<>>, scope |-> None, workspace |-> NoWord], args)
       IN IF r = Error THEN Error ELSE IF r.target = NoWord THEN Error
          ELSE IF r.workspace = NoWord THEN [r EXCEPT !.workspace = cwd] ELSE r

\* grazel_verb: grazel's own flags are peeled, the words left select the verb.
GrazelVerbs == {<<"version">>, <<"scope">>, <<"daemon", "status">>, <<"daemon", "run">>,
                <<"daemon", "ping">>, <<"daemon", "stop">>, <<"shutdown">>, <<"ws", "test">>}
GrazelFlags == {"scope", "workspace", "stage", "idle-timeout", "member-idle-timeout",
                "http-bind", "view-buffer", "no_autostart", "all", "list"}
Peeled(a) == a.t = "flag" /\ a.n \in GrazelFlags
             /\ (a.n \in {"no_autostart", "all", "list"} \/ a.v # None)
split_args(args) == [flags |-> SelectSeq(args, Peeled), rest |-> SelectSeq(args, LAMBDA a : ~Peeled(a))]
grazel_verb(cwd, env, scopes, args) ==
  LET f     == split_args(args).flags
      verbs == [i \in DOMAIN split_args(args).rest |-> split_args(args).rest[i].n]
      given == {f[i].n : i \in DOMAIN f}
      ws    == Canonical(cwd, Word(Last_(SelectSeq(f, LAMBDA a : a.n = "workspace"), [v |-> cwd.n]).v))
      s     == resolve(ScopeFlag(f), env, IF ws \in Absolute THEN scopes[ws.n]
                                          ELSE [service_scope |-> None, in_razelrc |-> FALSE])
  IN IF verbs \notin GrazelVerbs THEN ScopeError
     ELSE IF verbs = <<"shutdown">> /\ "all" \in given
     THEN IF "scope" \in given THEN ScopeError ELSE "every scope"
     ELSE IF verbs \in {<<"version">>, <<"ws", "test">>} \/ (verbs = <<"scope">> /\ "list" \in given)
     THEN "no scope"
     ELSE s

\* run: the first word decides the namespace; a razel verb keeps its arguments.
grazel(cwd, env, scopes, args) ==
  LET verb == IF args = <<>> THEN None ELSE args[1].n
  IN IF verb \in {"scope", "ws", "version", "daemon", "shutdown"}
     THEN [by |-> "grazel", out |-> grazel_verb(cwd, env, scopes, args)]
     ELSE IF verb \in {"build", "affected"}
     THEN [by |-> "routed", out |-> routed_razel_verb(cwd, env, scopes, Tail(args))]
     ELSE IF verb = "run" THEN [by |-> "run", out |-> grazel_run(cwd, Tail(args))]
     ELSE [by |-> "razel", out |-> args]

-----------------------------------------------------------------------------
(***************************************************************************)
(* A command: a line is typed, grazel routes it, razel parses what it gets.*)
(***************************************************************************)
Nothing == [by |-> None]
CmdInit == line = Nothing /\ call = Nothing /\ parsed = Nothing

Type == /\ line = Nothing
        /\ line' \in Lines
        /\ UNCHANGED <<call, parsed>>
Route == /\ line # Nothing /\ call = Nothing
         /\ call' = IF line.prog = "razel" THEN [by |-> "razel", out |-> <<Word(line.verb)>> \o line.args]
                    ELSE grazel(line.cwd, line.env, Scopes, <<Word(line.verb)>> \o line.args)
         /\ UNCHANGED <<line, parsed>>
\* What is handed to razel: a routed verb's arguments, or the line itself.
Handed == IF call.by = "routed" THEN call.out.args ELSE Tail(call.out)
Parse == /\ call.by \in {"razel", "routed"} /\ parsed = Nothing
         /\ call.by = "routed" => call.out.scope # ScopeError
         /\ LET o == razel_run(line.cwd, Rcs, line.verb, Handed)
            IN parsed' = [by |-> "parse", opts |-> o, flags |-> IF o = Error THEN Error ELSE global_flags(o)]
         /\ UNCHANGED <<line, call>>

CmdNext == Type \/ Route \/ Parse

\* A sequence of flags sets an option when what was there before makes no difference.
Lists == {"copts", "cxxopts", "conlyopts", "linkopts", "defines", "positionals"}
Switches == {"daemon", "batch", "cbor", "expunge", "compat"}
Sets(args, field) ==
  LET before == IF field \in Switches THEN <<TRUE, FALSE>> ELSE <<NoWord, Word("other")>>
      after(i) == ParseFrom([Opts EXCEPT ![field] = before[i]], args, FALSE)
  IN after(1)[field] = after(2)[field]

\* The command line overrides the rc files flag by flag, and lists hold the rc
\* files' values first: no order of flags, `--no` forms and `--` changes that.
RcThenCli ==
  (parsed # Nothing /\ parsed.opts # Error /\ line.prog = "razel" /\ line.verb \in DOMAIN RcOf) =>
    LET cli == parse_opts(line.cwd, line.args)
        rc  == parse_opts(line.cwd, rc_lite_flags(Rcs[cli.workspace.n], RcOf[line.verb]))
    IN \A f \in DOMAIN Opts :
         parsed.opts[f] = IF f \in Lists THEN rc[f] \o cli[f]
                          ELSE IF Sets(line.args, f) THEN cli[f] ELSE rc[f]

\* No token that looks like a flag is taken as another flag's value, and no `--`.
Plain(args) ==
  /\ \A i \in DOMAIN args : args[i].t # "dashdash"
  /\ \A i \in DOMAIN args : (args[i].t = "flag" /\ Recognised(args[i]) /\ TakesValue(args[i].n) /\ args[i].v = None)
                             => i < Len(args) /\ args[i + 1].t = "word"

\* A verb routed through grazel runs with the options the same line has without
\* it, except for the daemon it is pointed at, and that daemon is the one of the
\* scope of the workspace the options name.
RoutedSame ==
  (call.by = "routed" /\ parsed # Nothing /\ parsed.opts # Error /\ call.out.scope # None /\ Plain(line.args)) =>
    LET own == razel_run(line.cwd, Rcs, line.verb, Without(line.args, {"scope", "no_daemon"}))
    IN /\ own # Error
       /\ \A f \in DOMAIN Opts \ {"daemon", "socket"} : parsed.opts[f] = own[f]
       /\ parsed.flags = global_flags(own)
       /\ parsed.opts.socket = Word(call.out.scope)
       /\ call.out.scope = resolve(ScopeFlag(line.args), line.env, Scopes[own.workspace.n])

\* Whichever way the options come, rc file, command line or grazel's routing, a
\* command runs with the ones the three agree on.
OptionsTrue == RcThenCli /\ RoutedSame
=============================================================================
