----------------------------- MODULE CommandLines ---------------------------
(***************************************************************************)
(* The command line the enabled features of a toolchain expand to for an   *)
(* action's variables (razel-rulepack/src/constrain.rs), and the toolchain *)
(* razel ships (razel-cc-toolchain, razel-loading toolchains.rs).          *)
(*                                                                         *)
(* A flag is [lit, var], its text and the variable it substitutes. A       *)
(* variable is a sequence of values and a `scalar` mark.                   *)
(***************************************************************************)
EXTENDS Features

CONSTANTS Inputs \* action -> the variables the rule gives it

VARIABLES argv
featVars == <<selectVars, argv>>

NoVar == "no variable"
Hole == "hole"

-----------------------------------------------------------------------------
with_features_ok(sets, on) == sets = {} \/ \E w \in sets : w.features \subseteq on /\ w.not_features \cap on = {}

Scalar(v) == [scalar |-> TRUE, of |-> <<v>>]
substitute(f, vars) ==
  IF f.var = NoVar THEN <<f.lit>>
  ELSE IF f.var \in DOMAIN vars /\ vars[f.var].scalar THEN <<f.lit, vars[f.var].of[1]>>
  ELSE <<f.lit, Hole>>
\* The gates: variables that must be there (expand_if_available, expand_if_true),
\* variables that must not, and one that must have a value.
gates_ok(fg, vars) ==
  /\ fg.if_available \subseteq DOMAIN vars /\ fg.if_not_available \cap DOMAIN vars = {}
  /\ \A e \in fg.if_equal : e.var \in DOMAIN vars /\ vars[e.var] = Scalar(e.value)
\* Iterating binds the variable to one element at a time, in the nested groups
\* too; a missing sequence gives nothing.
RECURSIVE expand_flag_group(_, _)
emit_group(fg, vars) ==
  IF ~gates_ok(fg, vars) THEN << >>
  ELSE [i \in DOMAIN fg.flags |-> substitute(fg.flags[i], vars)]
       \o FlattenSeq([i \in DOMAIN fg.flag_groups |-> expand_flag_group(fg.flag_groups[i], vars)])
expand_unbound(fg, vars) == IF fg.iterate_over # NoVar /\ fg.iterate_over \notin DOMAIN vars THEN << >> ELSE emit_group(fg, vars)
expand_flag_group(fg, vars) ==
  IF fg.iterate_over = NoVar THEN emit_group(fg, vars)
  ELSE IF fg.iterate_over \notin DOMAIN vars \/ vars[fg.iterate_over].scalar THEN << >>
  ELSE FlattenSeq([i \in DOMAIN vars[fg.iterate_over].of |->
         emit_group(fg, [vars EXCEPT ![fg.iterate_over] = Scalar(@.of[i])])])
\* The enabled features in the toolchain's order.
InOrder(cfg, on) == SelectSeq([i \in DOMAIN cfg.features |-> cfg.features[i].name], LAMBDA n : n \in on)
command_line(cfg, on, action, vars) ==
  LET names == InOrder(cfg, on)
      sets  == FlattenSeq([i \in DOMAIN names |-> get(cfg, names[i]).flag_sets])
      mine  == SelectSeq(sets, LAMBDA fs : action \in fs.actions /\ with_features_ok(fs.with_features, ToSet(names)))
  IN FlattenSeq([i \in DOMAIN mine |->
       FlattenSeq([j \in DOMAIN mine[i].flag_groups |-> expand_flag_group(mine[i].flag_groups[j], vars)])])
tool_path(cfg, on, action) ==
  LET tools == SelectSeq(cfg.action_configs, LAMBDA t : t.action = action /\ with_features_ok(t.with_features, on \cap Names(cfg)))
  IN IF tools = << >> THEN << >> ELSE << <<tools[1].path>> >>
full_command_line(cfg, on, action, vars) == tool_path(cfg, on, action) \o command_line(cfg, on, action, vars)

-----------------------------------------------------------------------------
\* The toolchain razel ships (macos_core_config): all its features are on by
\* default; what differs is how a group is gated.
flag(l) == [lit |-> l, var |-> NoVar]
flagv(l, v) == [lit |-> l, var |-> v]
flag_group(fs, avail, over) == [flags |-> fs, if_available |-> avail, if_not_available |-> {},
                               if_equal |-> {}, flag_groups |-> << >>, iterate_over |-> over]
flag_set(a, groups) == [actions |-> {a}, with_features |-> {}, flag_groups |-> groups]
feature(n, sets) == [name |-> n, enabled |-> TRUE, implies |-> {}, requires |-> {}, flag_sets |-> sets]
Compile == "c++-compile"
Archive == "c++-link-static-library"
Link == "c++-link-executable"
macos_core_config ==
  [features |->
     <<feature("default_compile_flags", <<flag_set(Compile, <<flag_group(<<flag("-Wall"), flag("-std=c++17")>>, {}, NoVar)>>)>>),
       feature("random_seed", <<flag_set(Compile, <<flag_group(<<flagv("-frandom-seed", "output_file")>>, {"output_file"}, NoVar)>>)>>),
       feature("macos_minimum_os", <<flag_set(Compile,
         <<flag_group(<<flagv("-mmacosx-version-min", "minimum_os_version")>>, {"minimum_os_version"}, NoVar)>>)>>),
       feature("dependency_file", <<flag_set(Compile,
         <<flag_group(<<flag("-MD"), flagv("-MF", "dependency_file")>>, {"dependency_file"}, NoVar)>>)>>),
       feature("include_paths", <<flag_set(Compile,
         <<flag_group(<<flagv("-iquote", "quote_include_paths")>>, {}, "quote_include_paths")>>)>>),
       feature("compiler_input_flags", <<flag_set(Compile, <<flag_group(<<flagv("-c", "source_file")>>, {}, NoVar)>>)>>),
       feature("compiler_output_flags", <<flag_set(Compile, <<flag_group(<<flagv("-o", "output_file")>>, {}, NoVar)>>)>>),
       feature("unfiltered_compile_flags", <<flag_set(Compile, <<flag_group(<<flag("-no-canonical-prefixes")>>, {}, NoVar)>>)>>),
       feature("archiver_flags", <<flag_set(Archive,
         <<flag_group(<<flag("-static")>>, {}, NoVar),
           flag_group(<<flagv("-o", "output_execpath")>>, {"output_execpath"}, NoVar),
           flag_group(<<flagv("", "libraries_to_link")>>, {}, "libraries_to_link")>>)>>),
       feature("link_executable_flags", <<flag_set(Link,
         <<flag_group(<<flagv("-o", "output_execpath")>>, {"output_execpath"}, NoVar),
           flag_group(<<flagv("", "libraries_to_link")>>, {}, "libraries_to_link"),
           flag_group(<<flagv("-mmacosx-version-min", "minimum_os_version")>>, {"minimum_os_version"}, NoVar),
           flag_group(<<flag("-lc++")>>, {}, NoVar)>>)>>)>>,
   action_configs |-> <<[action |-> Compile, path |-> "cc_wrapper.sh", with_features |-> {}],
                        [action |-> Archive, path |-> "libtool", with_features |-> {}],
                        [action |-> Link, path |-> "cc_wrapper.sh", with_features |-> {}]>>]

FeatInit == SelectInit /\ argv = << >>
\* cc_compile_argv and cc_archive_argv.
Argv(action) == /\ stage = "done" /\ argv = << >>
                /\ argv' = full_command_line(toolchain, enabled, action, Inputs[action])
                /\ UNCHANGED selectVars
FeatNext == (SelectNext /\ UNCHANGED argv) \/ \E a \in DOMAIN Inputs : Argv(a)

-----------------------------------------------------------------------------
\* No argument is left with a hole where a variable should be: what a group
\* substitutes, its gates have asked for.
NoHoles == \A i \in DOMAIN argv : Len(argv[i]) = 2 => argv[i][2] # Hole
=============================================================================
