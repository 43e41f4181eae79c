----------------------------- MODULE CommandLine -----------------------------
(***************************************************************************)
(* The arguments of wrapper.exe (Cli::parse in src/src/cli.rs) and those   *)
(* under which the SCM starts an installed service                         *)
(* (installed_launch_arguments in src/src/service.rs).                     *)
(*                                                                         *)
(* An argument is a record: kind says what its text looks like and text    *)
(* which one it is.                                                        *)
(***************************************************************************)
EXTENDS Integers, SequencesExt, Subsequences

ArgumentKind == {"command",     \* a spelling parse_command knows
                 "bad_code",    \* -l= with something that is no u32
                 "dashed",      \* any other text that begins with - and has no =
                 "separator",   \* --
                 "path",        \* text without =
                 "override",    \* name=value
                 "password"}    \* wrapper.ntservice.password=value

NeedsConfiguration(command) == command \notin {"Version", "Help"}
looks_like_override(argument) == argument.kind \in {"override", "password"}

DefaultConfiguration == [kind |-> "path", text |-> "wrapper.conf"]
ParseError == [ok |-> FALSE]

ParseSkipsPathSlip(explicit, rest) ==
  IF rest # <<>> /\ ~explicit /\ ~looks_like_override(Head(rest))
    THEN [configuration |-> Head(rest), overrides |-> Tail(rest)]
    ELSE [configuration |-> DefaultConfiguration, overrides |-> rest]

\* The configuration file, when the first argument after the command is one.
ParseConfiguration(explicit, rest) ==
  IF rest # <<>> /\ ~looks_like_override(Head(rest))
    THEN [configuration |-> Head(rest), overrides |-> Tail(rest)]
    ELSE [configuration |-> DefaultConfiguration, overrides |-> rest]

\* What the arguments before -- ask for; what follows -- goes to the application.
ParseWrapper(wrapper_args, application_args) ==
  LET first == wrapper_args[1]
      explicit == wrapper_args # <<>> /\ first.kind = "command"
      command == IF explicit THEN first.text ELSE "Console"
      rest == IF explicit THEN Tail(wrapper_args) ELSE wrapper_args
      parsed == IF NeedsConfiguration(command)
                  THEN ParseConfiguration(explicit, rest)
                  ELSE [configuration |-> DefaultConfiguration, overrides |-> rest]
  IN IF \/ wrapper_args # <<>> /\ first.kind \in {"bad_code", "dashed"}
        \/ ~explicit /\ rest # <<>> /\ looks_like_override(Head(rest))
        \/ \E i \in DOMAIN parsed.overrides : ~looks_like_override(parsed.overrides[i])
       THEN ParseError
       ELSE [ok |-> TRUE, command |-> command,
             configuration |-> parsed.configuration, overrides |-> parsed.overrides,
             application_args |-> application_args]

\* The position of the first --, or the one after the last argument.
SeparatorAt(arguments) ==
  LET separators == {i \in DOMAIN arguments : arguments[i].kind = "separator"}
  IN IF separators = {} THEN Len(arguments) + 1 ELSE Min(separators)

parse(arguments) ==
  ParseWrapper(SubSeq(arguments, 1, SeparatorAt(arguments) - 1),
               SubSeq(arguments, SeparatorAt(arguments) + 1, Len(arguments)))

WithoutPassword(overrides) ==
  Pick(overrides, {i \in DOMAIN overrides : overrides[i].kind # "password"})

installed_launch_arguments(cli) ==
  <<[kind |-> "command", text |-> "Service"], cli.configuration>>
  \o WithoutPassword(cli.overrides)
  \o IF cli.application_args = <<>> THEN <<>>
     ELSE <<[kind |-> "separator", text |-> "--"]>> \o cli.application_args

=============================================================================
