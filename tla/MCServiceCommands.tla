-------------------------- MODULE MCServiceCommands --------------------------
(* Instance of ServiceCommands for TLC.                                    *)
EXTENDS ServiceCommands, TLC

\* Operators differ in nothing but their names.
OperatorSymmetry == Permutations(Operators)

Word(kind, text) == [kind |-> kind, text |-> text]
Alone == {"Start", "Stop", "Remove", "Pause", "Resume", "Query", "ControlCode",
          "BadControlCode", "Help"}

path == Word("path", "p")
override == Word("override", "a=b")
password == Word("password", "s")
separator == Word("separator", "--")

\* Installers with every part present, with as few as possible, and one that
\* is refused.
Tails == {<<path, override, password, separator, separator, override>>,
          <<override, separator, path>>, <<path, path>>}

MCArgumentLists ==
  {<<Word("command", c)>> : c \in Alone}
  \cup {<<Word("command", c)>> \o tail : c \in {"Install"}, tail \in Tails}
  \cup {<<Word("command", "InstallStart"), password>>}
=============================================================================
