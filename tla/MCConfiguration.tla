-------------------------- MODULE MCConfiguration --------------------------
(* Instances of JvmCommand for TLC: every root file of up to RootLength     *)
(* lines over a few kinds of line, with several included files and command  *)
(* lines, and every short text as a fragment of the Java command line.      *)
EXTENDS JvmCommand

CONSTANTS RootLength, FragmentLength

MCReferences == [c \in {"%A%", "%b%"} |-> IF c = "%A%" THEN <<"A">> ELSE <<"b">>]
MCUppercase == [p \in {"a", "b", "default"} |->
                  CASE p = "a" -> "A" [] p = "b" -> "B" [] p = "default" -> "DEFAULT"]
MCNumerals == [n \in {"0", "1", "2", "3"} |->
                 CASE n = "0" -> 0 [] n = "1" -> 1 [] n = "2" -> 2 [] n = "3" -> 3]

PropertyLine(name, value) == [kind |-> "property", name |-> name, value |-> value]
IncludeLine(kind, path) == [kind |-> kind, value |-> path]

PropertyLines ==
  {PropertyLine(<<"set", "A">>, <<"x">>),
   PropertyLine(<<"set", "a">>, <<"%b%", "z">>),
   PropertyLine(<<"set", "default", "a">>, <<"y">>),
   PropertyLine(<<"name">>, <<" ", "%A%", "TAB", "#", "#", "w", " ", "#", "c">>),
   PropertyLine(<<"password">>, <<"s">>)}
RootLines ==
  PropertyLines \cup
  {IncludeLine("include", <<"%A%">>), IncludeLine("include", <<"f">>),
   IncludeLine("include.debug", <<"link">>), IncludeLine("include.required", <<"nowhere">>),
   [kind |-> "no_equals"], [kind |-> "no_name"]}

\* Contents of the file f; x, o and e are other paths to it, g nests deeper.
Included ==
  {<<PropertyLine(<<"name">>, <<"v", "TAB">>), PropertyLine(<<"set", "A">>, <<"q">>)>>,
   <<IncludeLine("include", <<"g">>), PropertyLine(<<"set", "default", "A">>, <<>>)>>,
   <<IncludeLine("include", <<"root">>)>>}

FileSystem(root, included, outer) ==
  [root |-> "root",
   files |-> [f \in {"root", "f", "g", "h"} |->
                CASE f = "root" -> root
                  [] f = "f" -> included
                  [] f = "g" -> <<IncludeLine("include", <<"h">>)>>
                  [] f = "h" -> <<PropertyLine(<<"name">>, <<"deep">>)>>],
   paths |-> [p \in {<<"root">>, <<"f">>, <<"link">>, <<"x">>, <<"o">>, <<"g">>, <<"h">>} |->
                CASE p = <<"root">> -> "root"
                  [] p \in {<<"f">>, <<"link">>, <<"x">>} -> "f"
                  [] p \in {<<"o">>, <<"h">>} -> "h"
                  [] p = <<"g">> -> "g"],
   environment |-> outer]

Environments == {<<>>, [v \in {<<"A">>, <<"B">>} |-> <<"e">>]}

FileSystems ==
  {FileSystem(root, included, outer) :
     root \in {r \in SeqOf(RootLines, RootLength) : Len(r) = RootLength},
     included \in Included, outer \in Environments}

CommandFile(fragment, second, memory) ==
  <<PropertyLine(<<"java">>, <<"j">>),
    PropertyLine(<<"additional", "1">>, fragment),
    PropertyLine(<<"additional", second>>, <<"x", " ", "x">>),
    PropertyLine(<<"parameter", "1">>, <<"x">>),
    PropertyLine(<<"initmemory">>, <<memory[1]>>),
    PropertyLine(<<"maxmemory">>, <<memory[2]>>)>>

CommandSystems ==
  {FileSystem(CommandFile(fragment, "2", <<"2", "1">>), <<>>, <<>>) :
     fragment \in SeqOf({"x", " ", Quote, Slash}, FragmentLength)}
  \cup
  {FileSystem(CommandFile(<<"x">>, second, memory), <<>>, <<>>) :
     second \in {"0", "3", "other"},
     memory \in {<<"0", "1">>, <<"3", "0">>, <<"bad", "2">>, <<"3", "2">>}}

MCSystems == FileSystems \cup CommandSystems

MCOverrideSets ==
  {<<>>,
   <<[name |-> <<"set", "A">>, value |-> <<"o">>]>>,
   <<[name |-> <<"set", "a">>, value |-> <<"%b%">>],
     [name |-> <<"name">>, value |-> <<"%A%">>]>>,
   <<[name |-> <<"name">>, value |-> <<"1">>], [name |-> <<"name">>, value |-> <<"2">>],
     [name |-> <<"set", "default", "A">>, value |-> <<"d">>]>>}
=============================================================================
