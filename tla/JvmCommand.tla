----------------------------- MODULE JvmCommand -----------------------------
(***************************************************************************)
(* The Java command line built from a loaded configuration (JvmCommand in  *)
(* src/src/jvm.rs): which configured fragments become which arguments, the *)
(* heap sizes, and the main class that is really launched.                 *)
(***************************************************************************)
EXTENDS Configuration

VARIABLE command   \* the command built, or why there is none

commandVars == <<vars, command>>

NoCommand == [kind |-> "none"]

\* get_bool, get_u64 (default 0) and required.
TrueValues == {<<"true">>, <<"yes">>, <<"1">>, <<"on">>}
get_bool(name) == name \in DOMAIN properties /\ Trim(properties[name]) \in TrueValues
get_u64(name) ==
  IF /\ name \in DOMAIN properties
     /\ \E n \in DOMAIN Numerals : Trim(properties[name]) = <<n>>
    THEN Numerals[Trim(properties[name])[1]]
    ELSE 0
Present(name) == name \in DOMAIN properties /\ Trim(properties[name]) # <<>>

-----------------------------------------------------------------------------
(* parse_legacy_windows_fragment.                                          *)

Blank == {" ", "TAB"}
Slash == "\\"
Quote == "\""
Repeat(c, n) == [i \in 1..n |-> c]

\* Length of the run of backslashes that starts at position i.
SlashRun(text, i) ==
  Max({n \in 0..(Len(text) - i + 1) : \A k \in 0..(n - 1) : text[i + k] = Slash})

SlashesBareSlip(run, before_quote) == Repeat(Slash, run)

\* Before a quote a pair of backslashes is one, elsewhere each is itself.
Slashes(run, before_quote) == Repeat(Slash, IF before_quote THEN run \div 2 ELSE run)

\* The inner loop, from cursor i with the flag quoted: the rest of the
\* argument's text, whether a character or quote was seen, and where it ends.
TokenFrom(text) ==
  LET token[i \in 1..(Len(text) + 1), quoted \in BOOLEAN] ==
        IF i > Len(text) \/ (~quoted /\ text[i] \in Blank)
          THEN [text |-> <<>>, saw |-> FALSE, next |-> i]
        ELSE IF text[i] = Slash
          THEN LET run == SlashRun(text, i)
                   j == i + run
                   before_quote == j <= Len(text) /\ text[j] = Quote
                   rest == IF ~before_quote THEN token[j, quoted]
                           ELSE token[j + 1, IF run % 2 = 0 THEN ~quoted ELSE quoted]
                   literal == IF before_quote /\ run % 2 = 1 THEN <<Quote>> ELSE <<>>
               IN [text |-> Slashes(run, before_quote) \o literal \o rest.text,
                   saw |-> before_quote \/ rest.saw, next |-> rest.next]
        ELSE IF text[i] = Quote
          THEN [token[i + 1, ~quoted] EXCEPT !.saw = TRUE]
        ELSE LET rest == token[i + 1, quoted]
             IN [text |-> <<text[i]>> \o rest.text, saw |-> TRUE, next |-> rest.next]
  IN [i \in 1..(Len(text) + 1) |-> token[i, FALSE]]

\* The outer loop: an argument is kept only if something was seen in it.
parse_legacy_windows_fragment(text) ==
  LET arguments[i \in 1..(Len(text) + 1)] ==
        IF i > Len(text) THEN <<>>
        ELSE IF text[i] \in Blank THEN arguments[i + 1]
        ELSE LET token == TokenFrom(text)[i]
             IN (IF token.saw THEN <<token.text>> ELSE <<>>) \o arguments[token.next]
  IN arguments[1]

-----------------------------------------------------------------------------
(* JvmCommand::build.                                                      *)

\* The arguments of a numbered family; an empty value adds none.
FragmentArguments(prefix) ==
  LET indices == numbered(properties, prefix, get_bool(<<"ignore_sequence_gaps">>))
  IN FlattenSeq([k \in DOMAIN indices |->
       parse_legacy_windows_fragment(properties[<<prefix, NumeralOf(indices[k])>>])])

\* -Xmx, never below -Xms; 0 stands for no option.
MaxMemory(init, max) == IF max > 0 THEN Max({max, init, 1}) ELSE 0

(***************************************************************************)
(* resolve_main_class.  A configured class is a launcher of the bridge by  *)
(* its full name, a class whose simple name ends like one of them, or any  *)
(* other; class_found says that the classpath contains it.                 *)
(***************************************************************************)
ConfiguredClass == {"launcher", "lookalike", "other"}

resolve_main_class(configured, class_found) ==
  IF configured = "launcher" \/ (configured = "lookalike" /\ ~class_found)
    THEN "bundled" ELSE "direct"

\* What the classpath holds is read from the disk at every launch.
Build(configured, class_found, bridge_found) ==
  /\ status = "loaded"
  /\ command = NoCommand
  /\ configured = "launcher" => class_found = bridge_found
  /\ LET init == get_u64(<<"initmemory">>)
         main == resolve_main_class(configured, class_found)
     IN command' =
          IF ~Present(<<"java">>) THEN [kind |-> "no_java"]
          ELSE IF main = "bundled" /\ ~bridge_found THEN [kind |-> "no_bridge"]
          ELSE [kind |-> "built",
                additional |-> FragmentArguments("additional"),
                xms |-> init, xmx |-> MaxMemory(init, get_u64(<<"maxmemory">>)),
                configured |-> configured, main |-> main,
                class_found |-> class_found, bridge_found |-> bridge_found,
                parameter |-> FragmentArguments("parameter"),
                environment |-> environment]
  /\ UNCHANGED vars

CommandInit == Init /\ command = NoCommand

\* The command was built, or loading failed.
Finished == (command # NoCommand \/ status \in Errors) /\ UNCHANGED commandVars

CommandNext ==
  \/ LoadStep /\ UNCHANGED command
  \/ \E configured \in ConfiguredClass, class_found, bridge_found \in BOOLEAN :
       Build(configured, class_found, bridge_found)
  \/ Finished

CommandSpec == CommandInit /\ [][CommandNext]_commandVars

-----------------------------------------------------------------------------
Defined(family, indices) ==
  \A i \in indices : \E n \in DOMAIN Numerals :
    Numerals[n] = i /\ <<family, n>> \in DOMAIN properties

(* What the quoting rules of Windows say of a fragment, position by        *)
(* position and without a cursor.                                          *)

\* Backslashes directly before position i.
SlashesBefore(text, i) ==
  Max({n \in 0..(i - 1) : \A k \in 1..n : text[i - k] = Slash})
\* A quote that groups: it is not escaped by an odd number of backslashes.
Groups(text, i) == text[i] = Quote /\ SlashesBefore(text, i) % 2 = 0
Quoted(text, i) ==
  Cardinality({j \in 1..(i - 1) : Groups(text, j)}) % 2 = 1
Separates(text, i) == text[i] \in Blank /\ ~Quoted(text, i)

\* Inside a quoted part a pair of quotes stands for one quote of the argument, and
\* the part goes on: this is the second of such a pair.
DoubledQuote(text, i) ==
  /\ i > 1 /\ Groups(text, i)
  /\ Groups(text, i - 1) /\ Quoted(text, i - 1)

\* A position whose character is part of the argument: no grouping quote, and
\* of the backslashes before a quote only every second one.
Counts(text, i) ==
  IF text[i] # Slash THEN ~Groups(text, i) \/ DoubledQuote(text, i)
  ELSE LET after == Min({j \in i..(Len(text) + 1) :
                           j = Len(text) + 1 \/ text[j] # Slash})
       IN \/ after = Len(text) + 1
          \/ text[after] # Quote
          \/ SlashesBefore(text, i) % 2 = 1

\* The fragments between separators, each as the interval of its positions.
Intervals(text) ==
  {iv \in (1..Len(text)) \X (1..Len(text)) :
     /\ iv[1] <= iv[2]
     /\ \A i \in iv[1]..iv[2] : ~Separates(text, i)
     /\ iv[1] = 1 \/ Separates(text, iv[1] - 1)
     /\ iv[2] = Len(text) \/ Separates(text, iv[2] + 1)}

WindowsArguments(text) ==
  LET found == SetToSortSeq(Intervals(text), LAMBDA a, b : a[1] < b[1])
      content(iv) == LET kept == SetToSortSeq({i \in iv[1]..iv[2] : Counts(text, i)}, <)
                     IN [k \in DOMAIN kept |-> text[kept[k]]]
  IN [n \in DOMAIN found |-> content(found[n])]

\* The texts of which the code makes other arguments than Windows does: it takes a
\* doubled quote for the end and the beginning of a quoted part, and it drops an
\* argument of nothing but backslashes.
Exceptional(text) ==
  \/ \E i \in DOMAIN text : DoubledQuote(text, i)
  \/ \E iv \in Intervals(text) : \A i \in iv[1]..iv[2] : text[i] = Slash

\* The fragments of a family, none after a missing index.
Fragments(family) ==
  LET last == CHOOSE n \in 0..Cardinality(DOMAIN Numerals) :
                /\ Defined(family, 1..n)
                /\ ~Defined(family, 1..(n + 1))
  IN [i \in 1..last |-> properties[<<family, NumeralOf(i)>>]]

FollowsWindows(family) ==
  LET fragments == Fragments(family)
  IN command[family] =
       FlattenSeq([i \in DOMAIN fragments |-> WindowsArguments(fragments[i])])

WithoutGaps == command.kind = "built" /\ ~get_bool(<<"ignore_sequence_gaps">>)
Families == {"additional", "parameter"}

-----------------------------------------------------------------------------
(* Properties.                                                             *)

\* The configured fragments reach Java as the arguments Windows would make of
\* them, those of index 1 first and none after a missing index: unquoted blanks
\* separate, grouping quotes vanish, escaped quotes stay, and backslashes are
\* halved before a quote only.  The two kinds of Exceptional texts are left out.
FragmentsFollowWindows ==
  WithoutGaps => \A family \in Families :
    (\E i \in DOMAIN Fragments(family) : Exceptional(Fragments(family)[i]))
      \/ FollowsWindows(family)

\* The JVM can start as the operator meant it: -Xmx is not below -Xms, a
\* launcher of the bridge is only started from a classpath that has the bridge,
\* and a class of the user that the classpath has is never replaced.
CommandIsConsistent ==
  command.kind = "built" =>
    /\ command.xmx # 0 => command.xmx >= command.xms
    /\ command.main = "bundled" => command.bridge_found
    /\ command.configured # "launcher" /\ command.class_found =>
         command.main = "direct"

\* The command line is the one the configuration describes.
CommandAsConfigured == FragmentsFollowWindows /\ CommandIsConsistent

=============================================================================
