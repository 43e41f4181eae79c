---------------------------- MODULE Configuration ----------------------------
(***************************************************************************)
(* Loading wrapper.conf (Loader in src/src/config.rs): files that include  *)
(* each other, property lines, environment definitions and %NAME%          *)
(* expansion, and the name=value overrides of the command line, which are  *)
(* looked at before the files and applied after them.                      *)
(*                                                                         *)
(* A value is a sequence of characters, with %NAME% as one.  A name is the *)
(* sequence of its parts: set.default.A is <<"set", "default", "A">>.      *)
(***************************************************************************)
EXTENDS Integers, SequencesExt

CONSTANTS
  Systems,      \* what the loader may find: files, environment (see SystemOK)
  OverrideSets, \* the name=value arguments of the command line, in order
  References,   \* %NAME% characters and the environment name each refers to
  Uppercase,    \* parts of names that change when a name is normalized
  Numerals,     \* parts of names that parse as u32
  MaxIncludeDepth   \* MAX_INCLUDE_DEPTH (10)

\* A character of a value, or a part of a name.
Char == STRING

\* str::trim
Trim(value) ==
  LET text == {i \in DOMAIN value : value[i] \notin {" ", "TAB"}}
  IN IF text = {} THEN <<>> ELSE SubSeq(value, Min(text), Max(text))

(***************************************************************************)
(* A file is a sequence of logical lines.  paths says which file a path in *)
(* an #include leads to after canonicalization, if it exists.  The path of *)
(* an #include has no blanks around it: parse_include cuts it off a line   *)
(* that was trimmed, and drops the blanks before it.                       *)
(***************************************************************************)
Includes == {"include", "include.required", "include.debug"}
LineKind == Includes \cup
            {"property",
             "ignored",    \* blank, `!` or `#` comment
             "no_equals", "no_name"}
\* split_property cuts a name off at the first `=` and trims it.
NameOK(name) == name \in Seq(Char) /\ "=" \notin Range(name) /\ Trim(name) = name
LineOK(l) ==
  /\ l.kind \in LineKind
  /\ l.kind = "property" => NameOK(l.name) /\ l.value \in Seq(Char)
  /\ l.kind \in Includes => l.value \in Seq(Char) /\ Trim(l.value) = l.value
SystemOK(s) ==
  /\ s.root \in DOMAIN s.files
  /\ \A path \in DOMAIN s.paths : s.paths[path] \in DOMAIN s.files
  /\ \A f \in DOMAIN s.files :
       /\ s.files[f] \in Seq(Range(s.files[f]))
       /\ \A i \in DOMAIN s.files[f] : LineOK(s.files[f][i])
  /\ \A v \in DOMAIN s.environment : s.environment[v] \in Seq(Char)

ASSUME SystemAssumption == \A s \in Systems : SystemOK(s)
ASSUME OverridesAssumption ==
  \A os \in OverrideSets :
    /\ os \in Seq([name : Seq(Char), value : Seq(Char)])
    /\ \A i \in DOMAIN os : NameOK(os[i].name)
ASSUME DepthAssumption == MaxIncludeDepth \in Nat
ASSUME NumeralsAssumption == \A n \in DOMAIN Numerals : Numerals[n] \in Nat

VARIABLES
  system,       \* the files; never changed
  overrides,    \* the overrides of the command line
  properties,   \* name -> value
  environment,  \* normalized name -> value
  locked,       \* locked_environment
  stack,        \* include_stack, with the next line of each file
  applied,      \* number of overrides applied
  status        \* "files", "overrides", "loaded" or the reason of an error

input == <<system, overrides>>
vars == <<input, properties, environment, locked, stack, applied, status>>

Errors == {"depth", "missing", "cycle", "syntax"}

-----------------------------------------------------------------------------
(* Names, values and maps.                                                 *)

Put(map, key, value) ==
  [k \in DOMAIN map \cup {key} |-> IF k = key THEN value ELSE map[k]]

normalize_environment_name(name) ==
  [i \in DOMAIN name |-> IF name[i] \in DOMAIN Uppercase THEN Uppercase[name[i]]
                                                         ELSE name[i]]

HasPrefix(name, prefix) == IsPrefix(prefix, name) /\ Len(name) > Len(prefix)
StripPrefix(name, prefix) == SubSeq(name, Len(prefix) + 1, Len(name))

\* expand_environment: one pass; an unknown name stays as it is, and what was
\* put in is not expanded again.
expand_environment(value, env) ==
  LET expansion(c) ==
        IF c \in DOMAIN References
             /\ normalize_environment_name(References[c]) \in DOMAIN env
          THEN env[normalize_environment_name(References[c])]
          ELSE <<c>>
  IN FlattenSeq([i \in DOMAIN value |-> expansion(value[i])])

\* decode_hash_comments: # begins a comment, ## is a literal #.
decode_hash_comments(value) ==
  LET decoded[i \in 1..(Len(value) + 2)] ==
        IF i > Len(value) THEN <<>>
        ELSE IF value[i] # "#" THEN <<value[i]>> \o decoded[i + 1]
        ELSE IF i < Len(value) /\ value[i + 1] = "#" THEN <<"#">> \o decoded[i + 2]
        ELSE <<>>
  IN decoded[1]

-----------------------------------------------------------------------------
(* Loader::new: a set.NAME override defines and locks the variable before  *)
(* any file is read, as it is written.  (set.default.NAME also has the     *)
(* prefix set. and locks a variable of the name default.NAME.)             *)
SetOverrides(os) == {i \in DOMAIN os : HasPrefix(os[i].name, <<"set">>)}
VariableOf(name) == normalize_environment_name(StripPrefix(name, <<"set">>))

new(s, os) ==
  LET names == {VariableOf(os[i].name) : i \in SetOverrides(os)}
      last(v) == Max({i \in SetOverrides(os) : VariableOf(os[i].name) = v})
  IN /\ locked = names
     /\ environment = [v \in names \cup DOMAIN s.environment |->
                         IF v \in names THEN os[last(v)].value
                                        ELSE s.environment[v]]

ApplyUnlockedSlip(env, name, value) ==
  IF HasPrefix(name, <<"set">>) THEN Put(env, VariableOf(name), value) ELSE env

\* apply_environment_property
apply_environment_property(env, name, value) ==
  LET default == HasPrefix(name, <<"set", "default">>)
      v == normalize_environment_name(
             StripPrefix(name, IF default THEN <<"set", "default">> ELSE <<"set">>))
  IN IF /\ HasPrefix(name, <<"set">>)
        /\ v \notin locked
        /\ default => v \notin DOMAIN env
       THEN Put(env, v, value)
       ELSE env

-----------------------------------------------------------------------------
Top == stack[Len(stack)]
Depth == Len(stack) - 1
Advanced == [stack EXCEPT ![Len(stack)].next = @ + 1]
OnStack(file) == \E i \in DOMAIN stack : stack[i].file = file
AtLine == status = "files" /\ Top.next <= Len(system.files[Top.file])
CurrentLine == system.files[Top.file][Top.next]

Fail(reason) ==
  /\ status' = reason
  /\ UNCHANGED <<input, properties, environment, locked, stack, applied>>

TooDeep(depth) == depth > MaxIncludeDepth

\* parse_line for a line that defines nothing; a line without `=` is reported.
Skip ==
  /\ AtLine
  /\ CurrentLine.kind \in {"ignored", "no_equals"}
  /\ stack' = Advanced
  /\ UNCHANGED <<input, properties, environment, locked, applied, status>>

NoName ==
  /\ AtLine
  /\ CurrentLine.kind = "no_name"
  /\ Fail("syntax")

\* parse_line for name=value.
Property ==
  /\ AtLine
  /\ CurrentLine.kind = "property"
  /\ LET value == expand_environment(Trim(decode_hash_comments(CurrentLine.value)),
                                     environment)
     IN /\ properties' = Put(properties, CurrentLine.name, value)
        /\ environment' =
             apply_environment_property(environment, CurrentLine.name, value)
  /\ stack' = Advanced
  /\ UNCHANGED <<input, locked, applied, status>>

\* parse_line for an #include, and load_file for the file it names.
Include ==
  /\ AtLine
  /\ CurrentLine.kind \in Includes
  /\ LET path == Trim(expand_environment(CurrentLine.value, environment)) IN
       IF TooDeep(Depth + 1) THEN Fail("depth")
       ELSE IF path \notin DOMAIN system.paths
         THEN IF CurrentLine.kind = "include.required" THEN Fail("missing")
              ELSE /\ stack' = Advanced
                   /\ UNCHANGED <<input, properties, environment, locked, applied,
                                  status>>
       ELSE IF OnStack(system.paths[path]) THEN Fail("cycle")
       ELSE /\ stack' = Append(Advanced, [file |-> system.paths[path], next |-> 1])
            /\ UNCHANGED <<input, properties, environment, locked, applied, status>>

EndOfFileStopsSlip ==
  /\ status = "files"
  /\ ~AtLine
  /\ stack' = <<>>
  /\ status' = "overrides"
  /\ UNCHANGED <<input, properties, environment, locked, applied>>

\* load_file returns to the file that included this one.
EndOfFile ==
  /\ status = "files"
  /\ ~AtLine
  /\ stack' = Front(stack)
  /\ status' = IF Len(stack) = 1 THEN "overrides" ELSE "files"
  /\ UNCHANGED <<input, properties, environment, locked, applied>>

\* apply_overrides, one override after the other.
ApplyOverride ==
  /\ status = "overrides"
  /\ applied < Len(overrides)
  /\ LET o == overrides[applied + 1]
         value == expand_environment(o.value, environment)
     IN /\ properties' = Put(properties, o.name, value)
        /\ environment' = apply_environment_property(environment, o.name, value)
  /\ applied' = applied + 1
  /\ UNCHANGED <<input, locked, stack, status>>

Loaded ==
  /\ status = "overrides"
  /\ applied = Len(overrides)
  /\ status' = "loaded"
  /\ UNCHANGED <<input, properties, environment, locked, stack, applied>>

Init ==
  /\ system \in Systems
  /\ overrides \in OverrideSets
  /\ properties = <<>>
  /\ new(system, overrides)
  /\ stack = <<[file |-> system.root, next |-> 1]>>
  /\ applied = 0
  /\ status = "files"

LoadStep ==
  Skip \/ NoName \/ Property \/ Include \/ EndOfFile \/ ApplyOverride \/ Loaded

-----------------------------------------------------------------------------
(* What the rest of the program reads.                                     *)

\* Config::numbered, as the sequence of the indices it returns.  (Two names with
\* one index, such as .1 and .01, are left out.)
numbered(props, prefix, ignore_gaps) ==
  LET defined == {i \in {Numerals[n] : n \in DOMAIN Numerals} \ {0} :
                    \E n \in DOMAIN Numerals :
                      Numerals[n] = i /\ <<prefix, n>> \in DOMAIN props}
      kept == IF ignore_gaps THEN defined
              ELSE {i \in defined : 1..i \subseteq defined}
  IN SetToSortSeq(kept, <)

NumeralOf(i) == CHOOSE n \in DOMAIN Numerals : Numerals[n] = i

is_sensitive_name(name) == "password" \in Range(name)

\* protocol_properties: what the JVM is sent, tabs doubled.  (In the code the
\* entries are in the order of their names; nothing depends on it.)
Doubled(text) ==
  FlattenSeq([i \in DOMAIN text |-> IF text[i] = "TAB" THEN <<"TAB", "TAB">>
                                                       ELSE <<text[i]>>])

protocol_properties(props) ==
  LET entry(n) == Doubled(n) \o <<"=">> \o Doubled(props[n])
      add(n, output) == (IF output = <<>> THEN <<>> ELSE Append(output, "TAB")) \o entry(n)
  IN FoldSet(add, <<>>, {n \in DOMAIN props : ~is_sensitive_name(n)})

\* BackendClient.loadProperties, character by character: entries found so far,
\* the entry being read, and whether the last character was a lone tab.
SplitStart == [entries |-> <<>>, entry |-> <<>>, tab |-> FALSE]

SplitEveryTabSlip(s, c) ==
  IF c = "TAB" THEN [s EXCEPT !.entries = Append(@, s.entry), !.entry = <<>>]
               ELSE [s EXCEPT !.entry = Append(@, c)]

\* A doubled tab is a tab; a lone one separates.
SplitStep(s, c) ==
  IF c = "TAB" /\ ~s.tab THEN [s EXCEPT !.tab = TRUE]
  ELSE IF s.tab /\ c # "TAB"
    THEN [entries |-> Append(s.entries, s.entry), entry |-> <<c>>, tab |-> FALSE]
  ELSE [s EXCEPT !.entry = Append(@, c), !.tab = FALSE]

SplitEntries(encoded) ==
  LET end == FoldLeft(SplitStep, SplitStart, encoded)
  IN Append(end.entries, end.entry)

\* BackendClient.addProperty for each entry: the name ends at the first `=`.
loadProperties(encoded) ==
  LET entries == Range(SplitEntries(encoded))
      cut(e) == Min({i \in DOMAIN e : e[i] = "="})
      named == {e \in entries : "=" \in Range(e)}
      name(e) == SubSeq(e, 1, cut(e) - 1)
  IN [n \in {name(e) : e \in named} |->
        LET e == CHOOSE e \in named : name(e) = n
        IN SubSeq(e, cut(e) + 1, Len(e))]

-----------------------------------------------------------------------------
(* Properties.                                                             *)

\* The files being read are distinct, whatever paths led to them, and nested no
\* deeper than MAX_INCLUDE_DEPTH levels below the root: loading ends.
NestingIsBounded ==
  /\ Len(stack) <= MaxIncludeDepth + 1
  /\ \A i, j \in DOMAIN stack : stack[i].file = stack[j].file => i = j

LastOverride(name) ==
  Max({0} \cup {i \in DOMAIN overrides : overrides[i].name = name})

\* A value without references is what it says.
Literal(value) == \A i \in DOMAIN value : value[i] \notin DOMAIN References

\* help.txt: "Command-line name=value properties override wrapper.conf."
\* Whatever the files and their includes say, in whatever order, the loaded
\* value is the expansion of the last override with that name.
OverridesWin ==
  status = "loaded" =>
    \A name \in {overrides[i].name : i \in DOMAIN overrides} :
      Literal(overrides[LastOverride(name)].value) =>
        properties[name] = overrides[LastOverride(name)].value

\* A variable that is defined, outside, on the command line or by an earlier
\* line, changes only through a set.NAME line or override with a new value:
\* set.default.NAME yields to it, and one set on the command line never changes.
VariablesChangeBySet ==
  [][\A v \in DOMAIN environment : environment'[v] # environment[v] =>
       /\ v \notin locked
       /\ \E name \in DOMAIN properties' :
            /\ HasPrefix(name, <<"set">>) /\ ~HasPrefix(name, <<"set", "default">>)
            /\ VariableOf(name) = v
            /\ properties'[name] = environment'[v]]_vars

\* The child's variable NAME is what the property set.NAME of the loaded
\* configuration shows, when only one spelling of the name is used.  An
\* override with references is the exception: the variable keeps them as
\* written while the property is expanded.
SetMeansEnvironment ==
  status = "loaded" =>
    \A name \in DOMAIN properties :
      /\ HasPrefix(name, <<"set">>) /\ ~HasPrefix(name, <<"set", "default">>)
      /\ \A other \in DOMAIN properties :
           HasPrefix(other, <<"set">>) /\ VariableOf(other) = VariableOf(name)
             => other = name
      /\ LastOverride(name) # 0 => Literal(overrides[LastOverride(name)].value)
      => /\ VariableOf(name) \in DOMAIN environment
         /\ environment[VariableOf(name)] = properties[name]

(***************************************************************************)
(* What the files mean without a stack: their lines in the order in which  *)
(* a reader would put each included file in the place of its directive.    *)
(* Only for files whose include paths have no references.                  *)
(***************************************************************************)
InPlace(s, l, texts) ==
  IF l.kind \notin Includes THEN <<l>>
  ELSE IF l.value \in DOMAIN s.paths THEN texts[s.paths[l.value]]
  ELSE <<>>

\* The text of each file, with includes up to d - 1 levels below it.
Texts(s) ==
  LET text[d \in 0..(MaxIncludeDepth + 1)] ==
        IF d = 0 THEN [f \in DOMAIN s.files |-> <<>>]
        ELSE [f \in DOMAIN s.files |->
               FlattenSeq([i \in DOMAIN s.files[f] |->
                 InPlace(s, s.files[f][i], text[d - 1])])]
  IN text

TextOf(s) == Texts(s)[MaxIncludeDepth + 1][s.root]

PlainIncludes(s) ==
  \A f \in DOMAIN s.files : \A i \in DOMAIN s.files[f] :
    s.files[f][i].kind \in Includes => Literal(s.files[f][i].value)

\* The value of a property line before references in it are expanded.
Plain(value) == Trim(decode_hash_comments(value))

\* The lines of a text that define a property.
Defining(text) == {i \in DOMAIN text : text[i].kind = "property"}

\* Included files count as if their text stood in the place of the directive:
\* of several definitions of a name, across all files, the last one holds.
IncludeIsTextual ==
  status = "overrides" /\ applied = 0 /\ PlainIncludes(system) =>
    LET text == TextOf(system) IN
      /\ DOMAIN properties = {text[i].name : i \in Defining(text)}
      /\ \A name \in DOMAIN properties :
           LET last == Max({i \in Defining(text) : text[i].name = name})
           IN Literal(Plain(text[last].value)) =>
                properties[name] = Plain(text[last].value)

\* What was loaded is what the files and the command line say, read in order.
LoadedAsWritten ==
  NestingIsBounded /\ OverridesWin /\ SetMeansEnvironment /\ IncludeIsTextual

\* The bridge reads from the PROPERTIES packet exactly the properties that are
\* not sensitive, tabs in values and empty values included.
PacketKeepsProperties ==
  status = "loaded" =>
    loadProperties(protocol_properties(properties)) =
      [n \in {m \in DOMAIN properties : ~is_sensitive_name(m)} |-> properties[n]]

=============================================================================
