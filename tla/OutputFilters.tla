---------------------------- MODULE OutputFilters ----------------------------
(***************************************************************************)
(* The output filters of wrapper.conf (Filters in src/src/logging.rs): a   *)
(* line of JVM output is compared with the triggers in the order of their  *)
(* numbers, and the first that matches supplies the actions.               *)
(*                                                                         *)
(* A byte is a string of one character.  Decoding a line for a trigger     *)
(* that is not ASCII is left out: the bytes here are ASCII.                *)
(***************************************************************************)
EXTENDS Integers, Sequences, Subsequences

CONSTANT MaxActions   \* the `take(16)` of Filters::from_config

ASSUME MaxActionsAssumption == MaxActions \in Nat \ {0}

FilterActionNames == {"NONE", "DEBUG", "DUMP", "GC", "RESTART", "SHUTDOWN",
                      "PAUSE", "RESUME"}

-----------------------------------------------------------------------------
(* Filters::from_config, for one numbered trigger: the words of            *)
(* wrapper.filter.action.<n> that name an action, RESTART if none does.    *)
ActionsOf(words) ==
  LET named == Pick(words, {i \in DOMAIN words : words[i] \in FilterActionNames})
      kept == SubSeq(named, 1, IF Len(named) < MaxActions THEN Len(named)
                                                          ELSE MaxActions)
  IN IF kept = <<>> THEN <<"RESTART">> ELSE kept

\* An entry of the configuration becomes a filter unless its trigger is empty.
from_config(entries) ==
  LET kept == Pick(entries, {i \in DOMAIN entries : entries[i].trigger # <<>>}) IN
    [i \in DOMAIN kept |->
       [trigger |-> kept[i].trigger, wildcards |-> kept[i].wildcards,
        actions |-> ActionsOf(kept[i].words)]]

-----------------------------------------------------------------------------
(* Matching.                                                               *)

WildcardNoBacktrackSlip(text, pattern) ==
  LET match[t \in 0..Len(text), p \in 0..Len(pattern)] ==
        IF p = Len(pattern) THEN TRUE
        ELSE IF pattern[p + 1] = "*" THEN match[t, p + 1]
        ELSE /\ t < Len(text)
             /\ pattern[p + 1] \in {"?", text[t + 1]}
             /\ match[t + 1, p + 1]
  IN match[0, 0]

\* The variables of the loop of wildcard_matches_prefix: t = text_index, p =
\* pattern_index, star = last_star + 1 (0 for None), which is where the pattern
\* goes on after the star, and st = star_text_index.  From there the text and
\* the pattern advance together, over no other star.
LoopStates(text, pattern) ==
  {x \in [t : 0..Len(text), p : 0..Len(pattern),
          star : 0..Len(pattern), st : 0..Len(text)] :
     /\ x.star <= x.p /\ x.p - x.star = x.t - x.st
     /\ \A i \in (x.star + 1)..x.p : pattern[i] # "*"}

\* The loop, as a function of the state it is in.
wildcard_matches_prefix(text, pattern) ==
  LET match[x \in LoopStates(text, pattern)] ==
        IF x.p = Len(pattern) THEN TRUE
        ELSE IF pattern[x.p + 1] = "*"
               THEN match[[x EXCEPT !.p = @ + 1, !.star = x.p + 1, !.st = x.t]]
        ELSE IF x.t < Len(text) /\ pattern[x.p + 1] \in {"?", text[x.t + 1]}
               THEN match[[x EXCEPT !.p = @ + 1, !.t = @ + 1]]
        ELSE /\ x.star # 0
             /\ x.st # Len(text)
             /\ match[[x EXCEPT !.st = @ + 1, !.t = x.st + 1, !.p = x.star]]
  IN match[[t |-> 0, p |-> 0, star |-> 0, st |-> 0]]

wildcard_contains(text, pattern) ==
  \E start \in 0..Len(text) :
    wildcard_matches_prefix(SubSeq(text, start + 1, Len(text)), pattern)

\* `windows(n).any(..)` of trigger_matches.
HasWindow(text, trigger) ==
  \E start \in 0..(Len(text) - Len(trigger)) :
    SubSeq(text, start + 1, start + Len(trigger)) = trigger

trigger_matches(line, filter) ==
  /\ filter.trigger # <<>>
  /\ IF filter.wildcards THEN wildcard_contains(line, filter.trigger)
                         ELSE HasWindow(line, filter.trigger)

\* inspect_bytes: the number of the first filter that matches, 0 for none.
inspect_bytes(filters, line) ==
  LET matching == {i \in DOMAIN filters : trigger_matches(line, filters[i])}
  IN IF matching = {} THEN 0
     ELSE CHOOSE i \in matching : \A j \in matching : i <= j

-----------------------------------------------------------------------------
(* What a trigger means, said without a loop: the characters of the        *)
(* pattern cover consecutive pieces of the line, a star any piece, a       *)
(* question mark one character, every other character itself.              *)
Covers(line, pattern, cut) ==
  \A i \in 1..Len(pattern) :
    /\ cut[i - 1] <= cut[i]
    /\ pattern[i] # "*" =>
         /\ cut[i] = cut[i - 1] + 1
         /\ pattern[i] \in {"?", line[cut[i]]}

Means(line, filter) ==
  IF filter.wildcards
    THEN \E cut \in [0..Len(filter.trigger) -> 0..Len(line)] :
           Covers(line, filter.trigger, cut)
    ELSE \E before, after \in 0..Len(line) :
           /\ before + Len(filter.trigger) + after = Len(line)
           /\ \A i \in DOMAIN filter.trigger : line[before + i] = filter.trigger[i]

=============================================================================
