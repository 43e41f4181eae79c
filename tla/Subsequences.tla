---------------------------- MODULE Subsequences ----------------------------
(***************************************************************************)
(* The elements a filter keeps, in their order (Iterator::filter): as      *)
(* SelectSeq, but for a set of positions and with a definition that proofs *)
(* can expand.                                                             *)
(***************************************************************************)
EXTENDS Integers, Sequences

Pick(s, positions) ==
  LET picked[n \in 0..Len(s)] ==
        IF n = 0 THEN <<>>
        ELSE IF n \in positions THEN Append(picked[n - 1], s[n])
        ELSE picked[n - 1]
  IN picked[Len(s)]

=============================================================================
