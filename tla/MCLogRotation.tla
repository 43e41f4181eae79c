---------------------------- MODULE MCLogRotation ----------------------------
(* LogRotation for TLC: the configurations give the constants their values,*)
(* this module the condition that makes them fit for what is checked.      *)
EXTENDS LogRotation

\* There are enough records to fill every file and push one over the edge.
ASSUME HistoryOverflows == \A n \in MaxFilesValues : MaxRecords > MaxSize * (n + 1)

=============================================================================
