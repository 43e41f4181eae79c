----------------------------- MODULE MCPidFiles -----------------------------
(* Instance of PidFiles for TLC.                                           *)
EXTENDS PidFiles, TLC

\* Wrappers differ in nothing but their process ids.
WrapperSymmetry == Permutations(Wrappers)
=============================================================================
