--------------------------- MODULE MCControlChannel ---------------------------
(* ControlChannel for TLC.                                                 *)
EXTENDS ControlChannel
=============================================================================
