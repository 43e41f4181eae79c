------------------------------ MODULE MCWatchdog ------------------------------
(* Watchdog for TLC: the configurations give the constants their values,   *)
(* this module the conditions that make them fit for what is checked.      *)
EXTENDS Watchdog

\* No clock stops before the bounds it is compared with.
ASSUME ClocksSuffice ==
  /\ ClockMax > Allowed + HeapTimeout + Blocking + 1
  /\ ClockMax > StopWaitHint + DumpsLeftOut
  /\ StopMargin >= DrainTime

=============================================================================
