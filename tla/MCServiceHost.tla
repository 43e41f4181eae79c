---------------------------- MODULE MCServiceHost ----------------------------
(* Instances of ServiceHost for TLC.                                       *)
EXTENDS ServiceHost, TLC

\* One failure allowed, to keep the behaviours short for liveness.
HostDefault ==
  [pausable |-> FALSE, stop_jvm |-> TRUE, pause_on_startup |-> FALSE,
   disable_restarts |-> FALSE, disable_automatic |-> FALSE,
   dump_on_failed_exit |-> FALSE, jcmd |-> FALSE, job_object |-> TRUE,
   startup_delay |-> 0, restart_delay |-> 1, startup_timeout |-> 1,
   ping_timeout |-> 1, successful_time |-> 1, max_failed |-> 1,
   on_exit |-> <<>>, on_exit_default |-> "RESTART"]

HostPausable == [HostDefault EXCEPT !.pausable = TRUE, !.pause_on_startup = TRUE]

\* A pause that leaves the JVM running.  It needs no second JVM.
HostInPlace == [HostDefault EXCEPT !.pausable = TRUE, !.stop_jvm = FALSE,
                                   !.disable_restarts = TRUE]

HostConfigurations == {HostPausable, HostInPlace}

\* wrapper.on_exit.default=PAUSE on a pausable service.
PauseOnExit == {[HostDefault EXCEPT !.pausable = TRUE,
                                    !.on_exit_default = "PAUSE"]}

=============================================================================
