----------------------------- MODULE MCSupervisor -----------------------------
(* Instances of Supervisor for TLC.                                        *)
EXTENDS Supervisor, TLC

\* The documented defaults, with a short restart limit.
DefaultConfig ==
  [pausable |-> FALSE, stop_jvm |-> TRUE, pause_on_startup |-> FALSE,
   disable_restarts |-> FALSE, disable_automatic |-> FALSE,
   dump_on_failed_exit |-> FALSE, jcmd |-> FALSE, job_object |-> TRUE,
   startup_delay |-> 0, restart_delay |-> 1, startup_timeout |-> 1,
   ping_timeout |-> 1, successful_time |-> 1, max_failed |-> 2,
   on_exit |-> <<>>, on_exit_default |-> "SHUTDOWN"]

\* A pausable service that restarts after a crash.
PausableConfig ==
  [DefaultConfig EXCEPT !.pausable = TRUE, !.pause_on_startup = TRUE,
                        !.startup_delay = 1, !.restart_delay = 0,
                        !.on_exit = 1 :> "RESTART", !.jcmd = TRUE]

\* Pause in place; the JVM runs outside a job object.
InPlaceConfig ==
  [DefaultConfig EXCEPT !.pausable = TRUE, !.stop_jvm = FALSE,
                        !.job_object = FALSE, !.dump_on_failed_exit = TRUE,
                        !.startup_timeout = 0, !.on_exit = 0 :> "PAUSE",
                        !.on_exit_default = "RESTART", !.max_failed = 0]

\* Restarts switched off for a service that would otherwise restart.
DisabledConfig ==
  [DefaultConfig EXCEPT !.disable_restarts = TRUE, !.pausable = TRUE,
                        !.successful_time = 0, !.on_exit_default = "RESTART"]

AllConfigurations ==
  {DefaultConfig, PausableConfig, InPlaceConfig, DisabledConfig}

\* The documented defaults alone.
OnlyDefault == {DefaultConfig}

=============================================================================
