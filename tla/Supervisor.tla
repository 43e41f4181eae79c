------------------------------ MODULE Supervisor ------------------------------
(***************************************************************************)
(* The supervisor thread of Java Service Steward (src/src/supervisor.rs):  *)
(* Supervisor::run, which launches one JVM after the other, and the event  *)
(* loop of JvmRun, which looks after the JVM that is alive.                *)
(*                                                                         *)
(* The thread owns every lifecycle decision.  Around it run the Java child *)
(* and its control channel, the reader threads that only feed queues, and  *)
(* the threads that post controls (SCM handler, console handler).          *)
(*                                                                         *)
(* Time is abstract here: a deadline may expire whenever the code checks   *)
(* it.  The module Watchdog counts time.                                   *)
(***************************************************************************)
EXTENDS Integers, Sequences

CONSTANTS
  Configurations,   \* the configurations wrapper.conf may hold (see ConfigOK)
  Requests,         \* the controls the environment posts
  FilterActions,    \* the filter actions that output lines trigger
  ExitCodes,        \* exit codes of the JVM and of the wrapper
  MaxJvmId,         \* u32::MAX, where saturating_add stops counting
  ControlCapacity,  \* bound of the control channel (16 console, 32 service)
  EventCapacity,    \* bound of the telemetry channel (512)
  PacketCapacity,   \* protocol::EVENT_QUEUE_CAPACITY (256)
  OtherEvents,      \* whether events of other kinds may fill that channel
  IoErrors          \* whether a log write or process query may fail

Control == {"Stop", "ConsoleInterrupt", "ConsoleBreak", "Pause", "Resume",
            "ThreadDump", "HeapDump", "User"}
StopRequests == {"Stop", "ConsoleInterrupt"}
FilterAction == {"DUMP", "GC", "RESTART", "SHUTDOWN", "PAUSE", "RESUME"}
ExitAction == {"SHUTDOWN", "RESTART", "PAUSE"}

(***************************************************************************)
(* The properties of wrapper.conf the thread reads.  A delay or a timeout  *)
(* only matters here as zero or not zero.                                  *)
(***************************************************************************)
ConfigOK(c) ==
  /\ c.pausable \in BOOLEAN             \* wrapper.pausable
  /\ c.stop_jvm \in BOOLEAN             \* wrapper.pausable.stop_jvm
  /\ c.pause_on_startup \in BOOLEAN     \* wrapper.pause_on_startup
  /\ c.disable_restarts \in BOOLEAN     \* wrapper.disable_restarts
  /\ c.disable_automatic \in BOOLEAN    \* wrapper.disable_restarts.automatic
  /\ c.dump_on_failed_exit \in BOOLEAN  \* wrapper.request_thread_dump_on_failed_jvm_exit
  /\ c.jcmd \in BOOLEAN                 \* jss.threaddump.method resolves to JCMD
  /\ c.job_object \in BOOLEAN           \* jss.java.job_object
  /\ c.startup_delay \in Nat            \* wrapper.startup.delay[.service|.console]
  /\ c.restart_delay \in Nat            \* wrapper.restart.delay
  /\ c.startup_timeout \in Nat          \* wrapper.startup.timeout
  /\ c.ping_timeout \in Nat             \* wrapper.ping.timeout
  /\ c.successful_time \in Nat          \* wrapper.successful_invocation_time
  /\ c.max_failed \in Nat               \* wrapper.max_failed_invocations
  /\ c.on_exit_default \in ExitAction   \* wrapper.on_exit.default
  /\ \A code \in DOMAIN c.on_exit :     \* wrapper.on_exit.<code>
       c.on_exit[code] \in ExitAction

ASSUME ConfigAssumption == \A c \in Configurations : ConfigOK(c)
ASSUME RequestAssumption == Requests \subseteq Control
ASSUME FilterAssumption == FilterActions \subseteq FilterAction
ASSUME ExitCodeAssumption == ExitCodes \subseteq Int /\ {0, 1} \subseteq ExitCodes
ASSUME BoundAssumption ==
  /\ MaxJvmId \in Nat \ {0}
  /\ ControlCapacity \in Nat
  /\ EventCapacity \in Nat
  /\ PacketCapacity \in Nat
  /\ OtherEvents \in BOOLEAN
  /\ IoErrors \in BOOLEAN

VARIABLES
  config,              \* the loaded configuration, never changed
  pc,                  \* where the thread is (Locations)
  jvm_id,              \* number of the JVM invocation
  failed_invocations,  \* consecutive invocations that ended too soon
  resuming,            \* the next STARTED also announces ServiceResumed
  outcome,             \* the RunOutcome of the invocation, once decided
  result,              \* what Supervisor::run returned
  controls,            \* the control channel
  events,              \* the telemetry channel (the kinds the SCM reporter reads)
  child,               \* the Java process
  status,              \* exit code of a child that has exited
  job,                 \* the child sits in a kill-on-close job object
  channel,             \* the control channel to the JVM (Channel)
  started,             \* the application reported STARTED
  paused_in_place,     \* the JVM was told PAUSE and is still alive
  dropped,             \* history: an event was dropped by a full channel
  launches,            \* history: JVMs launched (counted to MaxJvmId)
  streak               \* history: launches since the last long run or pause

telemetry == <<events, dropped>>
outer == <<jvm_id, failed_invocations, resuming>>
history == <<launches, streak>>
jvm == <<child, status, job>>
vars == <<config, pc, outer, outcome, result, controls, telemetry, jvm, channel,
          started, paused_in_place, history>>

-----------------------------------------------------------------------------
(* Locations of the thread.  Each is a place where it blocks, or the start *)
(* of a stretch of code that runs without blocking.                        *)
StartupWaits == {"startup_paused", "startup_delay"}
InRun == {"running", "dumping", "stopping", "dump_grace"}
Locations == {"starting", "launch", "outcome", "paused", "restart_delay",
              "returned"} \cup StartupWaits \cup InRun

\* RunOutcome.  long stands for `elapsed`: the invocation lasted for
\* successful_invocation_time or more.
OutcomeOf(kind, code, automatic) ==
  [kind |-> kind, code |-> code, automatic |-> automatic, long |-> FALSE]
StopOutcome(code) == OutcomeOf("Stop", code, FALSE)
PauseOutcome == OutcomeOf("Pause", 0, FALSE)
Exited(code) == OutcomeOf("Exited", code, FALSE)
Restart(automatic, code) == OutcomeOf("Restart", code, automatic)
NoOutcome == OutcomeOf("None", 0, FALSE)
Outcome == [kind : {"None", "Stop", "Pause", "Exited", "Restart"},
            code : ExitCodes, automatic : BOOLEAN, long : BOOLEAN]

Running == [kind |-> "running", code |-> 0]
Ok(code) == [kind |-> "ok", code |-> code]
Err == [kind |-> "error", code |-> 1]
Result == [kind : {"running", "ok", "error"}, code : ExitCodes]

(***************************************************************************)
(* The control channel to one JVM.  link is the socket as the JVM left it: *)
(* it has dialled and sent its key ("dialled"), closed again before the    *)
(* supervisor looked ("hungup"), is authenticated ("open"), or has closed  *)
(* an authenticated socket ("closed").  inbox holds what the reader thread *)
(* decoded, in order; "Disconnected" is its last item.                     *)
(***************************************************************************)
Packet == [code : {"STARTED", "RESTART", "STOP", "PING", "Disconnected"},
           arg : ExitCodes]
P(code, arg) == [code |-> code, arg |-> arg]
Disconnected == P("Disconnected", 0)
Channel == [connected : BOOLEAN, ever : BOOLEAN, inbox : Seq(Packet),
            link : {"none", "dialled", "hungup", "open", "closed"}]
NoChannel == [connected |-> FALSE, ever |-> FALSE, inbox |-> <<>>,
              link |-> "none"]

Event == {"JvmStarted", "ServicePaused", "ServiceResumed"}

-----------------------------------------------------------------------------
(* Helpers of the configuration and of the channels.                       *)

MaxFailed == IF config.max_failed > 1 THEN config.max_failed ELSE 1

NextJvmId == IF jvm_id < MaxJvmId THEN jvm_id + 1 ELSE jvm_id

on_exit_action(code) ==
  IF code \in DOMAIN config.on_exit THEN config.on_exit[code]
                                    ELSE config.on_exit_default

(***************************************************************************)
(* EventPublisher::publish never blocks: the event is dropped when the     *)
(* channel is full.  Only the kinds the SCM reporter acts on are kept; the *)
(* others share the channel, so it can be full of them at any time.        *)
(***************************************************************************)
Publications(queue, event) ==
  (IF Len(queue) < EventCapacity THEN {Append(queue, event)} ELSE {})
    \cup (IF OtherEvents \/ Len(queue) >= EventCapacity THEN {queue} ELSE {})

Publish(event) ==
  /\ events' \in Publications(events, event)
  /\ dropped' = (dropped \/ events' = events)

PublishBoth(first, second) ==
  \E queue \in Publications(events, first) :
    /\ events' \in Publications(queue, second)
    /\ dropped' = (dropped \/ queue = events \/ events' = queue)

\* mark_disconnected: dropping the Connection closes the socket and loses
\* whatever its reader had queued.
MarkDisconnected(ch) ==
  IF ch.connected
    THEN [ch EXCEPT !.connected = FALSE, !.link = "none", !.inbox = <<>>]
    ELSE ch

\* send_if_connected: the write may fail (the JVM has closed the socket, or has
\* not read for so long that WRITE_TIMEOUT is over), which drops the connection.
Sends(ch) ==
  IF ~ch.connected THEN {[ok |-> FALSE, ch |-> ch]}
  ELSE {[ok |-> TRUE, ch |-> ch], [ok |-> FALSE, ch |-> MarkDisconnected(ch)]}

\* poll_authentication and, for an authenticated socket, the four packets of
\* the handshake.  ok is FALSE when one of those four writes fails.
Connected(ch) ==
  [ch EXCEPT !.connected = TRUE, !.ever = TRUE,
             !.link = IF ch.link = "hungup" THEN "closed" ELSE "open",
             !.inbox = IF ch.link = "hungup" THEN <<Disconnected>> ELSE <<>>]

Polls(ch) ==
  IF ch.connected \/ ch.link \notin {"dialled", "hungup"}
    THEN {[ok |-> TRUE, ch |-> ch]}
    ELSE {[ok |-> TRUE, ch |-> ch], [ok |-> TRUE, ch |-> Connected(ch)]} \cup
         (IF ch.link = "hungup"
            THEN {[ok |-> FALSE, ch |-> ch],
                  [ok |-> TRUE, ch |-> [ch EXCEPT !.link = "none"]]}
            ELSE {})

-----------------------------------------------------------------------------
(* How an invocation ends.                                                 *)

\* What elapsed may be when an invocation with a child ends.
RunLengths(out) ==
  IF out.kind \notin {"Exited", "Restart"} THEN {FALSE}
  ELSE IF config.successful_time = 0 THEN {TRUE} ELSE BOOLEAN

\* Variants named ...Slip are wrong on purpose: each is what a definition would
\* be after a plausible mistake in the code, and breaks a property.
ChildNotKilledSlip == child

\* terminate_child kills and reaps the child; so does an exit that was seen.
terminate_child == "none"

\* run_once returns an outcome.  The child is gone (it exited, or
\* terminate_child killed and reaped it); JvmRun and all it owns is dropped.
\* A pause that stops the JVM announces ServicePaused at this point.
RunReturns(out) ==
  /\ pc' = "outcome"
  /\ \E long \in RunLengths(out) : outcome' = [out EXCEPT !.long = long]
  /\ child' = terminate_child
  /\ status' = 0
  /\ job' = FALSE
  /\ channel' = NoChannel
  /\ started' = FALSE
  /\ paused_in_place' = FALSE
  /\ IF out.kind = "Pause" THEN Publish("ServicePaused") ELSE UNCHANGED telemetry
  /\ UNCHANGED <<config, outer, result, history>>

\* An error propagates with `?` through run_once and run.  Dropping JvmRun
\* closes the job object, which kills the child that sits in it; dropping the
\* handle of any other child does nothing to it.
RunFails ==
  /\ pc' = "returned"
  /\ result' = Err
  /\ child' = IF child = "alive" /\ ~job THEN "alive" ELSE "none"
  /\ channel' = NoChannel
  /\ started' = FALSE
  /\ paused_in_place' = FALSE
  /\ status' = 0
  /\ UNCHANGED <<config, outer, outcome, telemetry, job, history>>

\* shutdown_and_drain up to the point where it waits for the child: no child
\* left, no way to ask it to stop, or STOP sent.
ShutdownAndDrain(ch, out) ==
  \/ child = "exited" /\ RunReturns(out)
  \/ /\ child = "alive"
     /\ \E s \in Sends(ch) :
          \/ ~s.ok /\ RunReturns(out)
          \/ /\ s.ok
             /\ pc' = "stopping"
             /\ outcome' = out
             /\ channel' = s.ch
             /\ UNCHANGED <<config, outer, result, telemetry, jvm, started,
                            paused_in_place, history>>

\* The event loop goes on with the channel in state ch.
Continue(ch) ==
  /\ channel' = ch
  /\ UNCHANGED <<config, pc, outer, outcome, result, jvm, history>>

\* request_thread_dump: CTRL_BREAK returns at once, jcmd blocks the thread.
RequestThreadDump ==
  /\ pc' = IF config.jcmd THEN "dumping" ELSE "running"
  /\ UNCHANGED <<config, outer, outcome, result, telemetry, jvm, channel, started,
                 paused_in_place, history>>

\* pause(), for a request that is not ignored.
PauseJvm ==
  IF config.stop_jvm THEN ShutdownAndDrain(channel, PauseOutcome)
  ELSE \E s \in Sends(channel) :
         /\ Continue(s.ch)
         /\ IF s.ok THEN paused_in_place' = TRUE /\ Publish("ServicePaused")
                    ELSE UNCHANGED <<paused_in_place, telemetry>>
         /\ UNCHANGED started

\* resume(), for a JVM paused in place.
ResumeJvm ==
  \E s \in Sends(channel) :
    /\ Continue(s.ch)
    /\ IF s.ok THEN paused_in_place' = FALSE /\ Publish("ServiceResumed")
               ELSE UNCHANGED <<paused_in_place, telemetry>>
    /\ UNCHANGED started

\* A packet the JVM acts on without an answer: GC, SERVICE_CONTROL, PING.
SendOnly ==
  \E s \in Sends(channel) :
    /\ Continue(s.ch)
    /\ UNCHANGED <<telemetry, started, paused_in_place>>

Ignore ==
  /\ Continue(channel)
  /\ UNCHANGED <<telemetry, started, paused_in_place>>

-----------------------------------------------------------------------------
(* Supervisor::run, from its start to the first launch.                    *)

\* run returns after one last log line, whose failure replaces the code.
Returned(code) ==
  /\ pc' = "returned"
  /\ result' \in {Ok(code)} \cup (IF IoErrors THEN {Err} ELSE {})

\* The thread leaves run's start-up code for the launch loop, after the
\* startup delay if there is one.
AfterStartupPause ==
  pc' = IF config.startup_delay > 0 THEN "startup_delay" ELSE "launch"

\* PID file, log and banner; pause_on_startup announces ServicePaused.
Start ==
  /\ pc = "starting"
  /\ IF config.pause_on_startup /\ config.pausable
       THEN pc' = "startup_paused" /\ Publish("ServicePaused")
       ELSE AfterStartupPause /\ UNCHANGED telemetry
  /\ UNCHANGED <<config, outer, outcome, result, controls, jvm, channel,
                 started, paused_in_place, history>>

\* A strict PID file of another wrapper, or a log that cannot be opened.
StartFails ==
  /\ pc = "starting"
  /\ RunFails
  /\ UNCHANGED controls

-----------------------------------------------------------------------------
(* The waits outside an invocation: each takes controls one by one.        *)

DelayControlDeafSlip ==
  /\ pc \in {"startup_delay", "restart_delay"}
  /\ controls # <<>>
  /\ controls' = Tail(controls)
  /\ UNCHANGED <<config, pc, outer, outcome, result, telemetry, jvm, channel,
                 started, paused_in_place, history>>

\* wait_for_restart receives a control: a stop request ends the run, every
\* other control is discarded.
DelayControl ==
  /\ pc \in {"startup_delay", "restart_delay"}
  /\ controls # <<>>
  /\ controls' = Tail(controls)
  /\ IF Head(controls) \in StopRequests
       THEN Returned(0)
       ELSE UNCHANGED <<pc, result>>
  /\ UNCHANGED <<config, outer, outcome, telemetry, jvm, channel, started,
                 paused_in_place, history>>

DelayElapsed ==
  /\ pc \in {"startup_delay", "restart_delay"}
  /\ pc' = "launch"
  /\ UNCHANGED <<config, outer, outcome, result, controls, telemetry, jvm, channel,
                 started, paused_in_place, history>>

\* wait_while_paused receives a control.
PausedControl ==
  /\ pc \in {"startup_paused", "paused"}
  /\ controls # <<>>
  /\ controls' = Tail(controls)
  /\ \/ /\ Head(controls) = "Resume"
        /\ resuming' = TRUE
        /\ IF pc = "paused" THEN pc' = "launch" /\ jvm_id' = NextJvmId
                            ELSE AfterStartupPause /\ UNCHANGED jvm_id
        /\ UNCHANGED result
     \/ /\ Head(controls) \in StopRequests
        /\ Returned(0)
        /\ UNCHANGED <<jvm_id, resuming>>
     \/ /\ Head(controls) \notin StopRequests \cup {"Resume"}
        /\ UNCHANGED <<pc, result, jvm_id, resuming>>
  /\ UNCHANGED <<config, failed_invocations, outcome, telemetry, jvm, channel,
                 started, paused_in_place, history>>

-----------------------------------------------------------------------------
(* run_once up to its event loop.                                          *)

CountLaunch ==
  /\ launches' = IF launches < MaxJvmId THEN launches + 1 ELSE launches
  /\ streak' = streak + 1

\* The child is spawned; assigning it to a job object may fail (a warning).
Launch ==
  /\ pc = "launch"
  /\ pc' = "running"
  /\ child' = "alive"
  /\ job' \in {FALSE, config.job_object}
  /\ channel' = NoChannel
  /\ started' = FALSE
  /\ paused_in_place' = FALSE
  /\ outcome' = NoOutcome
  /\ CountLaunch
  /\ UNCHANGED <<config, outer, result, controls, telemetry, status>>

\* spawn_child fails: the outcome is an automatic restart with code 1, after
\* no time at all.
SpawnFails ==
  /\ pc = "launch"
  /\ pc' = "outcome"
  /\ outcome' = [Restart(TRUE, 1) EXCEPT !.long = (config.successful_time = 0)]
  /\ CountLaunch
  /\ UNCHANGED <<config, outer, result, controls, telemetry, jvm, channel, started,
                 paused_in_place>>

\* Log roll, port, key, command line or java.pidfile error: `?` ends the run
\* (after terminate_child, when the child was already there).
LaunchFails ==
  /\ pc = "launch"
  /\ RunFails
  /\ UNCHANGED controls

-----------------------------------------------------------------------------
(* JvmRun::event_loop: one action per source of select!.                   *)

\* handle_control.
HandleControl ==
  /\ pc = "running"
  /\ controls # <<>>
  /\ controls' = Tail(controls)
  /\ LET control == Head(controls) IN
       \/ /\ control \in StopRequests
          /\ ShutdownAndDrain(channel, StopOutcome(0))
       \/ /\ control = "Pause"
          /\ IF config.pausable /\ ~paused_in_place THEN PauseJvm ELSE Ignore
       \/ /\ control = "Resume"
          /\ IF paused_in_place THEN ResumeJvm ELSE Ignore
       \/ /\ control \in {"ThreadDump", "ConsoleBreak"}
          /\ RequestThreadDump
       \/ /\ control = "User"
          /\ SendOnly
       \/ /\ control = "HeapDump"
          /\ Ignore

\* apply_filter_matches for one action of one matching output line.
HandleOutput(action) ==
  /\ pc = "running"
  /\ \/ /\ action = "DUMP"
        /\ RequestThreadDump
     \/ /\ action = "GC"
        /\ SendOnly
     \/ /\ action = "RESTART"
        /\ ShutdownAndDrain(channel, Restart(FALSE, 0))
     \/ /\ action = "SHUTDOWN"
        /\ ShutdownAndDrain(channel, StopOutcome(0))
     \/ /\ action = "PAUSE"
        /\ config.pausable /\ ~paused_in_place
        /\ PauseJvm
     \/ /\ action = "RESUME"
        /\ paused_in_place
        /\ ResumeJvm
  /\ UNCHANGED controls

\* handle_protocol for the next item of the connection's queue.  PING stands
\* for every packet that changes nothing but deadlines and the log.
HandleProtocol ==
  /\ pc = "running"
  /\ channel.connected
  /\ channel.inbox # <<>>
  /\ LET packet == Head(channel.inbox)
         rest == [channel EXCEPT !.inbox = Tail(@)]
     IN \/ /\ packet.code = "Disconnected"
           /\ Continue(MarkDisconnected(channel))
           /\ UNCHANGED <<telemetry, started, paused_in_place>>
        \/ /\ packet.code = "STARTED"
           /\ started' = TRUE
           /\ IF resuming THEN PublishBoth("JvmStarted", "ServiceResumed")
                          ELSE Publish("JvmStarted")
           /\ Continue(rest)
           /\ UNCHANGED paused_in_place
        \/ /\ packet.code = "RESTART"
           /\ ShutdownAndDrain(rest, Restart(FALSE, 0))
        \/ /\ packet.code = "STOP"
           /\ ShutdownAndDrain(rest, Exited(packet.arg))
        \/ /\ packet.code = "PING"
           /\ Continue(rest)
           /\ UNCHANGED <<telemetry, started, paused_in_place>>
  /\ UNCHANGED controls

TickBlindSlip == pc = "running" /\ Ignore /\ UNCHANGED controls

\* tick, in the order of the code: a dead child ends the invocation; a new
\* connection is authenticated; the startup deadline; the ping; the watchdog.
Tick ==
  /\ pc = "running"
  /\ \/ /\ child = "exited"
        /\ RunReturns(Exited(status))
     \/ /\ child = "alive"
        /\ \E polled \in Polls(channel) :
             \/ ~polled.ok /\ RunFails
             \/ /\ polled.ok
                /\ ~started /\ config.startup_timeout > 0
                /\ ShutdownAndDrain(polled.ch, Restart(TRUE, 1))
             \/ /\ polled.ok
                /\ \E pinged \in {[ok |-> TRUE, ch |-> polled.ch]}
                                   \cup Sends(polled.ch) :
                     \/ /\ config.ping_timeout > 0 /\ pinged.ch.ever
                        /\ ShutdownAndDrain(pinged.ch, Restart(TRUE, 1))
                     \/ /\ Continue(pinged.ch)
                        /\ UNCHANGED <<telemetry, started, paused_in_place>>
  /\ UNCHANGED controls

\* A blocking jcmd thread dump ends (done, failed or timed out).
DumpDone ==
  /\ pc = "dumping"
  /\ pc' = "running"
  /\ UNCHANGED <<config, outer, outcome, result, controls, telemetry, jvm, channel,
                 started, paused_in_place, history>>

ChildStoppedByStatusSlip ==
  /\ pc \in {"stopping", "dump_grace"}
  /\ child = "exited"
  /\ RunReturns(Exited(status))
  /\ UNCHANGED controls

\* shutdown_and_drain, waiting: the child exits within the timeout.
ChildStopped ==
  /\ pc \in {"stopping", "dump_grace"}
  /\ child = "exited"
  /\ RunReturns(outcome)
  /\ UNCHANGED controls

\* The shutdown timeout (and the dump's grace period) is over: thread dump
\* if configured, then terminate_child.
ShutdownTimeout ==
  /\ pc \in {"stopping", "dump_grace"}
  /\ child = "alive"
  /\ \/ RunReturns(outcome)
     \/ /\ pc = "stopping" /\ config.dump_on_failed_exit
        /\ pc' = "dump_grace"
        /\ UNCHANGED <<config, outer, outcome, result, telemetry, jvm, channel,
                       started, paused_in_place, history>>
  /\ UNCHANGED controls

\* A log write, try_wait or kill fails anywhere in an invocation.
IoError ==
  /\ IoErrors
  /\ pc \in InRun
  /\ RunFails
  /\ UNCHANGED controls

-----------------------------------------------------------------------------
(* Supervisor::run, with the outcome of an invocation in hand.             *)

\* The exit code of a JVM that ended selects an on_exit action.
ResolveExit ==
  /\ pc = "outcome"
  /\ outcome.kind = "Exited"
  /\ LET action == on_exit_action(outcome.code) IN
       outcome' =
         IF action = "SHUTDOWN" THEN StopOutcome(outcome.code)
         ELSE IF action = "PAUSE" /\ config.pausable THEN PauseOutcome
         ELSE [Restart(TRUE, outcome.code) EXCEPT !.long = outcome.long]
  /\ UNCHANGED <<config, pc, outer, result, controls, telemetry, jvm, channel,
                 started, paused_in_place, history>>

ApplyStop ==
  /\ pc = "outcome"
  /\ outcome.kind = "Stop"
  /\ Returned(outcome.code)
  /\ UNCHANGED <<config, outer, outcome, controls, telemetry, jvm, channel,
                 started, paused_in_place, history>>

ApplyPause ==
  /\ pc = "outcome"
  /\ outcome.kind = "Pause"
  /\ failed_invocations' = 0
  /\ streak' = 0
  /\ pc' = "paused"
  /\ UNCHANGED <<config, jvm_id, resuming, outcome, result, controls, telemetry,
                 jvm, channel, started, paused_in_place, launches>>

RestartsDisabledSlip ==
  outcome.automatic /\ (config.disable_restarts \/ config.disable_automatic)

RestartsDisabled ==
  config.disable_restarts \/ (outcome.automatic /\ config.disable_automatic)

FailedNow == IF outcome.long THEN 0 ELSE failed_invocations + 1

GivesUpLateSlip == FailedNow > MaxFailed

GivesUp == FailedNow >= MaxFailed

ApplyRestart ==
  /\ pc = "outcome"
  /\ outcome.kind = "Restart"
  /\ resuming' = FALSE
  /\ IF RestartsDisabled
       THEN /\ Returned(outcome.code)
            /\ UNCHANGED <<jvm_id, failed_invocations, streak>>
       ELSE /\ failed_invocations' = FailedNow
            /\ streak' = IF outcome.long THEN 0 ELSE streak
            /\ IF GivesUp
                 THEN Returned(outcome.code) /\ UNCHANGED jvm_id
                 ELSE /\ jvm_id' = NextJvmId
                      /\ pc' = IF config.restart_delay > 0 THEN "restart_delay"
                                                           ELSE "launch"
                      /\ UNCHANGED result
  /\ UNCHANGED <<config, outcome, controls, telemetry, jvm, channel, started,
                 paused_in_place, launches>>

-----------------------------------------------------------------------------
(* The environment: control senders and the JVM.                           *)

\* The SCM handler and the console handler post with try_send: a control is
\* dropped when the channel is full.
PostControl(control) ==
  /\ pc # "returned"
  /\ Len(controls) < ControlCapacity
  /\ controls' = Append(controls, control)
  /\ UNCHANGED <<config, pc, outer, outcome, result, telemetry, jvm, channel,
                 started, paused_in_place, history>>

\* The JVM closes its socket, or loses it by dying; the reader thread sees
\* the end of an authenticated stream.
HangUp(ch) ==
  CASE ch.link = "dialled" -> [ch EXCEPT !.link = "hungup"]
    [] ch.link = "open" -> [ch EXCEPT !.link = "closed",
                                      !.inbox = Append(@, Disconnected)]
    [] OTHER -> ch

JvmChannelStep(ch) ==
  /\ channel' = ch
  /\ UNCHANGED <<config, pc, outer, outcome, result, controls, telemetry, jvm,
                 started, paused_in_place, history>>

JvmDials ==
  /\ pc \in InRun
  /\ child = "alive"
  /\ channel.link = "none"
  /\ JvmChannelStep([channel EXCEPT !.link = "dialled"])

\* The reader thread blocks while the queue is full.
JvmSends(code, arg) ==
  /\ child = "alive"
  /\ channel.link = "open"
  /\ Len(channel.inbox) < PacketCapacity
  /\ JvmChannelStep([channel EXCEPT !.inbox = Append(@, P(code, arg))])

JvmHangsUp ==
  /\ child = "alive"
  /\ channel.link \in {"dialled", "open"}
  /\ JvmChannelStep(HangUp(channel))

JvmExits(code) ==
  /\ child = "alive"
  /\ child' = "exited"
  /\ status' = code
  /\ channel' = HangUp(channel)
  /\ UNCHANGED <<config, pc, outer, outcome, result, controls, telemetry, job,
                 started, paused_in_place, history>>

-----------------------------------------------------------------------------
Init ==
  /\ config \in Configurations
  /\ pc = "starting"
  /\ jvm_id = 1
  /\ failed_invocations = 0
  /\ resuming = FALSE
  /\ outcome = NoOutcome
  /\ result = Running
  /\ controls = <<>>
  /\ events = <<>>
  /\ dropped = FALSE
  /\ child = "none"
  /\ status = 0
  /\ job = FALSE
  /\ channel = NoChannel
  /\ started = FALSE
  /\ paused_in_place = FALSE
  /\ launches = 0
  /\ streak = 0

EventLoop ==
  \/ HandleControl
  \/ \E action \in FilterActions : HandleOutput(action)
  \/ HandleProtocol
  \/ Tick

SupervisorStep ==
  \/ Start \/ StartFails
  \/ DelayControl \/ DelayElapsed \/ PausedControl
  \/ Launch \/ SpawnFails \/ LaunchFails
  \/ EventLoop
  \/ DumpDone \/ ChildStopped \/ ShutdownTimeout \/ IoError
  \/ ResolveExit \/ ApplyStop \/ ApplyPause \/ ApplyRestart

JvmStep ==
  \/ JvmDials
  \/ \E code \in {"STARTED", "RESTART", "PING"} : JvmSends(code, 0)
  \/ \E arg \in ExitCodes : JvmSends("STOP", arg)
  \/ JvmHangsUp
  \/ \E code \in ExitCodes : JvmExits(code)

\* The run is over and nothing is left that could move.
Terminated == pc = "returned" /\ child # "alive" /\ UNCHANGED vars

Next ==
  \/ SupervisorStep
  \/ JvmStep
  \/ \E control \in Requests : PostControl(control)
  \/ Terminated

(***************************************************************************)
(* Every wait of the thread has a deadline or a timer except               *)
(* wait_while_paused, and the thread runs as long as the process does:     *)
(* weak fairness of its steps.  select! picks at random among the ready    *)
(* sources, so a queue that keeps having items is served however often the *)
(* ticker wins, and the ticker, which is ready after every dump that       *)
(* blocked the loop, however often a request for the next dump does:       *)
(* strong fairness of HandleControl and of Tick.  A delay begins with a    *)
(* receive that takes what is already queued: strong fairness of           *)
(* DelayControl.  Nothing obliges the JVM or the control senders to move.  *)
(***************************************************************************)
Fairness ==
  /\ WF_vars(Start)
  /\ SF_vars(DelayControl) /\ WF_vars(DelayElapsed) /\ WF_vars(PausedControl)
  /\ WF_vars(Launch \/ SpawnFails \/ LaunchFails)
  /\ SF_vars(Tick)
  /\ SF_vars(HandleControl)
  /\ WF_vars(DumpDone) /\ WF_vars(ChildStopped) /\ WF_vars(ShutdownTimeout)
  /\ WF_vars(ResolveExit) /\ WF_vars(ApplyStop) /\ WF_vars(ApplyPause)
  /\ WF_vars(ApplyRestart)

Spec == Init /\ [][Next]_vars /\ Fairness

-----------------------------------------------------------------------------
(* Properties.                                                             *)

\* Every variable of the thread keeps the type its Rust declaration gives it.
TypeOK ==
  /\ config \in Configurations
  /\ pc \in Locations
  /\ jvm_id \in 1..MaxJvmId
  /\ failed_invocations \in Nat
  /\ resuming \in BOOLEAN
  /\ outcome \in Outcome
  /\ result \in Result
  /\ controls \in Seq(Control)
  /\ events \in Seq(Event)
  /\ dropped \in BOOLEAN
  /\ child \in {"none", "alive", "exited"}
  /\ status \in ExitCodes
  /\ job \in BOOLEAN
  /\ channel \in Channel
  /\ started \in BOOLEAN
  /\ paused_in_place \in BOOLEAN
  /\ launches \in 0..MaxJvmId
  /\ streak \in Nat

\* A JVM is alive only while its own invocation runs: run_once never returns
\* an outcome over a living child, so no second JVM is started beside the
\* first and a wrapper that returned normally leaves none behind.  The one
\* exception is a run that ended in an error with the child outside any job
\* object.
OneJvm ==
  child # "none" =>
    \/ pc \in InRun
    \/ pc = "returned" /\ result = Err /\ ~job

\* Restart throttling: the wrapper never launches more than
\* max_failed_invocations JVMs (at least one) in a row without one of them
\* lasting long enough or a pause in between.
Throttled == streak <= MaxFailed

\* With wrapper.disable_restarts a JVM after the first is launched only to
\* resume a paused service.
DisabledRestarts ==
  config.disable_restarts /\ pc = "launch" => launches = 0 \/ resuming

\* wrapper.java.idfile and the `jvm <n>` log prefix number the invocations
\* one by one: the number of a JVM is the count of launches, its own included.
JvmIdCountsLaunches ==
  /\ pc \in InRun => jvm_id = launches
  /\ pc \in {"launch", "restart_delay"} =>
       jvm_id = IF launches < MaxJvmId THEN launches + 1 ELSE launches

\* Once the supervisor has decided to stop, no JVM is launched any more.
StopIsFinal ==
  [][outcome.kind = "Stop" => launches' = launches /\ outcome' = outcome]_vars

\* A stop request in the control channel ends the run, wherever the thread
\* is: in the event loop, in a delay, paused, or busy shutting a JVM down.
StopIsServed ==
  (\E i \in DOMAIN controls : controls[i] \in StopRequests)
     ~> (pc = "returned")

\* help.txt on the restart policy: "When the control channel is lost the
\* affected JVM exits and a new JVM is launched subject to the configured
\* restart policy."  The end of an invocation, for whatever reason, is an
\* outcome the policy decides about; with a working log (IoErrors = FALSE)
\* nothing that happens to a JVM or its channel ends the run around it.
LossIsLeftToPolicy == [][(pc \in InRun) => pc' # "returned"]_vars

\* A JVM that died is noticed and its invocation ends, also when filters or
\* operators request one blocking thread dump after the other, and when it dies
\* during a dump or a shutdown.
ExitIsNoticed == (pc \in InRun /\ child = "exited") ~> (pc \notin InRun)

=============================================================================
