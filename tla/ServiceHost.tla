----------------------------- MODULE ServiceHost -----------------------------
(***************************************************************************)
(* The Windows service worker (run_service_worker in src/src/service.rs)   *)
(* around the supervisor: the control handler the SCM calls on a thread of *)
(* its own, the status reporter thread, and the worker thread that runs    *)
(* the supervisor and reports Stopped at the end.                          *)
(*                                                                         *)
(* The three threads write one status, the state the SCM shows.  The       *)
(* handler writes a pending state before the supervisor has seen the       *)
(* control; the reporter writes a settled state when an event comes out of *)
(* the telemetry channel, which may be long after it was published.        *)
(***************************************************************************)
EXTENDS Supervisor

CONSTANT MaxRequests   \* controls the SCM delivers in one behaviour (a bound)

ASSUME MaxRequestsAssumption == MaxRequests \in Nat

\* The controls the handler knows; the console's come another way.
ASSUME HostRequestAssumption ==
  Requests \subseteq {"Stop", "Pause", "Resume", "ThreadDump", "HeapDump", "User"}

VARIABLES
  scm,        \* the service state last reported to the SCM
  handler,    \* the control the handler thread works on, and how far it is
  requested   \* number of controls delivered so far

hostVars == <<scm, handler, requested>>
allVars == <<vars, hostVars>>

ServiceState == {"StartPending", "Running", "PausePending", "Paused",
                 "ContinuePending", "StopPending", "Stopped"}
Idle == [step |-> "idle", control |-> "Stop"]
Handler == [step : {"idle", "entered", "reported"}, control : Control]

-----------------------------------------------------------------------------
(* The SCM: which controls it passes to the service.  It refuses a service *)
(* that is starting, stopping or stopped, and the controls that the last   *)
(* set_status did not list as accepted.                                    *)
Accepts(control) ==
  /\ scm \notin {"StartPending", "StopPending", "Stopped"}
  /\ control \in {"Pause", "Resume"} => config.pausable

Deliver(control) ==
  /\ handler = Idle
  /\ requested < MaxRequests
  /\ Accepts(control)
  /\ handler' = [step |-> "entered", control |-> control]
  /\ requested' = requested + 1
  /\ UNCHANGED <<vars, scm>>

\* The handler reports the pending state that belongs to the control.
PendingState(control) ==
  CASE control = "Stop" -> "StopPending"
    [] control = "Pause" -> "PausePending"
    [] control = "Resume" -> "ContinuePending"
    [] OTHER -> scm

HandlerReports ==
  /\ handler.step = "entered"
  /\ scm' = PendingState(handler.control)
  /\ handler' = [handler EXCEPT !.step = "reported"]
  /\ UNCHANGED <<vars, requested>>

HandlerPostsOnceSlip ==
  /\ handler.step = "reported"
  /\ handler' = Idle
  /\ IF pc = "returned" \/ controls # <<>>
       THEN UNCHANGED vars
       ELSE PostControl(handler.control)
  /\ UNCHANGED <<scm, requested>>

\* Then it posts the control with try_send and ignores a full channel.
HandlerPosts ==
  /\ handler.step = "reported"
  /\ handler' = Idle
  /\ IF pc = "returned" \/ Len(controls) >= ControlCapacity
       THEN UNCHANGED vars
       ELSE PostControl(handler.control)
  /\ UNCHANGED <<scm, requested>>

-----------------------------------------------------------------------------
(* The status reporter: one event at a time, oldest first.                 *)
ReportedStateDeafSlip(event) ==
  CASE event = "ServicePaused" -> "Paused"
    [] event = "ServiceResumed" -> "Running"
    [] event = "JvmStarted" -> scm

ReportedState(event) == IF event = "ServicePaused" THEN "Paused" ELSE "Running"

Report ==
  /\ events # <<>>
  /\ events' = Tail(events)
  /\ scm' = ReportedState(Head(events))
  /\ UNCHANGED <<config, pc, outer, outcome, result, controls, dropped, jvm,
                 channel, started, paused_in_place, history, handler,
                 requested>>

ReporterNotJoinedSlip == TRUE

\* The worker joins the reporter, which ends when the channel is empty and
\* its publisher gone, and only then reports Stopped.  The process ends, so
\* a handler that is still at work no longer matters.
ReporterDone == events = <<>>

Finish ==
  /\ pc = "returned"
  /\ scm # "Stopped"
  /\ ReporterDone
  /\ scm' = "Stopped"
  /\ handler' = Idle
  /\ UNCHANGED <<vars, requested>>

-----------------------------------------------------------------------------
HostInit ==
  /\ Init
  /\ scm = "StartPending"
  /\ handler = Idle
  /\ requested = 0

\* The service has ended, or waits paused for an operator who sends nothing.
AtRest ==
  /\ \/ pc = "returned" /\ scm = "Stopped" /\ child # "alive"
     \/ pc \in {"paused", "startup_paused"} /\ controls = <<>>
  /\ UNCHANGED allVars

HostNext ==
  \/ (SupervisorStep \/ JvmStep) /\ UNCHANGED hostVars
  \/ \E control \in Requests : Deliver(control)
  \/ HandlerReports \/ HandlerPosts
  \/ Report
  \/ Finish
  \/ AtRest

(* The handler and the reporter are threads of their own that never block. *)
HostSpec ==
  /\ HostInit
  /\ [][HostNext]_allVars
  /\ Fairness
  /\ WF_allVars(HandlerReports) /\ WF_allVars(HandlerPosts)
  /\ WF_allVars(Report) /\ WF_allVars(Finish)

-----------------------------------------------------------------------------
(* Properties.                                                             *)

\* The status is one of the SCM's states and the handler does one control at
\* a time.
HostTypeOK ==
  /\ scm \in ServiceState
  /\ handler \in Handler
  /\ requested \in 0..MaxRequests

\* Nothing is on its way: no control in the handler or in the channel, no
\* event waiting for the reporter, and no event was ever dropped.
Quiet == handler = Idle /\ controls = <<>> /\ events = <<>> /\ ~dropped

\* The worker keeps what ServiceStatus promises, with its three threads at work
\* and its events late: every control is shown as pending before it is posted,
\* nothing but the supervisor's progress shows a settled state, and Stopped is
\* the last state the SCM sees.
Status == INSTANCE ServiceStatus WITH
  status <- scm,
  taken <- IF handler.step = "entered" THEN handler.control ELSE "none",
  pausable <- config.pausable
ImplementsStatus == Status!Spec

\* While the application is up and nothing is on its way, the SCM shows
\* neither a service that is still starting, nor one that is stopping, nor a
\* paused one.
UpIsNotReportedDown ==
  Quiet /\ pc = "running" /\ started /\ ~paused_in_place =>
    scm \notin {"StartPending", "StopPending", "Paused", "Stopped"}

\* A stop the SCM passed to the handler ends with the state Stopped, as long
\* as the control channel never overflows (MaxRequests <= ControlCapacity).
StopReachesStopped ==
  (handler.step # "idle" /\ handler.control = "Stop") ~> (scm = "Stopped")

\* A service that waits paused, with nothing on its way, is shown as Paused
\* (query mask 64).
PausedIsReported ==
  Quiet /\ pc \in {"paused", "startup_paused"} => scm = "Paused"

=============================================================================
