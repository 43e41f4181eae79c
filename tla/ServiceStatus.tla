---------------------------- MODULE ServiceStatus ----------------------------
(***************************************************************************)
(* What a service worker promises to the service control manager (SCM) and *)
(* to the commands that watch it: which states it may show one after the   *)
(* other and when a control reaches it.  ServiceHost implements this       *)
(* specification, ServiceCommands is checked against any worker of it.     *)
(***************************************************************************)
VARIABLES
  status,    \* the state last reported to the SCM
  taken,     \* the control the handler is working on, or "none"
  pausable   \* wrapper.pausable

statusVars == <<status, taken, pausable>>

ServiceState == {"StartPending", "Running", "PausePending", "Paused",
                 "ContinuePending", "StopPending", "Stopped"}

Init ==
  /\ status = "StartPending"
  /\ taken = "none"
  /\ pausable \in BOOLEAN

\* The SCM hands over one control at a time.  It refuses a service that is
\* starting, stopping or stopped, and a control the service does not list.
Accepts(control) ==
  /\ status \notin {"StartPending", "StopPending", "Stopped"}
  /\ control \in {"Pause", "Resume"} => pausable

Take(control) ==
  /\ taken = "none"
  /\ Accepts(control)
  /\ taken' = control
  /\ UNCHANGED <<status, pausable>>

PendingState(control) ==
  CASE control = "Stop" -> "StopPending"
    [] control = "Pause" -> "PausePending"
    [] control = "Resume" -> "ContinuePending"
    [] OTHER -> status

\* The handler shows the pending state of the control before anyone acts on it.
\* A worker that is already through keeps Stopped.
Pend ==
  /\ taken # "none"
  /\ status # "Stopped"
  /\ status' = PendingState(taken)
  /\ taken' = "none"
  /\ UNCHANGED pausable

\* The reporter shows a settled state, at any time: it may be late.
Settle(state) ==
  /\ status # "Stopped"
  /\ state \in {"Running"} \cup (IF pausable THEN {"Paused"} ELSE {})
  /\ status' = state
  /\ UNCHANGED <<taken, pausable>>

\* The worker is through, on its own or because it was asked; the process ends
\* and with it the handler.
End ==
  /\ status # "Stopped"
  /\ status' = "Stopped"
  /\ taken' = "none"
  /\ UNCHANGED pausable

Next ==
  \/ \E control \in {"Stop", "Pause", "Resume", "ThreadDump", "HeapDump", "User"} :
       Take(control)
  \/ Pend
  \/ \E state \in {"Running", "Paused"} : Settle(state)
  \/ End

Spec == Init /\ [][Next]_statusVars

=============================================================================
