--------------------------- MODULE ServiceCommands ---------------------------
(***************************************************************************)
(* The commands an operator gives to an installed service                  *)
(* (execute_command and what it calls in src/src/service.rs, run in        *)
(* src/src/main.rs): each is a process of its own that opens the service,  *)
(* looks, asks, and then polls the state until it is the one it waits for  *)
(* or its time is up.  Between any two of these calls another operator or  *)
(* the service itself may act.                                             *)
(*                                                                         *)
(* The service is any worker that keeps ServiceStatus.  The calls of the   *)
(* SCM are modelled from how the code uses them.                           *)
(***************************************************************************)
EXTENDS CommandLine

CONSTANTS
  Operators,      \* who gives commands, each one after the other
  ArgumentLists,  \* the command lines they use
  StartTypes,     \* wrapper.ntservice.starttype, "unsupported" included
  MaxCommands     \* command lines per operator (a bound)

ASSUME ArgumentsAssumption ==
  \A arguments \in ArgumentLists : arguments \in Seq(Range(arguments))

\* The wrapper itself (-c, -s) is not a command to a service.
ASSUME ServiceCommandsOnly ==
  \A arguments \in ArgumentLists :
    LET cli == parse(arguments) IN cli.ok => cli.command \notin {"Console", "Service"}

\* The start types that start_type maps, and what it refuses.
ASSUME StartTypesAssumption ==
  StartTypes \subseteq {"AutoStart", "OnDemand", "Disabled", "unsupported"}

ASSUME CommandBound == MaxCommands \in Nat

VARIABLES
  status, taken, pausable,  \* see ServiceStatus
  record,     \* the SCM's record of the service
  start_type, \* the start type of the configuration
  starts,     \* number of successful calls of StartService
  op          \* operator -> the command it runs and how far that is

service == <<status, taken, pausable>>
vars == <<service, record, start_type, starts, op>>

Worker == INSTANCE ServiceStatus

NoRecord == [state |-> "absent"]
Present == record.state # "absent"
Marked == record.state = "marked"   \* for deletion

Resting == [step |-> "ready", cli |-> ParseError, result |-> "none", code |-> 0,
            seen |-> -1, count |-> 0]
Steps == {"ready", "install", "open", "opened", "control", "handled", "waiting",
          "delete", "query_config"}
\* A process holds its handle from open to its end.
Holds(o) == op[o].step \notin {"ready", "install", "open"}
Command(o) == op[o].cli.command

-----------------------------------------------------------------------------
(* Steps of a command.                                                     *)

Goto(o, step) == op' = [op EXCEPT ![o].step = step]
Exit(o, result, code) ==
  op' = [op EXCEPT ![o] = [Resting EXCEPT !.result = result, !.code = code,
                                          !.count = op[o].count]]
\* main exits with 1 for every error.
Fail(o) == Exit(o, "failed", 1)
Done(o) == Exit(o, "ok", 0)

NotifyCommands == {"ControlCode", "Dump", "HeapDump"}

\* run: parse the arguments, load the configuration (which may fail), choose.
\* notify and install look at the control code and the start type first.
Run(o) ==
  /\ op[o].step = "ready"
  /\ op[o].count < MaxCommands
  /\ \E arguments \in ArgumentLists, configuration_ok \in BOOLEAN :
       LET cli == parse(arguments)
           begun == [Resting EXCEPT !.cli = cli, !.count = op[o].count + 1]
           failed == [begun EXCEPT !.cli = ParseError, !.result = "failed", !.code = 1]
       IN op' = [op EXCEPT ![o] =
            IF ~cli.ok THEN failed
            ELSE IF cli.command \in {"Help", "Version"} THEN [begun EXCEPT !.cli = ParseError, !.result = "ok"]
            ELSE IF ~configuration_ok \/ cli.command = "BadControlCode" THEN failed
            ELSE IF cli.command \in {"Install", "InstallStart"}
              THEN [begun EXCEPT !.step = "install"]
            ELSE [begun EXCEPT !.step = "open"]]
  /\ UNCHANGED <<service, record, start_type, starts>>

\* install: CreateService refuses a name that is taken, also by a service that
\* is marked for deletion; the description is set afterwards and may fail.
Install(o, description_ok) ==
  /\ op[o].step = "install"
  /\ IF start_type = "unsupported" \/ Present
       THEN Fail(o) /\ UNCHANGED record
       ELSE /\ record' = [state |-> "installed", start_type |-> start_type,
                          image |-> installed_launch_arguments(op[o].cli),
                          installer |-> op[o].cli]
            /\ IF ~description_ok THEN Fail(o)
               ELSE IF Command(o) = "InstallStart" THEN Goto(o, "open")
               ELSE Done(o)
  /\ UNCHANGED <<service, start_type, starts>>

\* open_service may fail for a service that is there, too (its access rights).
\* query takes every failure for an absent service, and returns 0.
Open(o) ==
  /\ op[o].step = "open"
  /\ \/ Present /\ Goto(o, "opened")
     \/ IF Command(o) = "Query" THEN Done(o) ELSE Fail(o)
  /\ UNCHANGED <<service, record, start_type, starts>>

\* StartService, in start.
Start(o) ==
  /\ op[o].step = "opened"
  /\ Command(o) \in {"Start", "InstallStart"}
  /\ IF Marked \/ record.start_type = "Disabled" \/ status # "Stopped"
       THEN Fail(o) /\ UNCHANGED <<status, starts>>
       ELSE /\ status' = "StartPending"
            /\ starts' = starts + 1
            /\ Goto(o, "waiting")
  /\ UNCHANGED <<taken, pausable, record, start_type>>

\* What stop and remove do once they know that the service is stopped.
Stopped(o) ==
  op' = [op EXCEPT ![o] =
           IF Command(o) = "Remove"
             THEN [op[o] EXCEPT !.step = "delete", !.seen = starts]
             ELSE [Resting EXCEPT !.result = "ok", !.seen = starts,
                                  !.count = op[o].count]]

\* query_status, in stop and remove.
Look(o) ==
  /\ op[o].step = "opened"
  /\ Command(o) \in {"Stop", "Remove"}
  /\ IF status = "Stopped" THEN Stopped(o) ELSE Goto(o, "control")
  /\ UNCHANGED <<service, record, start_type, starts>>

ControlOf(command) ==
  CASE command \in {"Stop", "Remove"} -> "Stop"
    [] command \in {"Pause", "Resume"} -> command
    [] OTHER -> "User"

\* ControlService: refused by the SCM, or passed to the handler of the worker.
AskControl(o) ==
  /\ \/ op[o].step = "control"
     \/ op[o].step = "opened" /\ Command(o) \in NotifyCommands \cup {"Pause", "Resume"}
  /\ taken = "none"
  /\ IF Worker!Accepts(ControlOf(Command(o)))
       THEN Worker!Take(ControlOf(Command(o))) /\ Goto(o, "handled")
       ELSE Fail(o) /\ UNCHANGED service
  /\ UNCHANGED <<record, start_type, starts>>

\* It returns when the handler has; with a worker that ended meanwhile it fails
\* (CallFails), or the command goes on to wait.
ControlReturns(o) ==
  /\ op[o].step = "handled"
  /\ taken = "none"
  /\ IF Command(o) \in NotifyCommands THEN Done(o) ELSE Goto(o, "waiting")
  /\ UNCHANGED <<service, record, start_type, starts>>

Expected(command) ==
  CASE command \in {"Stop", "Remove"} -> "Stopped"
    [] command = "Pause" -> "Paused"
    [] OTHER -> "Running"

ReachedNotRunningSlip(current, expected) ==
  IF expected = "Stopped" THEN current # "Running" ELSE current = expected

Reached(current, expected) == current = expected

\* wait_for_state: a poll that finds the state, ...
Poll(o) ==
  /\ op[o].step = "waiting"
  /\ Reached(status, Expected(Command(o)))
  /\ IF Expected(Command(o)) = "Stopped" THEN Stopped(o) ELSE Done(o)
  /\ UNCHANGED <<service, record, start_type, starts>>

\* ... or one after the deadline that does not.
TimedOut(o) ==
  /\ op[o].step = "waiting"
  /\ ~Reached(status, Expected(Command(o)))
  /\ Fail(o)
  /\ UNCHANGED <<service, record, start_type, starts>>

\* DeleteService only marks the service.
Delete(o) ==
  /\ op[o].step = "delete"
  /\ IF Marked THEN Fail(o) /\ UNCHANGED record
     ELSE Done(o) /\ record' = [record EXCEPT !.state = "marked"]
  /\ UNCHANGED <<service, start_type, starts>>

StartTypeBit(type) ==
  CASE type = "AutoStart" -> 8 [] type = "OnDemand" -> 16 [] type = "Disabled" -> 32
    [] OTHER -> 0

\* query: the state first, the configuration of the service in a second call.
\* (The interactive bit is left out.)
QueryStatus(o) ==
  /\ op[o].step = "opened"
  /\ Command(o) = "Query"
  /\ op' = [op EXCEPT ![o].step = "query_config",
                      ![o].code = 1 + (IF status # "Stopped" THEN 2 ELSE 0)
                                    + (IF status = "Paused" THEN 64 ELSE 0)]
  /\ UNCHANGED <<service, record, start_type, starts>>

QueryConfig(o) ==
  /\ op[o].step = "query_config"
  /\ Exit(o, "ok", op[o].code + StartTypeBit(record.start_type))
  /\ UNCHANGED <<service, record, start_type, starts>>

\* Any call of the SCM may fail and changes nothing then: map_err(service_error)?.
\* A control may have reached the worker all the same.
CallFails(o) ==
  /\ op[o].step # "ready"
  /\ Fail(o)
  /\ UNCHANGED <<service, record, start_type, starts>>

-----------------------------------------------------------------------------
(* The SCM drops the record of a marked service that is stopped when the   *)
(* last handle is closed.                                                  *)
Vanish ==
  /\ Marked
  /\ status = "Stopped"
  /\ \A o \in Operators : ~Holds(o)
  /\ record' = NoRecord
  /\ UNCHANGED <<service, start_type, starts, op>>

WorkerStep ==
  /\ Worker!Pend \/ Worker!Settle("Running") \/ Worker!Settle("Paused") \/ Worker!End
  /\ UNCHANGED <<record, start_type, starts, op>>

\* A service that an earlier command has installed.
Installed(type) ==
  {[state |-> "installed", start_type |-> type, installer |-> parse(arguments),
    image |-> installed_launch_arguments(parse(arguments))] :
     arguments \in {a \in ArgumentLists :
       type # "unsupported" /\ parse(a).ok /\ parse(a).command = "Install"}}

Init ==
  /\ status = "Stopped" /\ taken = "none" /\ pausable \in BOOLEAN
  /\ start_type \in StartTypes
  /\ record \in {NoRecord} \cup Installed(start_type)
  /\ starts = 0
  /\ op = [o \in Operators |-> Resting]

Continue(o) ==
  \/ \E description_ok \in BOOLEAN : Install(o, description_ok)
  \/ Open(o) \/ Start(o) \/ Look(o) \/ AskControl(o) \/ ControlReturns(o)
  \/ Poll(o) \/ TimedOut(o) \/ Delete(o) \/ QueryStatus(o) \/ QueryConfig(o)
  \/ CallFails(o)

\* Every operator has given its last command.
AtRest ==
  /\ \A o \in Operators : op[o].step = "ready" /\ op[o].count = MaxCommands
  /\ UNCHANGED vars

Next ==
  \/ \E o \in Operators : Run(o) \/ Continue(o)
  \/ Vanish \/ WorkerStep \/ AtRest

Spec == Init /\ [][Next]_vars

-----------------------------------------------------------------------------
(* Properties.                                                             *)

\* A handle keeps the record it was opened on, and a service runs only while
\* the SCM has a record of it.
TypeOK ==
  /\ status \in Worker!ServiceState
  /\ taken \in {"none", "Stop", "Pause", "Resume", "User"}
  /\ \A o \in Operators : op[o].step \in Steps /\ op[o].count \in 0..MaxCommands
  /\ \A o \in Operators : Holds(o) => Present
  /\ status # "Stopped" => Present

\* What stop reports and remove relies on is true and stays true: unless another
\* start came in between, the service it has waited for is stopped, also when it
\* showed Running again after StopPending.
StoppedMeansStopped ==
  \A o \in Operators : op[o].seen = starts => status = "Stopped"

\* help.txt:38-39: the mask bits of a present service.  The exit code of query
\* tells an error (1) from every mask.
MaskIsNoError ==
  \A o \in Operators :
    op[o].step = "ready" /\ op[o].result = "ok" => op[o].code # 1

\* What stop and remove tell their operator is true, whichever calls fail, and
\* so is that a query has failed.  (The 0 of a query is left out: Open gives it
\* also for a service that is there and cannot be opened.)
StopAndMaskAnswers == StoppedMeansStopped /\ MaskIsNoError

\* The arguments stored for the SCM start the service the installer described:
\* the same configuration, overrides and application arguments, without the
\* password, and -s in place of the command.
ImageRunsTheService ==
  Present =>
    LET cli == parse(record.image) IN
      /\ cli.ok /\ cli.command = "Service"
      /\ cli.configuration = record.installer.configuration
      /\ cli.application_args = record.installer.application_args
      /\ cli.overrides = WithoutPassword(record.installer.overrides)

=============================================================================
