------------------------ MODULE ServiceCommandsProofs ------------------------
(***************************************************************************)
(* Proofs about the commands to an installed service, for any number of    *)
(* operators, any command lines, and any worker that keeps ServiceStatus:  *)
(* what a command tells its operator is true whoever acts between two of   *)
(* its calls, and what it installs starts the service it describes.        *)
(***************************************************************************)
EXTENDS ServiceCommands, TLAPS, SequenceTheorems, WellFoundedInduction

-----------------------------------------------------------------------------
(* The inductive invariant, in named parts.                                *)

Lines == {ParseError} \cup {parse(arguments) : arguments \in ArgumentLists}

Processes == [step : Steps, cli : Lines, result : {"none", "ok", "failed"}, code : Nat,
              seen : Int, count : 0..MaxCommands]

Types ==
  /\ op \in [Operators -> Processes]
  /\ starts \in Nat
  /\ status \in Worker!ServiceState
  /\ taken \in {"none", "Stop", "Pause", "Resume", "User"}
  /\ start_type \in StartTypes

\* Who has a handle, or runs, has a record of the SCM behind it.
Recorded ==
  /\ \A o \in Operators : Holds(o) => Present
  /\ status # "Stopped" => Present
  /\ Present => record.start_type \in {"AutoStart", "OnDemand", "Disabled"}

\* The stop that a command has seen is not later than the last start, and not
\* over before the next one.
Seen == \A o \in Operators : op[o].seen <= starts /\ (op[o].seen = starts => status = "Stopped")

\* The mask under way has its first bit, and is no error once it is complete.
Masks ==
  \A o \in Operators :
    /\ op[o].step = "query_config" => op[o].code >= 1
    /\ op[o].step = "ready" /\ op[o].result = "ok" => op[o].code # 1

CommandsInv == Types /\ Recorded /\ Seen /\ Masks

-----------------------------------------------------------------------------
(* A step of one command.                                                  *)

\* A process before its first command.
LEMMA RestingProcess ==
  /\ Resting \in Processes
  /\ Resting.step = "ready" /\ Resting.seen = -1 /\ Resting.code = 0 /\ Resting.result = "none"
  /\ Resting.count = 0
<1>1. ParseError \in Lines /\ "ready" \in Steps /\ 0 \in 0..MaxCommands /\ -1 \in Int
  BY CommandBound DEF Lines, Steps
<1> QED
  BY <1>1 DEF Resting, Processes

\* The process of one operator changes; the handle it has after the step is one
\* to a record that is there.
LEMMA OneProcess ==
  ASSUME CommandsInv, NEW o \in Operators, NEW r \in Processes,
         op' = [op EXCEPT ![o] = r],
         r.step \notin {"ready", "install", "open"} => Present',
         r.seen <= starts', r.seen = starts' => status' = "Stopped",
         r.step = "query_config" => r.code >= 1,
         r.step = "ready" /\ r.result = "ok" => r.code # 1,
         starts' \in Nat, starts <= starts',
         starts' = starts => (status = "Stopped" => status' = "Stopped"),
         status' \in Worker!ServiceState,
         taken' \in {"none", "Stop", "Pause", "Resume", "User"},
         start_type' = start_type,
         Present => Present',
         status' # "Stopped" => Present',
         Present' => record'.start_type \in {"AutoStart", "OnDemand", "Disabled"}
  PROVE  CommandsInv'
<1> USE DEF CommandsInv
<1>1. op \in [Operators -> Processes] /\ starts \in Nat
  BY DEF Types
<1> HIDE DEF Processes
<1>2. /\ op' \in [Operators -> Processes] /\ op'[o] = r
      /\ \A q \in Operators : q # o => op'[q] = op[q]
  BY <1>1
<1>3. Types'
  BY <1>2 DEF Types
<1>4. Recorded'
  <2>1. ASSUME NEW q \in Operators, Holds(q)' PROVE Present'
    <3>1. op'[q].step \notin {"ready", "install", "open"}
      BY <2>1 DEF Holds
    <3>2. CASE q = o
      BY <1>2, <3>1, <3>2
    <3>3. CASE q # o
      BY <1>2, <3>1, <3>3 DEF Recorded, Holds
    <3> QED
      BY <3>2, <3>3
  <2> QED
    BY <2>1 DEF Recorded
<1>5. Seen'
  <2>1. ASSUME NEW q \in Operators
        PROVE  op'[q].seen <= starts' /\ (op'[q].seen = starts' => status' = "Stopped")
    <3>1. CASE q = o
      BY <1>2, <3>1
    <3>2. CASE q # o
      <4>1. op'[q].seen = op[q].seen /\ op[q].seen \in Int /\ op[q].seen <= starts
            /\ (op[q].seen = starts => status = "Stopped")
        BY <1>1, <1>2, <3>2 DEF Seen, Processes
      <4>2. \A x \in Int : x <= starts /\ x = starts' => starts' = starts
        BY <1>1
      <4>3. \A x \in Int : x <= starts => x <= starts'
        BY <1>1
      <4> QED
        BY <4>1, <4>2, <4>3
    <3> QED
      BY <3>1, <3>2
  <2> QED
    BY <2>1 DEF Seen
<1>6. Masks'
  BY <1>2 DEF Masks
<1> QED
  BY <1>3, <1>4, <1>5, <1>6

\* What a step does to the service and its record, as far as the others rely on
\* it.
Around ==
  /\ starts' \in Nat /\ starts <= starts'
  /\ starts' = starts => (status = "Stopped" => status' = "Stopped")
  /\ status' \in Worker!ServiceState
  /\ taken' \in {"none", "Stop", "Pause", "Resume", "User"}
  /\ start_type' = start_type
  /\ Present => Present'
  /\ status' # "Stopped" => Present'
  /\ Present' => record'.start_type \in {"AutoStart", "OnDemand", "Disabled"}

\* A command goes on.
LEMMA GotoStep ==
  ASSUME CommandsInv, NEW o \in Operators, NEW s \in Steps \ {"ready", "query_config"},
         Goto(o, s), Around, s \notin {"install", "open"} => Present',
         op[o].seen = starts' => status' = "Stopped"
  PROVE  CommandsInv'
<1> DEFINE r == [op[o] EXCEPT !.step = s]
<1>1. op[o] \in Processes /\ op[o].seen <= starts /\ starts \in Nat
  BY DEF CommandsInv, Types, Seen
<1>2. r \in Processes /\ r.step = s /\ r.seen = op[o].seen /\ op[o].seen \in Int
  BY <1>1 DEF Processes
<1>3. op' = [op EXCEPT ![o] = r]
  BY DEF Goto
<1>4. r.seen <= starts'
  <2>1. \A x \in Int : x <= starts => x <= starts'
    BY <1>1 DEF Around
  <2> QED
    BY <1>1, <1>2, <2>1
<1> HIDE DEF r
<1> QED
  BY <1>2, <1>3, <1>4, OneProcess DEF Around

\* A command ends.
LEMMA ExitStep ==
  ASSUME CommandsInv, NEW o \in Operators, NEW x \in {"ok", "failed"}, NEW c \in Nat,
         x = "ok" => c # 1, Exit(o, x, c), Around
  PROVE  CommandsInv'
<1> DEFINE r == [Resting EXCEPT !.result = x, !.code = c, !.count = op[o].count]
<1>1. op[o] \in Processes
  BY DEF CommandsInv, Types
<1>2. op[o].count \in 0..MaxCommands
  BY <1>1 DEF Processes
<1>3. Resting \in Processes /\ Resting.step = "ready" /\ Resting.seen = -1
  BY RestingProcess
<1>4. op' = [op EXCEPT ![o] = r]
  BY DEF Exit
<1>5. r \in Processes /\ r.step = "ready" /\ r.seen = -1 /\ r.code = c /\ r.result = x
  BY <1>2, <1>3 DEF Processes
<1> HIDE DEF r
<1>6. r.seen <= starts' /\ r.seen # starts'
  BY <1>5 DEF Around
<1> QED
  BY <1>4, <1>5, <1>6, OneProcess DEF Around

\* A step that leaves the service and its record alone.
LEMMA Untouched ==
  ASSUME CommandsInv, UNCHANGED <<service, record, start_type, starts>>
  PROVE  Around /\ UNCHANGED <<status, taken, starts>> /\ (Present' <=> Present)
<1>1. UNCHANGED <<status, taken, record, start_type, starts>>
  BY DEF service
<1>2. /\ starts \in Nat /\ status \in Worker!ServiceState
      /\ taken \in {"none", "Stop", "Pause", "Resume", "User"}
      /\ status # "Stopped" => Present
      /\ Present => record.start_type \in {"AutoStart", "OnDemand", "Disabled"}
  BY DEF CommandsInv, Types, Recorded
<1>3. Present' <=> Present
  BY <1>1 DEF Present
<1>4. starts <= starts
  BY <1>2
<1> QED
  BY <1>1, <1>2, <1>3, <1>4 DEF Around, Present

\* stop and remove have seen the service stopped.
LEMMA StoppedStep ==
  ASSUME CommandsInv, NEW o \in Operators, Stopped(o), status = "Stopped", Holds(o),
         UNCHANGED <<service, record, start_type, starts>>
  PROVE  CommandsInv'
<1>1. Around /\ UNCHANGED <<status, taken, starts>> /\ (Present' <=> Present)
  BY Untouched
<1>2. op[o] \in Processes /\ starts \in Nat /\ Present
  BY DEF CommandsInv, Types, Recorded
<1>3. /\ op[o].count \in 0..MaxCommands /\ "delete" \in Steps
      /\ starts \in Int /\ starts <= starts
  BY <1>2 DEF Processes, Steps
<1>4. CASE Command(o) = "Remove"
  <2> DEFINE r == [op[o] EXCEPT !.step = "delete", !.seen = starts]
  <2>1. r \in Processes /\ r.step = "delete" /\ r.seen = starts
    BY <1>2, <1>3 DEF Processes
  <2>2. op' = [op EXCEPT ![o] = r]
    BY <1>4 DEF Stopped
  <2> HIDE DEF r
  <2> QED
    BY <1>1, <1>2, <1>3, <2>1, <2>2, OneProcess DEF Around
<1>5. CASE Command(o) # "Remove"
  <2> DEFINE r == [Resting EXCEPT !.result = "ok", !.seen = starts, !.count = op[o].count]
  <2>1. Resting \in Processes /\ Resting.step = "ready" /\ Resting.code = 0
    BY RestingProcess
  <2>2. op' = [op EXCEPT ![o] = r]
    BY <1>5 DEF Stopped
  <2>3. r \in Processes /\ r.step = "ready" /\ r.seen = starts /\ r.code = 0
    BY <1>3, <2>1 DEF Processes
  <2> HIDE DEF r
  <2>4. r.code # 1 /\ r.step \in {"ready"} /\ r.seen <= starts' /\ status' = "Stopped"
    BY <1>1, <1>3, <2>3
  <2> QED
    BY <1>1, <2>2, <2>3, <2>4, OneProcess DEF Around
<1> QED
  BY <1>4, <1>5

-----------------------------------------------------------------------------
(* The actions.                                                            *)

\* A command line is parsed and a command begins, fails or is done at once.
LEMMA RunStep ==
  ASSUME CommandsInv, NEW o \in Operators, Run(o)
  PROVE  CommandsInv'
<1>1. Around /\ UNCHANGED <<status, taken, starts>> /\ op[o].count < MaxCommands
  BY Untouched DEF Run
<1>2. PICK arguments \in ArgumentLists, configuration_ok \in BOOLEAN :
        LET cli == parse(arguments)
            begun == [Resting EXCEPT !.cli = cli, !.count = op[o].count + 1]
            failed == [begun EXCEPT !.cli = ParseError, !.result = "failed", !.code = 1]
        IN op' = [op EXCEPT ![o] =
             IF ~cli.ok THEN failed
             ELSE IF cli.command \in {"Help", "Version"} THEN [begun EXCEPT !.cli = ParseError, !.result = "ok"]
             ELSE IF ~configuration_ok \/ cli.command = "BadControlCode" THEN failed
             ELSE IF cli.command \in {"Install", "InstallStart"}
               THEN [begun EXCEPT !.step = "install"]
             ELSE [begun EXCEPT !.step = "open"]]
  BY DEF Run
<1> DEFINE cli == parse(arguments)
           begun == [Resting EXCEPT !.cli = cli, !.count = op[o].count + 1]
           failed == [begun EXCEPT !.cli = ParseError, !.result = "failed", !.code = 1]
           done == [begun EXCEPT !.cli = ParseError, !.result = "ok"]
           installs == [begun EXCEPT !.step = "install"]
           opens == [begun EXCEPT !.step = "open"]
<1>3. \E r \in {failed, done, installs, opens} : op' = [op EXCEPT ![o] = r]
  BY <1>2
<1>4. cli \in Lines /\ ParseError \in Lines /\ {"install", "open"} \subseteq Steps
  BY DEF Lines, Steps
<1> HIDE DEF cli
<1>5. op[o].count + 1 \in 0..MaxCommands
  <2>1. op[o].count \in 0..MaxCommands
    BY DEF CommandsInv, Types, Processes
  <2> QED
    BY <1>1, <2>1, CommandBound
<1>6. begun \in Processes /\ begun.step = "ready" /\ begun.seen = -1 /\ begun.code = 0
  BY <1>4, <1>5, RestingProcess DEF Processes
<1> HIDE DEF begun
<1>7. /\ failed \in Processes /\ failed.step = "ready" /\ failed.seen = -1 /\ failed.result = "failed"
      /\ done \in Processes /\ done.step = "ready" /\ done.seen = -1 /\ done.code = 0
  BY <1>4, <1>6 DEF Processes
<1>8. /\ installs \in Processes /\ installs.step = "install" /\ installs.seen = -1
      /\ opens \in Processes /\ opens.step = "open" /\ opens.seen = -1
  BY <1>4, <1>6 DEF Processes
<1> HIDE DEF failed, done, installs, opens
<1>9. PICK r \in Processes :
        /\ op' = [op EXCEPT ![o] = r]
        /\ r.step \in {"ready", "install", "open"} /\ r.seen = -1
        /\ r.result = "failed" \/ r.step # "ready" \/ r.code = 0
  BY <1>3, <1>7, <1>8
<1>10. starts' \in Nat /\ -1 <= starts' /\ -1 # starts' /\ 0 # 1
  BY <1>1 DEF Around
<1>11. /\ r.seen <= starts' /\ r.seen # starts' /\ r.step # "query_config"
       /\ (r.step = "ready" /\ r.result = "ok" => r.code # 1)
  BY <1>9, <1>10
<1> QED
  BY <1>1, <1>9, <1>11, OneProcess DEF Around

\* The service is installed: nobody has a handle of it, and it is stopped.
LEMMA InstallStep ==
  ASSUME CommandsInv, NEW o \in Operators, NEW description_ok \in BOOLEAN,
         Install(o, description_ok)
  PROVE  CommandsInv'
<1>1. UNCHANGED <<service, start_type, starts>>
  BY DEF Install
<1>2. CASE start_type = "unsupported" \/ Present
  <2>1. Fail(o) /\ record' = record
    BY <1>2 DEF Install
  <2>2. Around
    BY <1>1, <2>1, Untouched
  <2> QED
    BY <2>1, <2>2, ExitStep DEF Fail
<1>3. CASE ~(start_type = "unsupported" \/ Present)
  <2>1. /\ record' = [state |-> "installed", start_type |-> start_type,
                      image |-> installed_launch_arguments(op[o].cli),
                      installer |-> op[o].cli]
        /\ Fail(o) \/ Goto(o, "open") \/ Done(o)
    BY <1>3 DEF Install
  <2>2. start_type \in {"AutoStart", "OnDemand", "Disabled"}
    BY <1>3, StartTypesAssumption DEF CommandsInv, Types
  <2>3. record'.state = "installed" /\ record'.start_type = start_type
    BY <2>1
  <2>4. Present' /\ record'.start_type \in {"AutoStart", "OnDemand", "Disabled"}
    BY <2>2, <2>3 DEF Present
  <2>5. Around /\ starts' = starts /\ status' = status
    <3>1. /\ starts \in Nat /\ status \in Worker!ServiceState /\ starts <= starts
          /\ taken \in {"none", "Stop", "Pause", "Resume", "User"}
      BY DEF CommandsInv, Types
    <3> QED
      BY <1>1, <2>4, <3>1 DEF Around, service
  <2>6. op[o].seen = starts => status = "Stopped"
    BY DEF CommandsInv, Seen
  <2>7. "open" \in Steps
    BY DEF Steps
  <2> QED
    BY <2>1, <2>5, <2>6, <2>7, ExitStep, GotoStep DEF Fail, Done
<1> QED
  BY <1>2, <1>3

\* A start: whatever stop was seen before, it was before this start.
LEMMA StartStep ==
  ASSUME CommandsInv, NEW o \in Operators, Start(o)
  PROVE  CommandsInv'
<1>1. op[o].step = "opened" /\ UNCHANGED <<taken, pausable, record, start_type>>
  BY DEF Start
<1>2. CASE Marked \/ record.start_type = "Disabled" \/ status # "Stopped"
  <2>1. Fail(o) /\ UNCHANGED <<status, starts>>
    BY <1>2 DEF Start
  <2>2. Around
    BY <1>1, <2>1, Untouched DEF service
  <2> QED
    BY <2>1, <2>2, ExitStep DEF Fail
<1>3. CASE ~(Marked \/ record.start_type = "Disabled" \/ status # "Stopped")
  <2>1. status' = "StartPending" /\ starts' = starts + 1 /\ Goto(o, "waiting")
    BY <1>3 DEF Start
  <2>2. Holds(o)
    BY <1>1 DEF Holds
  <2>3. /\ Present /\ record.start_type \in {"AutoStart", "OnDemand", "Disabled"}
        /\ starts \in Nat /\ taken \in {"none", "Stop", "Pause", "Resume", "User"}
        /\ op[o].seen <= starts /\ op[o].seen \in Int
    BY <2>2 DEF CommandsInv, Types, Recorded, Seen, Processes
  <2>4. Present'
    BY <1>1, <2>3 DEF Present
  <2>5. starts + 1 \in Nat /\ starts <= starts + 1 /\ starts + 1 # starts /\ op[o].seen # starts + 1
    BY <2>3
  <2>6. Around
    BY <1>1, <2>1, <2>3, <2>4, <2>5 DEF Around, Worker!ServiceState
  <2>7. "waiting" \in Steps
    BY DEF Steps
  <2> QED
    BY <2>1, <2>4, <2>5, <2>6, <2>7, GotoStep
<1> QED
  BY <1>2, <1>3

\* A command that only looks goes on, or ends.
LEMMA LookingStep ==
  ASSUME CommandsInv, NEW o \in Operators, UNCHANGED <<service, record, start_type, starts>>,
         Present,
         \/ \E s \in Steps \ {"ready", "query_config"} : Goto(o, s)
         \/ Done(o) \/ Fail(o)
  PROVE  CommandsInv'
<1>1. Around /\ UNCHANGED <<status, taken, starts>> /\ (Present' <=> Present)
  BY Untouched
<1>2. op[o].seen = starts => status = "Stopped"
  BY DEF CommandsInv, Seen
<1> QED
  BY <1>1, <1>2, GotoStep, ExitStep DEF Done, Fail

\* open_service, for a service that is there or not, and a call that fails.
LEMMA OpenStep ==
  ASSUME CommandsInv, NEW o \in Operators, Open(o) \/ CallFails(o)
  PROVE  CommandsInv'
<1>1. UNCHANGED <<service, record, start_type, starts>>
  BY DEF Open, CallFails
<1>2. CASE Present /\ Goto(o, "opened")
  <2>1. "opened" \in Steps
    BY DEF Steps
  <2> QED
    BY <1>1, <1>2, <2>1, LookingStep
<1>3. CASE Done(o) \/ Fail(o)
  BY <1>1, <1>3, Untouched, ExitStep DEF Done, Fail
<1> QED
  BY <1>2, <1>3 DEF Open, CallFails

\* The first look of stop and remove, and the polls of wait_for_state.
LEMMA WaitingStep ==
  ASSUME CommandsInv, NEW o \in Operators, Look(o) \/ Poll(o) \/ TimedOut(o)
  PROVE  CommandsInv'
<1>1. UNCHANGED <<service, record, start_type, starts>> /\ op[o].step \in {"opened", "waiting"}
  BY DEF Look, Poll, TimedOut
<1>2. Holds(o) /\ Present
  BY <1>1 DEF Holds, CommandsInv, Recorded
<1>3. CASE Look(o)
  <2>1. "control" \in Steps
    BY DEF Steps
  <2>2. (status = "Stopped" /\ Stopped(o)) \/ Goto(o, "control")
    BY <1>3 DEF Look
  <2> QED
    BY <1>1, <1>2, <2>1, <2>2, StoppedStep, LookingStep
<1>4. CASE Poll(o)
  <2>1. (status = "Stopped" /\ Stopped(o)) \/ Done(o)
    BY <1>4 DEF Poll, Reached
  <2> QED
    BY <1>1, <1>2, <2>1, StoppedStep, LookingStep
<1>5. CASE TimedOut(o)
  BY <1>1, <1>2, <1>5, LookingStep DEF TimedOut
<1> QED
  BY <1>3, <1>4, <1>5

\* A control is refused, or handed to the worker, and returns.
LEMMA ControlStep ==
  ASSUME CommandsInv, NEW o \in Operators, AskControl(o) \/ ControlReturns(o)
  PROVE  CommandsInv'
<1>1. UNCHANGED <<record, start_type, starts>> /\ op[o].step \in {"opened", "control", "handled"}
  BY DEF AskControl, ControlReturns
<1>2. Holds(o) /\ Present
  BY <1>1 DEF Holds, CommandsInv, Recorded
<1>3. CASE AskControl(o)
  <2>1. CASE Worker!Accepts(ControlOf(Command(o)))
    <3>1. Worker!Take(ControlOf(Command(o))) /\ Goto(o, "handled") /\ "handled" \in Steps
      BY <1>3, <2>1 DEF AskControl, Steps
    <3>2. ControlOf(Command(o)) \in {"Stop", "Pause", "Resume", "User"}
      BY DEF ControlOf
    <3>3. taken' = ControlOf(Command(o)) /\ status' = status
      BY <3>1 DEF Worker!Take
    <3>4. /\ starts \in Nat /\ status \in Worker!ServiceState /\ starts <= starts
          /\ record.start_type \in {"AutoStart", "OnDemand", "Disabled"}
          /\ (op[o].seen = starts => status = "Stopped")
      BY <1>2 DEF CommandsInv, Types, Recorded, Seen
    <3>5. Present'
      BY <1>1, <1>2 DEF Present
    <3>6. Around
      BY <1>1, <3>2, <3>3, <3>4, <3>5 DEF Around
    <3> QED
      BY <1>1, <3>1, <3>3, <3>4, <3>5, <3>6, GotoStep
  <2>2. CASE ~Worker!Accepts(ControlOf(Command(o)))
    BY <1>1, <1>2, <1>3, <2>2, LookingStep DEF AskControl
  <2> QED
    BY <2>1, <2>2
<1>4. CASE ControlReturns(o)
  <2>1. "waiting" \in Steps
    BY DEF Steps
  <2>2. /\ UNCHANGED service
        /\ Done(o) \/ Goto(o, "waiting")
    BY <1>4 DEF ControlReturns
  <2> QED
    BY <1>1, <1>2, <2>1, <2>2, LookingStep
<1> QED
  BY <1>3, <1>4

\* DeleteService marks the record, which stays.
LEMMA DeleteStep ==
  ASSUME CommandsInv, NEW o \in Operators, Delete(o)
  PROVE  CommandsInv'
<1>1. UNCHANGED <<service, start_type, starts>> /\ op[o].step = "delete"
  BY DEF Delete
<1>2. Holds(o) /\ Present
  BY <1>1 DEF Holds, CommandsInv, Recorded
<1>3. CASE Marked
  BY <1>1, <1>2, <1>3, LookingStep DEF Delete
<1>4. CASE ~Marked
  <2>1. Done(o) /\ record' = [record EXCEPT !.state = "marked"]
    BY <1>4 DEF Delete
  <2>2. /\ starts \in Nat /\ status \in Worker!ServiceState /\ starts <= starts
        /\ taken \in {"none", "Stop", "Pause", "Resume", "User"}
        /\ record.start_type \in {"AutoStart", "OnDemand", "Disabled"}
    BY <1>2 DEF CommandsInv, Types, Recorded
  <2>3. record'.start_type = record.start_type
    BY <2>1
  <2>4. Present'
    BY <1>2, <2>1 DEF Present
  <2>5. Around
    BY <1>1, <2>2, <2>3, <2>4 DEF Around, service
  <2> QED
    BY <2>1, <2>5, ExitStep DEF Done
<1> QED
  BY <1>3, <1>4

\* query: the first bit of the mask is set, and a start type adds one of its own.
LEMMA QueryStep ==
  ASSUME CommandsInv, NEW o \in Operators, QueryStatus(o) \/ QueryConfig(o)
  PROVE  CommandsInv'
<1>1. /\ UNCHANGED <<service, record, start_type, starts>>
      /\ op[o].step \in {"opened", "query_config"}
  BY DEF QueryStatus, QueryConfig
<1>2. Holds(o) /\ Present
  BY <1>1 DEF Holds, CommandsInv, Recorded
<1>3. Around /\ UNCHANGED <<status, taken, starts>> /\ (Present' <=> Present)
  BY <1>1, Untouched
<1>4. op[o] \in Processes /\ op[o].seen <= starts /\ (op[o].seen = starts => status = "Stopped")
  BY DEF CommandsInv, Types, Seen
<1>5. CASE QueryStatus(o)
  <2> DEFINE c == 1 + (IF status # "Stopped" THEN 2 ELSE 0) + (IF status = "Paused" THEN 64 ELSE 0)
             r == [op[o] EXCEPT !.step = "query_config", !.code = c]
  <2>1. c \in Nat /\ c >= 1 /\ "query_config" \in Steps
    BY DEF Steps
  <2>2. op' = [op EXCEPT ![o] = r]
    BY <1>5 DEF QueryStatus
  <2> HIDE DEF c
  <2>3. r \in Processes /\ r.step = "query_config" /\ r.code = c /\ r.seen = op[o].seen
    BY <1>4, <2>1 DEF Processes
  <2> HIDE DEF r
  <2> QED
    BY <1>2, <1>3, <1>4, <2>1, <2>2, <2>3, OneProcess DEF Around
<1>6. CASE QueryConfig(o)
  <2>1. op[o].step = "query_config" /\ Exit(o, "ok", op[o].code + StartTypeBit(record.start_type))
    BY <1>6 DEF QueryConfig
  <2>2. op[o].code \in Nat /\ op[o].code >= 1
    BY <1>4, <2>1 DEF CommandsInv, Masks, Processes
  <2>3. StartTypeBit(record.start_type) \in {8, 16, 32}
    BY <1>2 DEF CommandsInv, Recorded, StartTypeBit
  <2>4. \A x \in Nat, y \in {8, 16, 32} : x >= 1 => x + y \in Nat /\ x + y # 1
    OBVIOUS
  <2>5. PICK c \in Nat : c = op[o].code + StartTypeBit(record.start_type) /\ c # 1
    BY <2>2, <2>3, <2>4
  <2> QED
    BY <1>3, <2>1, <2>5, ExitStep
<1> QED
  BY <1>5, <1>6

\* The SCM drops the record, which nobody uses any more.
LEMMA VanishStep ==
  ASSUME CommandsInv, Vanish
  PROVE  CommandsInv'
<1>1. /\ status = "Stopped" /\ record' = NoRecord /\ \A o \in Operators : ~Holds(o)
      /\ UNCHANGED <<status, taken, pausable, start_type, starts, op>>
  BY DEF Vanish, service
<1>2. ~Present'
  BY <1>1 DEF Present, NoRecord
<1>3. Types' /\ Seen' /\ Masks'
  BY <1>1 DEF CommandsInv, Types, Seen, Masks
<1>4. Recorded'
  BY <1>1, <1>2 DEF Recorded, Holds
<1> QED
  BY <1>3, <1>4 DEF CommandsInv

\* The worker: Stopped is its last state.
LEMMA WorkerKeepsAnswers ==
  ASSUME CommandsInv, WorkerStep
  PROVE  CommandsInv'
<1>1. /\ UNCHANGED <<record, start_type, starts, op>>
      /\ Worker!Pend \/ Worker!Settle("Running") \/ Worker!Settle("Paused") \/ Worker!End
  BY DEF WorkerStep
<1>2. status # "Stopped" /\ Present
  BY <1>1 DEF Worker!Pend, Worker!Settle, Worker!End, CommandsInv, Recorded
<1>3. /\ status' \in Worker!ServiceState
      /\ taken' \in {"none", "Stop", "Pause", "Resume", "User"}
  BY <1>1 DEF Worker!Pend, Worker!Settle, Worker!End, Worker!PendingState, Worker!ServiceState,
              CommandsInv, Types
<1>4. Types'
  BY <1>1, <1>3 DEF CommandsInv, Types
<1>5. Recorded'
  <2>1. Present'
    BY <1>1, <1>2 DEF Present
  <2> QED
    BY <1>1, <2>1 DEF CommandsInv, Recorded, Present, Holds
<1>6. Seen' /\ Masks'
  <2>1. \A o \in Operators : op[o].seen # starts
    BY <1>2 DEF CommandsInv, Seen
  <2> QED
    BY <1>1, <2>1 DEF CommandsInv, Seen, Masks
<1> QED
  BY <1>4, <1>5, <1>6 DEF CommandsInv

-----------------------------------------------------------------------------
(* The theorems.                                                           *)

\* The service is stopped, installed by an earlier command or not at all.
LEMMA CommandsInit == Init => CommandsInv
<1> SUFFICES ASSUME Init PROVE CommandsInv
  OBVIOUS
<1>1. /\ status = "Stopped" /\ taken = "none" /\ start_type \in StartTypes /\ starts = 0
      /\ record \in {NoRecord} \cup Installed(start_type)
      /\ op = [o \in Operators |-> Resting]
  BY DEF Init
<1>2. Types /\ Seen /\ Masks
  <2>1. -1 <= 0 /\ -1 # 0
    OBVIOUS
  <2> QED
    BY <1>1, <2>1, RestingProcess DEF Types, Seen, Masks, Worker!ServiceState
<1>3. Recorded
  <2>1. \A o \in Operators : ~Holds(o)
    BY <1>1, RestingProcess DEF Holds
  <2>2. ASSUME Present PROVE record.start_type \in {"AutoStart", "OnDemand", "Disabled"}
    <3>1. record \in Installed(start_type)
      BY <1>1, <2>2 DEF Present, NoRecord
    <3>2. record.start_type = start_type /\ start_type # "unsupported"
      BY <3>1 DEF Installed
    <3> QED
      BY <1>1, <3>2, StartTypesAssumption
  <2> QED
    BY <1>1, <2>1, <2>2 DEF Recorded
<1> QED
  BY <1>2, <1>3 DEF CommandsInv

\* No step of a command, the SCM or the worker breaks it.
LEMMA CommandsStep == CommandsInv /\ [Next]_vars => CommandsInv'
<1> SUFFICES ASSUME CommandsInv, [Next]_vars PROVE CommandsInv'
  OBVIOUS
<1>1. ASSUME NEW o \in Operators, Run(o) PROVE CommandsInv'
  BY <1>1, RunStep
<1>2. ASSUME NEW o \in Operators, Continue(o) PROVE CommandsInv'
  BY <1>2, InstallStep, OpenStep, StartStep, WaitingStep, ControlStep, DeleteStep, QueryStep
     DEF Continue
<1>3. CASE Vanish
  BY <1>3, VanishStep
<1>4. CASE WorkerStep
  BY <1>4, WorkerKeepsAnswers
<1>5. CASE UNCHANGED vars
  BY <1>5 DEF CommandsInv, Types, Recorded, Seen, Masks, Present, Holds, vars, service
<1> QED
  BY <1>1, <1>2, <1>3, <1>4, <1>5 DEF Next, AtRest

\* The invariant holds in every reachable state.
LEMMA CommandsInvariant == Spec => []CommandsInv
  BY CommandsInit, CommandsStep, PTL DEF Spec

\* A handle keeps the record of the SCM it was opened on, and a service runs
\* only while there is one, however the commands of several operators and the
\* worker interleave.
THEOREM CommandTypeCorrect == Spec => []TypeOK
<1>1. ASSUME CommandsInv PROVE TypeOK
  BY <1>1 DEF CommandsInv, Types, Recorded, Processes, TypeOK
<1> QED
  BY <1>1, CommandsInvariant, PTL

\* What stop reports and remove relies on is true until the next start, and no
\* mask of query is the exit code of an error, whichever calls of the SCM fail.
THEOREM StopAndMaskTellTheTruth == Spec => []StopAndMaskAnswers
<1>1. ASSUME CommandsInv PROVE StopAndMaskAnswers
  BY <1>1 DEF CommandsInv, Seen, Masks, StopAndMaskAnswers, StoppedMeansStopped, MaskIsNoError
<1> QED
  BY <1>1, CommandsInvariant, PTL

-----------------------------------------------------------------------------
(* The elements that Pick keeps.                                           *)

\* Induction over the natural numbers, for a set of them.
LEMMA Induction ==
  ASSUME NEW A \in SUBSET Nat, 0 \in A, \A n \in A : n + 1 \in A
  PROVE  A = Nat
<1> SUFFICES ASSUME Nat \ A # {} PROVE FALSE
  OBVIOUS
<1> DEFINE R == {ss \in Nat \X Nat : ss[1] < ss[2]}
           B == Nat \ A
<1>1. IsWellFoundedOn(R, Nat)
  BY NatLessThanWellFounded, Zenon DEF OpToRel
<1>2. PICK x \in B : \A y \in B : ~(<<y, x>> \in R)
  <2> HIDE DEF R
  <2>1. B \subseteq Nat /\ B # {}
    OBVIOUS
  <2> HIDE DEF B
  <2> QED
    BY <1>1, <2>1, WFMin
<1>3. x \in Nat /\ x # 0 /\ x \notin A
  OBVIOUS
<1>4. x - 1 \in Nat /\ x - 1 < x /\ (x - 1) + 1 = x
  BY <1>3
<1>5. x - 1 \in A
  BY <1>2, <1>3, <1>4
<1> QED
  BY <1>3, <1>4, <1>5

\* The recursion of Pick, step by step.
Picks(f, s, P, n) ==
  /\ f[0] = <<>>
  /\ \A i \in 1..n : f[i] = IF i \in P THEN Append(f[i - 1], s[i]) ELSE f[i - 1]

LEMMA PickExists ==
  ASSUME NEW S, NEW T, NEW s \in Seq(S), NEW P, \A i \in 1..Len(s) : i \in P => s[i] \in T
  PROVE  \A n \in Nat : n <= Len(s) => \E f \in [0..n -> Seq(T)] : Picks(f, s, P, n)
<1> DEFINE A == {n \in Nat : n <= Len(s) => \E f \in [0..n -> Seq(T)] : Picks(f, s, P, n)}
<1>1. 0 \in A
  <2> DEFINE f == [i \in 0..0 |-> <<>>]
  <2>1. f \in [0..0 -> Seq(T)] /\ f[0] = <<>>
    BY EmptySeq
  <2>2. Picks(f, s, P, 0)
    BY <2>1 DEF Picks
  <2> QED
    BY <2>1, <2>2
<1>2. ASSUME NEW n \in A PROVE n + 1 \in A
  <2> SUFFICES ASSUME n + 1 <= Len(s)
               PROVE  \E f \in [0..(n + 1) -> Seq(T)] : Picks(f, s, P, n + 1)
    BY <1>2
  <2>0. n \in Nat /\ Len(s) \in Nat
    BY LenProperties
  <2>1. PICK f \in [0..n -> Seq(T)] : Picks(f, s, P, n)
    BY <2>0
  <2> DEFINE x == IF n + 1 \in P THEN Append(f[n], s[n + 1]) ELSE f[n]
             g == [i \in 0..(n + 1) |-> IF i = n + 1 THEN x ELSE f[i]]
  <2>2. n \in 0..n /\ n + 1 \in 1..Len(s)
    BY <2>0
  <2>3. x \in Seq(T)
    BY <2>1, <2>2, AppendProperties
  <2> HIDE DEF x
  <2>4. \A i \in 0..(n + 1) : i # n + 1 => i \in 0..n
    BY <2>0
  <2>5. g \in [0..(n + 1) -> Seq(T)]
    BY <2>3, <2>4
  <2>6. \A i \in 0..n : g[i] = f[i]
    BY <2>0
  <2>7. g[n + 1] = x
    BY <2>0
  <2>8. g[0] = <<>>
    BY <2>0, <2>1, <2>6 DEF Picks
  <2>9. ASSUME NEW i \in 1..(n + 1)
        PROVE  g[i] = IF i \in P THEN Append(g[i - 1], s[i]) ELSE g[i - 1]
    <3> HIDE DEF g
    <3>1. CASE i = n + 1
      <4>1. i - 1 = n /\ n \in 0..n
        BY <2>0, <3>1
      <4> QED
        BY <2>6, <2>7, <3>1, <4>1 DEF x
    <3>2. CASE i # n + 1
      <4>1. i \in 1..n /\ i \in 0..n /\ i - 1 \in 0..n
        BY <2>0, <3>2
      <4> QED
        BY <2>1, <2>6, <4>1 DEF Picks
    <3> QED
      BY <3>1, <3>2
  <2> HIDE DEF g
  <2>10. Picks(g, s, P, n + 1)
    BY <2>8, <2>9 DEF Picks
  <2> QED
    BY <2>5, <2>10
<1>3. A = Nat
  <2>1. A \in SUBSET Nat
    OBVIOUS
  <2> HIDE DEF A
  <2> QED
    BY <1>1, <1>2, <2>1, Induction
<1> QED
  BY <1>3

\* It has one solution.
LEMMA PicksUnique ==
  ASSUME NEW s, NEW P, NEW n \in Nat, NEW f, NEW g, Picks(f, s, P, n), Picks(g, s, P, n)
  PROVE  \A i \in 0..n : f[i] = g[i]
<1> DEFINE A == {i \in Nat : i <= n => f[i] = g[i]}
<1>1. 0 \in A
  BY DEF Picks
<1>2. ASSUME NEW i \in A PROVE i + 1 \in A
  <2>1. i \in Nat /\ (i + 1 <= n => i <= n /\ i + 1 \in 1..n /\ (i + 1) - 1 = i)
    OBVIOUS
  <2> QED
    BY <2>1 DEF Picks
<1>3. A \in SUBSET Nat
  OBVIOUS
<1> HIDE DEF A
<1>4. A = Nat
  BY <1>1, <1>2, <1>3, Induction
<1> QED
  BY <1>4 DEF A

\* Pick is what that recursion ends with.
LEMMA Picking ==
  ASSUME NEW S, NEW T, NEW s \in Seq(S), NEW P, \A i \in 1..Len(s) : i \in P => s[i] \in T
  PROVE  \E f \in [0..Len(s) -> Seq(T)] : Picks(f, s, P, Len(s)) /\ Pick(s, P) = f[Len(s)]
<1>1. Len(s) \in Nat /\ Len(s) <= Len(s)
  BY LenProperties
<1>2. PICK g \in [0..Len(s) -> Seq(T)] : Picks(g, s, P, Len(s))
  BY <1>1, PickExists
<1> DEFINE f[n \in 0..Len(s)] ==
             IF n = 0 THEN <<>>
             ELSE IF n \in P THEN Append(f[n - 1], s[n]) ELSE f[n - 1]
           h == [n \in 0..Len(s) |->
                   IF n = 0 THEN <<>>
                   ELSE IF n \in P THEN Append(g[n - 1], s[n]) ELSE g[n - 1]]
<1>3. g = h
  <2>1. \A n \in 0..Len(s) : n = 0 \/ n \in 1..Len(s)
    BY <1>1
  <2>2. \A n \in 0..Len(s) : g[n] = h[n]
    BY <1>2, <2>1 DEF Picks
  <2>3. h = [n \in 0..Len(s) |-> h[n]] /\ g = [n \in 0..Len(s) |-> g[n]]
    OBVIOUS
  <2> HIDE DEF h
  <2> QED
    BY <2>2, <2>3
<1>4. f = [n \in 0..Len(s) |->
             IF n = 0 THEN <<>>
             ELSE IF n \in P THEN Append(f[n - 1], s[n]) ELSE f[n - 1]]
  BY <1>3, Zenon
<1>5. Pick(s, P) = f[Len(s)]
  BY Zenon DEF Pick
<1> HIDE DEF f
<1>6. Picks(f, s, P, Len(s))
  <2>1. 0 \in 0..Len(s) /\ \A n \in 1..Len(s) : n \in 0..Len(s) /\ n # 0
    BY <1>1
  <2> QED
    BY <1>4, <2>1 DEF Picks
<1>7. f[Len(s)] = g[Len(s)]
  BY <1>1, <1>2, <1>6, PicksUnique
<1> QED
  BY <1>2, <1>5, <1>7

-----------------------------------------------------------------------------
(* What parse returns, and what it makes of the arguments it is stored as. *)

ServiceCommand == [kind |-> "command", text |-> "Service"]
Separator == [kind |-> "separator", text |-> "--"]

Given == UNION {Range(arguments) : arguments \in ArgumentLists}
Argument == Given \cup {DefaultConfiguration, ServiceCommand, Separator}
Plain == {a \in Argument : a.kind # "separator"}
Overrides == {a \in Argument : looks_like_override(a)}
Kept == {a \in Overrides : a.kind # "password"}

\* A sequence whose elements are in a set is a sequence over that set.
LEMMA SequenceOver ==
  ASSUME NEW S, NEW T, NEW s \in Seq(S), \A i \in 1..Len(s) : s[i] \in T
  PROVE  s \in Seq(T)
<1>1. Len(s) \in Int /\ 1 \in Int
  BY LenProperties
<1>2. SubSeq(s, 1, Len(s)) \in Seq(T)
  BY <1>1, SubSeqProperties
<1> QED
  BY <1>2, SubSeqFull

\* A set of positive numbers has a least one.
LEMMA LeastPosition ==
  ASSUME NEW A \in SUBSET Nat, A # {}
  PROVE  Min(A) \in A /\ \A y \in A : Min(A) <= y
<1> DEFINE R == {ss \in Nat \X Nat : ss[1] < ss[2]}
<1>1. IsWellFoundedOn(R, Nat)
  BY NatLessThanWellFounded, Zenon DEF OpToRel
<1>2. PICK x \in A : \A y \in A : ~(<<y, x>> \in R)
  <2> HIDE DEF R
  <2> QED
    BY <1>1, WFMin
<1>3. \A y \in A : x <= y
  <2>1. \A y \in A : y \in Nat /\ x \in Nat /\ ~(y < x)
    BY <1>2
  <2> QED
    BY <2>1
<1> QED
  BY <1>3 DEF Min

\* Where the first -- is.
LEMMA FirstSeparator ==
  ASSUME NEW a \in Seq(Argument)
  PROVE  /\ SeparatorAt(a) \in 1..(Len(a) + 1)
         /\ \A i \in 1..Len(a) : i < SeparatorAt(a) => a[i].kind # "separator"
<1> DEFINE A == {i \in DOMAIN a : a[i].kind = "separator"}
<1>1. Len(a) \in Nat /\ DOMAIN a = 1..Len(a)
  BY LenProperties
<1>2. A \in SUBSET Nat /\ A \subseteq 1..Len(a)
  BY <1>1
<1>3. SeparatorAt(a) = IF A = {} THEN Len(a) + 1 ELSE Min(A)
  BY DEF SeparatorAt
<1>4. \A i \in 1..Len(a) : i \notin A => a[i].kind # "separator"
  BY <1>1
<1> HIDE DEF A
<1>5. CASE A = {}
  BY <1>1, <1>3, <1>4, <1>5
<1>6. CASE A # {}
  <2>1. Min(A) \in A /\ \A y \in A : Min(A) <= y
    BY <1>2, <1>6, LeastPosition
  <2>2. Min(A) \in 1..Len(a)
    BY <1>2, <2>1
  <2>3. \A i \in 1..Len(a) : i < Min(A) => i \notin A
    BY <1>1, <2>1, <2>2
  <2> QED
    BY <1>1, <1>3, <1>4, <1>6, <2>2, <2>3
<1> QED
  BY <1>5, <1>6

\* The first -- after arguments that are none.
LEMMA SeparatorAfter ==
  ASSUME NEW w \in Seq(Plain), NEW t \in Seq(Argument),
         t = <<>> \/ (t # <<>> /\ t[1].kind = "separator")
  PROVE  SeparatorAt(w \o t) = Len(w) + 1
<1> DEFINE a == w \o t
           A == {i \in DOMAIN a : a[i].kind = "separator"}
<1>1. w \in Seq(Argument)
  BY SeqMonotonic DEF Plain
<1>2. /\ a \in Seq(Argument) /\ Len(a) = Len(w) + Len(t)
      /\ \A i \in 1..(Len(w) + Len(t)) : a[i] = IF i <= Len(w) THEN w[i] ELSE t[i - Len(w)]
  BY <1>1, ConcatProperties
<1>3. Len(a) \in Nat /\ DOMAIN a = 1..Len(a) /\ Len(w) \in Nat /\ Len(t) \in Nat
  BY <1>1, <1>2, LenProperties
<1>4. SeparatorAt(a) = IF A = {} THEN Len(a) + 1 ELSE Min(A)
  BY DEF SeparatorAt
<1> HIDE DEF a
<1>5. A \in SUBSET Nat /\ A \subseteq 1..Len(a)
  BY <1>3
<1>6. \A i \in A : i >= Len(w) + 1
  <2>1. ASSUME NEW i \in 1..Len(w) PROVE i \notin A
    <3>1. w[i] \in Plain
      BY <2>1, ElementOfSeq
    <3>2. a[i] = w[i]
      BY <1>2, <1>3
    <3> QED
      BY <3>1, <3>2 DEF Plain
  <2>2. \A i \in 1..Len(a) : i \notin 1..Len(w) => i >= Len(w) + 1
    BY <1>3
  <2> HIDE DEF A
  <2> QED
    BY <1>5, <2>1, <2>2
<1>7. CASE t = <<>>
  <2>1. Len(t) = 0
    BY <1>7, EmptySeq
  <2>2. A = {}
    <3> HIDE DEF A
    <3> QED
      BY <1>2, <1>3, <1>5, <1>6, <2>1
  <2> HIDE DEF A
  <2> QED
    BY <1>2, <1>3, <1>4, <2>1, <2>2 DEF a
<1>8. CASE t # <<>>
  <2>1. Len(t) \in Nat \ {0}
    BY <1>8, EmptySeq
  <2>2. Len(w) + 1 \in 1..Len(a) /\ ~(Len(w) + 1 <= Len(w)) /\ (Len(w) + 1) - Len(w) = 1
    BY <1>2, <1>3, <2>1
  <2>3. a[Len(w) + 1] = t[1]
    BY <1>2, <2>2
  <2>4. Len(w) + 1 \in A
    BY <1>3, <1>8, <2>2, <2>3
  <2> HIDE DEF A
  <2>5. Min(A) \in A /\ \A y \in A : Min(A) <= y
    BY <1>5, <2>4, LeastPosition
  <2>6. Min(A) \in Nat /\ Min(A) <= Len(w) + 1 /\ Min(A) >= Len(w) + 1
    BY <1>5, <1>6, <2>4, <2>5
  <2>7. Min(A) = Len(w) + 1
    BY <1>3, <2>6
  <2> QED
    BY <1>4, <2>4, <2>7 DEF a
<1> QED
  BY <1>7, <1>8

\* A command line that parse takes: the configuration is no override and no --,
\* and every override is one.
LEMMA WrapperResult ==
  ASSUME NEW w \in Seq(Plain), NEW app, ParseWrapper(w, app).ok
  PROVE  /\ ParseWrapper(w, app).configuration \in Plain \ Overrides
         /\ ParseWrapper(w, app).overrides \in Seq(Overrides)
         /\ ParseWrapper(w, app).application_args = app
<1> DEFINE explicit == w # <<>> /\ w[1].kind = "command"
           command == IF explicit THEN w[1].text ELSE "Console"
           rest == IF explicit THEN Tail(w) ELSE w
           parsed == IF NeedsConfiguration(command)
                       THEN ParseConfiguration(explicit, rest)
                       ELSE [configuration |-> DefaultConfiguration, overrides |-> rest]
           refused == \/ w # <<>> /\ w[1].kind \in {"bad_code", "dashed"}
                      \/ ~explicit /\ rest # <<>> /\ looks_like_override(Head(rest))
                      \/ \E i \in DOMAIN parsed.overrides : ~looks_like_override(parsed.overrides[i])
<1>1. ParseWrapper(w, app) =
        IF refused THEN ParseError
        ELSE [ok |-> TRUE, command |-> command, configuration |-> parsed.configuration,
              overrides |-> parsed.overrides, application_args |-> app]
  BY Zenon DEF ParseWrapper
<1>2. rest \in Seq(Plain)
  BY HeadTailProperties
<1>3. /\ parsed.configuration \in Plain \ Overrides
      /\ parsed.overrides \in Seq(Plain)
  <2>1. DefaultConfiguration \in Plain \ Overrides
    <3>1. DefaultConfiguration \in Argument
      BY DEF Argument
    <3>2. DefaultConfiguration.kind = "path"
      BY DEF DefaultConfiguration
    <3> QED
      BY <3>1, <3>2 DEF Plain, Overrides, looks_like_override
  <2>2. ASSUME rest # <<>>
        PROVE  Head(rest) \in Plain /\ Tail(rest) \in Seq(Plain)
    <3> HIDE DEF rest
    <3> QED
      BY <1>2, <2>2, HeadTailProperties
  <2>3. ASSUME NEW x \in Plain, ~looks_like_override(x) PROVE x \in Plain \ Overrides
    BY <2>3 DEF Overrides
  <2> HIDE DEF rest
  <2>4. \/ parsed = [configuration |-> DefaultConfiguration, overrides |-> rest]
        \/ /\ rest # <<>> /\ ~looks_like_override(Head(rest))
           /\ parsed = [configuration |-> Head(rest), overrides |-> Tail(rest)]
    BY DEF ParseConfiguration
  <2> HIDE DEF parsed
  <2>5. CASE parsed = [configuration |-> DefaultConfiguration, overrides |-> rest]
    <3>1. parsed.configuration = DefaultConfiguration /\ parsed.overrides = rest
      BY <2>5
    <3> QED
      BY <1>2, <2>1, <3>1
  <2>6. CASE /\ rest # <<>> /\ ~looks_like_override(Head(rest))
             /\ parsed = [configuration |-> Head(rest), overrides |-> Tail(rest)]
    <3>1. parsed.configuration = Head(rest) /\ parsed.overrides = Tail(rest)
      BY <2>6
    <3>2. Head(rest) \in Plain \ Overrides /\ Tail(rest) \in Seq(Plain)
      BY <2>2, <2>3, <2>6
    <3> QED
      BY <3>1, <3>2
  <2> QED
    BY <2>4, <2>5, <2>6
<1> HIDE DEF parsed, explicit, command, rest
<1>4. ~refused
  <2> HIDE DEF refused
  <2> QED
    BY <1>1 DEF ParseError
<1>5. parsed.overrides \in Seq(Overrides)
  <2>1. DOMAIN parsed.overrides = 1..Len(parsed.overrides)
    BY <1>3, LenProperties
  <2>2. ASSUME NEW i \in 1..Len(parsed.overrides) PROVE parsed.overrides[i] \in Overrides
    <3>1. parsed.overrides[i] \in Plain
      BY <1>3, <2>2, ElementOfSeq
    <3>2. looks_like_override(parsed.overrides[i])
      BY <1>4, <2>1, <2>2
    <3> QED
      BY <3>1, <3>2 DEF Overrides, Plain
  <2> QED
    BY <1>3, <2>2, SequenceOver
<1> HIDE DEF refused
<1> QED
  BY <1>1, <1>3, <1>4, <1>5

\* What parse returns for any arguments it takes.
LEMMA ParseResult ==
  ASSUME NEW a \in Seq(Argument), parse(a).ok
  PROVE  /\ parse(a).configuration \in Plain \ Overrides
         /\ parse(a).overrides \in Seq(Overrides)
         /\ parse(a).application_args \in Seq(Argument)
<1> DEFINE n == SeparatorAt(a)
           w == SubSeq(a, 1, n - 1)
           app == SubSeq(a, n + 1, Len(a))
<1>1. n \in 1..(Len(a) + 1) /\ \A i \in 1..Len(a) : i < n => a[i].kind # "separator"
  BY FirstSeparator
<1>2. parse(a) = ParseWrapper(w, app)
  BY DEF parse
<1> HIDE DEF n
<1>3. Len(a) \in Nat /\ n - 1 \in Int /\ n + 1 \in Int
  BY <1>1, LenProperties
<1>4. \A i \in 1..(n - 1) : a[i] \in Plain
  <2>1. \A i \in 1..(n - 1) : i \in 1..Len(a) /\ i < n
    BY <1>1, <1>3
  <2>2. \A i \in 1..Len(a) : a[i] \in Argument
    BY ElementOfSeq
  <2> QED
    BY <1>1, <2>1, <2>2 DEF Plain
<1>5. \A i \in (n + 1)..Len(a) : a[i] \in Argument
  <2>1. \A i \in (n + 1)..Len(a) : i \in 1..Len(a)
    BY <1>1, <1>3
  <2> QED
    BY <2>1, ElementOfSeq
<1>6. w \in Seq(Plain)
  BY <1>3, <1>4, SubSeqProperties
<1>7. app \in Seq(Argument)
  BY <1>3, <1>5, SubSeqProperties
<1> HIDE DEF w, app
<1> QED
  BY <1>2, <1>6, <1>7, WrapperResult

\* What WithoutPassword keeps are overrides.
LEMMA KeptOverrides ==
  ASSUME NEW s \in Seq(Overrides)
  PROVE  WithoutPassword(s) \in Seq(Kept)
<1> DEFINE P == {i \in DOMAIN s : s[i].kind # "password"}
<1>1. DOMAIN s = 1..Len(s) /\ Len(s) \in Nat
  BY LenProperties
<1>2. \A i \in 1..Len(s) : i \in P => s[i] \in Kept
  BY ElementOfSeq DEF Kept
<1>3. WithoutPassword(s) = Pick(s, P)
  BY DEF WithoutPassword
<1> HIDE DEF P
<1>4. \E f \in [0..Len(s) -> Seq(Kept)] : Pick(s, P) = f[Len(s)]
  BY <1>2, Picking
<1>5. Len(s) \in 0..Len(s)
  BY <1>1
<1> QED
  BY <1>3, <1>4, <1>5

\* What parse makes of -s, a configuration and overrides.
LEMMA ServiceWrapper ==
  ASSUME NEW c \in Plain \ Overrides, NEW k \in Seq(Kept), NEW app
  PROVE  ParseWrapper(<<ServiceCommand, c>> \o k, app) =
           [ok |-> TRUE, command |-> "Service", configuration |-> c, overrides |-> k,
            application_args |-> app]
<1> DEFINE w == <<ServiceCommand, c>> \o k
<1>1. ServiceCommand \in Argument /\ c \in Argument /\ k \in Seq(Argument)
  <2>1. ServiceCommand \in Argument
    BY DEF Argument
  <2>2. c \in Argument /\ Kept \subseteq Argument
    BY DEF Plain, Overrides, Kept
  <2> QED
    BY <2>1, <2>2, SeqMonotonic
<1>2. <<ServiceCommand, c>> \in Seq(Argument) /\ Len(<<ServiceCommand, c>>) = 2
  BY <1>1
<1>3. Len(k) \in Nat /\ DOMAIN k = 1..Len(k)
  BY LenProperties
<1>4. /\ w \in Seq(Argument) /\ Len(w) = 2 + Len(k)
      /\ \A i \in 1..(2 + Len(k)) : w[i] = IF i <= 2 THEN <<ServiceCommand, c>>[i] ELSE k[i - 2]
  BY <1>1, <1>2, ConcatProperties
<1> HIDE DEF w
<1>5. w[1] = ServiceCommand /\ w[2] = c /\ \A i \in 1..Len(k) : w[i + 2] = k[i]
  BY <1>3, <1>4
<1>6. w # <<>> /\ Len(w) # 0
  BY <1>3, <1>4, EmptySeq
<1> DEFINE r == Tail(w)
<1>7. /\ r \in Seq(Argument) /\ Len(r) = 1 + Len(k)
      /\ \A i \in 1..Len(r) : r[i] = w[i + 1]
  BY <1>3, <1>4, <1>6, HeadTailProperties
<1> HIDE DEF r
<1>8. r # <<>> /\ r[1] = c /\ Head(r) = c
  <2>1. r # <<>> /\ 1 \in 1..Len(r) /\ 1 + 1 = 2
    BY <1>3, <1>7, EmptySeq
  <2> QED
    BY <1>5, <1>7, <2>1
<1>9. Tail(r) = k
  <2>1. /\ Tail(r) \in Seq(Argument) /\ Len(Tail(r)) = Len(k)
        /\ \A i \in 1..Len(Tail(r)) : Tail(r)[i] = r[i + 1]
    BY <1>3, <1>7, <1>8, HeadTailProperties
  <2>2. \A i \in 1..Len(k) : i + 1 \in 1..Len(r) /\ (i + 1) + 1 = i + 2
    BY <1>3, <1>7
  <2>3. \A i \in 1..Len(k) : Tail(r)[i] = k[i]
    BY <1>5, <1>7, <2>1, <2>2
  <2> QED
    BY <1>1, <2>1, <2>3, SeqEqual
<1>10. ~looks_like_override(c)
  BY DEF Plain, Overrides
<1>11. \A i \in DOMAIN k : looks_like_override(k[i])
  BY <1>3, ElementOfSeq DEF Kept, Overrides
<1>12. NeedsConfiguration("Service")
  BY DEF NeedsConfiguration
<1>13. w[1].kind = "command" /\ w[1].text = "Service"
  BY <1>5 DEF ServiceCommand
<1>14. ParseConfiguration(TRUE, r) = [configuration |-> c, overrides |-> k]
  BY <1>8, <1>9, <1>10 DEF ParseConfiguration
<1> DEFINE explicit == w # <<>> /\ w[1].kind = "command"
           command == IF explicit THEN w[1].text ELSE "Console"
           rest == IF explicit THEN Tail(w) ELSE w
           parsed == IF NeedsConfiguration(command)
                       THEN ParseConfiguration(explicit, rest)
                       ELSE [configuration |-> DefaultConfiguration, overrides |-> rest]
           refused == \/ w # <<>> /\ w[1].kind \in {"bad_code", "dashed"}
                      \/ ~explicit /\ rest # <<>> /\ looks_like_override(Head(rest))
                      \/ \E i \in DOMAIN parsed.overrides : ~looks_like_override(parsed.overrides[i])
<1>15. ParseWrapper(w, app) =
        IF refused THEN ParseError
        ELSE [ok |-> TRUE, command |-> command, configuration |-> parsed.configuration,
              overrides |-> parsed.overrides, application_args |-> app]
  BY Zenon DEF ParseWrapper
<1>16. explicit = TRUE /\ command = "Service"
  BY <1>6, <1>13
<1>17. rest = r
  BY <1>16 DEF r
<1> HIDE DEF explicit, command, rest
<1>18. parsed = [configuration |-> c, overrides |-> k]
  BY <1>12, <1>14, <1>16, <1>17
<1> HIDE DEF parsed
<1>19. parsed.configuration = c /\ parsed.overrides = k
  BY <1>18
<1>20. ~refused
  BY <1>11, <1>13, <1>16, <1>19
<1> HIDE DEF refused
<1> QED
  BY <1>15, <1>16, <1>19, <1>20 DEF w

\* The arguments stored for the SCM, parsed again: the service the installer
\* described, without the password.
LEMMA Reparsed ==
  ASSUME NEW c \in Plain \ Overrides, NEW k \in Seq(Kept), NEW app \in Seq(Argument)
  PROVE  parse(<<ServiceCommand, c>> \o k
               \o IF app = <<>> THEN <<>> ELSE <<Separator>> \o app) =
           [ok |-> TRUE, command |-> "Service", configuration |-> c, overrides |-> k,
            application_args |-> app]
<1> DEFINE w == <<ServiceCommand, c>> \o k
           t == IF app = <<>> THEN <<>> ELSE <<Separator>> \o app
           a == w \o t
<1>1. ServiceCommand \in Plain /\ Separator \in Argument /\ Kept \subseteq Plain /\ Plain \subseteq Argument
  <2>1. ServiceCommand \in Argument /\ Separator \in Argument
    BY DEF Argument
  <2>2. ServiceCommand.kind # "separator"
    BY DEF ServiceCommand
  <2> QED
    BY <2>1, <2>2 DEF Plain, Kept, Overrides, looks_like_override
<1>2. <<ServiceCommand, c>> \in Seq(Plain) /\ k \in Seq(Plain)
  BY <1>1, SeqMonotonic
<1>3. w \in Seq(Plain) /\ w \in Seq(Argument)
  BY <1>1, <1>2, ConcatProperties, SeqMonotonic
<1>4. /\ <<Separator>> \in Seq(Argument) /\ Len(<<Separator>>) = 1 /\ <<Separator>>[1] = Separator
  BY <1>1
<1>5. /\ Len(<<Separator>> \o app) = 1 + Len(app)
      /\ <<Separator>> \o app \in Seq(Argument)
      /\ (<<Separator>> \o app)[1] = Separator
      /\ \A i \in 1..Len(app) : (<<Separator>> \o app)[i + 1] = app[i]
  <2>1. Len(app) \in Nat
    BY LenProperties
  <2>2. /\ <<Separator>> \o app \in Seq(Argument)
        /\ Len(<<Separator>> \o app) = 1 + Len(app)
        /\ \A i \in 1..(1 + Len(app)) : (<<Separator>> \o app)[i] =
             IF i <= 1 THEN <<Separator>>[i] ELSE app[i - 1]
    BY <1>4, ConcatProperties
  <2>3. 1 \in 1..(1 + Len(app)) /\ 1 <= 1
    BY <2>1
  <2>4. \A i \in 1..Len(app) : i + 1 \in 1..(1 + Len(app)) /\ ~(i + 1 <= 1) /\ (i + 1) - 1 = i
    BY <2>1
  <2> QED
    BY <1>4, <2>2, <2>3, <2>4
<1>6. t \in Seq(Argument) /\ (t = <<>> \/ (t # <<>> /\ t[1].kind = "separator"))
  <2>1. CASE app = <<>>
    <3>1. t = <<>>
      BY <2>1
    <3>2. <<>> \in Seq(Argument)
      BY EmptySeq
    <3> HIDE DEF t
    <3>3. t \in Seq(Argument)
      BY <3>1, <3>2, Zenon
    <3> QED
      BY <3>1, <3>3, Zenon
  <2>2. CASE app # <<>>
    <3>1. t = <<Separator>> \o app
      BY <2>2
    <3>2. Len(t) # 0
      BY <1>5, <3>1, LenProperties
    <3> QED
      BY <1>5, <3>1, <3>2, EmptySeq DEF Separator
  <2> QED
    BY <2>1, <2>2
<1>7. SeparatorAt(a) = Len(w) + 1
  <2> HIDE DEF w, t
  <2> QED
    BY <1>3, <1>6, SeparatorAfter
<1>8. /\ Len(a) = Len(w) + Len(t) /\ a \in Seq(Argument) /\ Len(w) \in Nat /\ Len(t) \in Nat
      /\ \A i \in 1..(Len(w) + Len(t)) : a[i] = IF i <= Len(w) THEN w[i] ELSE t[i - Len(w)]
  <2> HIDE DEF w, t
  <2> QED
    BY <1>3, <1>6, ConcatProperties, LenProperties
<1>9. SubSeq(a, 1, Len(w)) = w
  <2> HIDE DEF w, t, a
  <2>1. \A i \in 1..Len(w) : i \in 1..(Len(w) + Len(t)) /\ i <= Len(w) /\ 1 + i - 1 = i
    BY <1>8
  <2>2. \A i \in 1..Len(w) : a[i] = w[i] /\ w[i] \in Argument
    BY <1>3, <1>8, <2>1, ElementOfSeq
  <2>3. /\ SubSeq(a, 1, Len(w)) \in Seq(Argument)
        /\ Len(SubSeq(a, 1, Len(w))) = IF 1 <= Len(w) THEN Len(w) - 1 + 1 ELSE 0
        /\ \A i \in 1..(Len(w) - 1 + 1) : SubSeq(a, 1, Len(w))[i] = a[1 + i - 1]
    BY <1>8, <2>2, SubSeqProperties
  <2>4. Len(w) - 1 + 1 = Len(w) /\ Len(SubSeq(a, 1, Len(w))) = Len(w)
    BY <1>8, <2>3
  <2>5. \A i \in 1..Len(w) : SubSeq(a, 1, Len(w))[i] = w[i]
    BY <2>1, <2>2, <2>3, <2>4
  <2> QED
    BY <1>3, <2>3, <2>4, <2>5, SeqEqual
<1>10. SubSeq(a, Len(w) + 2, Len(a)) = app
  <2>1. CASE app = <<>>
    <3>1. Len(t) = 0
      BY <2>1, EmptySeq
    <3> HIDE DEF w, t, a
    <3>2. Len(w) + 2 \in Int /\ Len(a) \in Int /\ Len(a) < Len(w) + 2
      BY <1>8, <3>1
    <3> QED
      BY <2>1, <3>2, SubSeqEmpty
  <2>2. CASE app # <<>>
    <3>1. t = <<Separator>> \o app
      BY <2>2
    <3> HIDE DEF w, t, a
    <3>2. Len(app) \in Nat /\ Len(t) = 1 + Len(app) /\ \A i \in 1..Len(app) : t[i + 1] = app[i]
      BY <1>5, <3>1, LenProperties
    <3>3. \A i \in 1..Len(app) : /\ Len(w) + 2 + i - 1 \in 1..(Len(w) + Len(t))
                                 /\ ~(Len(w) + 2 + i - 1 <= Len(w))
                                 /\ Len(w) + 2 + i - 1 - Len(w) = i + 1
      BY <1>8, <3>2
    <3>4. \A i \in 1..Len(app) : a[Len(w) + 2 + i - 1] = app[i]
      <4> TAKE i \in 1..Len(app)
      <4> DEFINE j == Len(w) + 2 + i - 1
      <4>1. j \in 1..(Len(w) + Len(t)) /\ ~(j <= Len(w)) /\ j - Len(w) = i + 1
        BY <3>3
      <4> HIDE DEF j
      <4>2. a[j] = t[i + 1]
        BY <1>8, <4>1
      <4> QED
        BY <3>2, <4>2 DEF j
    <3>5. \A i \in (Len(w) + 2)..Len(a) : a[i] \in Argument
      <4>1. \A i \in (Len(w) + 2)..Len(a) : i \in 1..Len(a)
        BY <1>8
      <4> QED
        BY <1>8, <4>1, ElementOfSeq
    <3>6. Len(w) + 2 \in Int /\ Len(a) \in Int
      BY <1>8
    <3>7. /\ SubSeq(a, Len(w) + 2, Len(a)) \in Seq(Argument)
          /\ Len(SubSeq(a, Len(w) + 2, Len(a))) =
               IF Len(w) + 2 <= Len(a) THEN Len(a) - (Len(w) + 2) + 1 ELSE 0
          /\ \A i \in 1..(Len(a) - (Len(w) + 2) + 1) :
               SubSeq(a, Len(w) + 2, Len(a))[i] = a[Len(w) + 2 + i - 1]
      BY <3>5, <3>6, SubSeqProperties
    <3>8. Len(a) - (Len(w) + 2) + 1 = Len(app) /\ Len(SubSeq(a, Len(w) + 2, Len(a))) = Len(app)
      <4>1. Len(a) - (Len(w) + 2) + 1 = Len(app)
        BY <1>8, <3>2
      <4>2. ~(Len(w) + 2 <= Len(a)) => Len(app) = 0
        BY <1>8, <3>2
      <4> QED
        BY <3>7, <4>1, <4>2
    <3>9. \A i \in 1..Len(app) : SubSeq(a, Len(w) + 2, Len(a))[i] = app[i]
      BY <3>4, <3>7, <3>8
    <3> QED
      BY <3>7, <3>8, <3>9, SeqEqual
  <2> QED
    BY <2>1, <2>2
<1>11. (Len(w) + 1) - 1 = Len(w) /\ (Len(w) + 1) + 1 = Len(w) + 2
  BY <1>8
<1>12. parse(a) = ParseWrapper(w, app)
  <2> HIDE DEF w, t, a
  <2> QED
    BY <1>7, <1>9, <1>10, <1>11 DEF parse
<1>13. ParseWrapper(w, app) = [ok |-> TRUE, command |-> "Service", configuration |-> c,
                               overrides |-> k, application_args |-> app]
  BY ServiceWrapper
<1> HIDE DEF w, t
<1> QED
  BY <1>12, <1>13 DEF w, t

\* The command lines of the operators are sequences of arguments.
LEMMA GivenArguments ==
  ASSUME NEW arguments \in ArgumentLists
  PROVE  arguments \in Seq(Argument)
<1>1. arguments \in Seq(Range(arguments)) /\ Range(arguments) \subseteq Argument
  BY ArgumentsAssumption DEF Given, Argument
<1> QED
  BY <1>1, SeqMonotonic

\* A parsed command line, and the image it gives.
Launchable == {parse(arguments) : arguments \in {a \in ArgumentLists : parse(a).ok}}

\* The image of any command line that installs a service starts that service.
LEMMA ImageOfInstaller ==
  ASSUME NEW cli \in Launchable
  PROVE  parse(installed_launch_arguments(cli)) =
           [ok |-> TRUE, command |-> "Service", configuration |-> cli.configuration,
            overrides |-> WithoutPassword(cli.overrides),
            application_args |-> cli.application_args]
<1>1. PICK a \in ArgumentLists : parse(a).ok /\ cli = parse(a)
  BY DEF Launchable
<1>2. /\ cli.configuration \in Plain \ Overrides
      /\ cli.overrides \in Seq(Overrides)
      /\ cli.application_args \in Seq(Argument)
  BY <1>1, GivenArguments, ParseResult
<1>3. WithoutPassword(cli.overrides) \in Seq(Kept)
  BY <1>2, KeptOverrides
<1>4. installed_launch_arguments(cli) =
        <<ServiceCommand, cli.configuration>> \o WithoutPassword(cli.overrides)
        \o IF cli.application_args = <<>> THEN <<>> ELSE <<Separator>> \o cli.application_args
  BY Zenon DEF installed_launch_arguments, ServiceCommand, Separator
<1> QED
  BY <1>2, <1>3, <1>4, Reparsed

-----------------------------------------------------------------------------
(* What is installed.                                                      *)

\* Who installs has parsed its arguments, and the record of the SCM holds what
\* such a process has put there.
ImageInv ==
  /\ \A o \in Operators : op[o].step = "install" => op[o].cli \in Launchable
  /\ Present => /\ record.installer \in Launchable
                /\ record.image = installed_launch_arguments(record.installer)

\* The process of one operator changes, which is not about to install then.
LEMMA OneImage ==
  ASSUME Types, ImageInv, NEW o \in Operators, NEW r, op' = [op EXCEPT ![o] = r],
         r.step # "install", UNCHANGED record
  PROVE  ImageInv'
<1>1. ASSUME NEW q \in Operators, op'[q].step = "install" PROVE op'[q].cli \in Launchable
  <2>1. q # o /\ op'[q] = op[q]
    BY <1>1 DEF Types
  <2> QED
    BY <1>1, <2>1 DEF ImageInv
<1> QED
  BY <1>1 DEF ImageInv, Present

\* The steps that only move a process.
LEMMA ImageGoto ==
  ASSUME Types, ImageInv, NEW o \in Operators, NEW step, step # "install", Goto(o, step),
         UNCHANGED record
  PROVE  ImageInv'
<1> DEFINE r == [op[o] EXCEPT !.step = step]
<1>1. op' = [op EXCEPT ![o] = r]
  BY DEF Goto
<1>2. r.step = step
  BY DEF Types, Processes
<1> HIDE DEF r
<1> QED
  BY <1>1, <1>2, OneImage

\* ... or end it.
LEMMA ImageExit ==
  ASSUME Types, ImageInv, NEW o \in Operators, NEW result, NEW code, Exit(o, result, code),
         UNCHANGED record
  PROVE  ImageInv'
<1> DEFINE r == [Resting EXCEPT !.result = result, !.code = code, !.count = op[o].count]
<1>1. op' = [op EXCEPT ![o] = r]
  BY DEF Exit
<1>2. r.step = "ready"
  BY DEF Resting
<1> HIDE DEF r
<1> QED
  BY <1>1, <1>2, OneImage

\* A process ends or goes on, and has not begun to install.
LEMMA ImageMoves ==
  ASSUME Types, ImageInv, NEW o \in Operators, UNCHANGED record,
         \/ Fail(o) \/ Done(o) \/ \E step \in Steps \ {"install"} : Goto(o, step)
  PROVE  ImageInv'
  BY ImageGoto, ImageExit DEF Fail, Done

\* What stop and remove do with a stopped service.
LEMMA ImageStopped ==
  ASSUME Types, ImageInv, NEW o \in Operators, Stopped(o), UNCHANGED record
  PROVE  ImageInv'
<1> DEFINE r == IF Command(o) = "Remove"
                  THEN [op[o] EXCEPT !.step = "delete", !.seen = starts]
                  ELSE [Resting EXCEPT !.result = "ok", !.seen = starts, !.count = op[o].count]
<1>1. op' = [op EXCEPT ![o] = r]
  BY DEF Stopped
<1>2. r.step # "install"
  BY DEF Types, Processes, Resting
<1> HIDE DEF r
<1> QED
  BY <1>1, <1>2, OneImage

\* run: what goes on to install is a command line that parse took.
LEMMA ImageRun ==
  ASSUME Types, ImageInv, NEW o \in Operators, Run(o)
  PROVE  ImageInv'
<1>1. PICK arguments \in ArgumentLists, configuration_ok \in BOOLEAN :
        LET cli == parse(arguments)
            begun == [Resting EXCEPT !.cli = cli, !.count = op[o].count + 1]
            failed == [begun EXCEPT !.cli = ParseError, !.result = "failed", !.code = 1]
        IN op' = [op EXCEPT ![o] =
             IF ~cli.ok THEN failed
             ELSE IF cli.command \in {"Help", "Version"} THEN [begun EXCEPT !.cli = ParseError, !.result = "ok"]
             ELSE IF ~configuration_ok \/ cli.command = "BadControlCode" THEN failed
             ELSE IF cli.command \in {"Install", "InstallStart"}
               THEN [begun EXCEPT !.step = "install"]
             ELSE [begun EXCEPT !.step = "open"]]
  BY DEF Run
<1> DEFINE cli == parse(arguments)
<1>2. PICK r : /\ op' = [op EXCEPT ![o] = r]
               /\ r.step = "install" => r.cli = cli /\ cli.ok
  <2> HIDE DEF cli
  <2> DEFINE begun == [Resting EXCEPT !.cli = cli, !.count = op[o].count + 1]
             failed == [begun EXCEPT !.cli = ParseError, !.result = "failed", !.code = 1]
             r == IF ~cli.ok THEN failed
                  ELSE IF cli.command \in {"Help", "Version"} THEN [begun EXCEPT !.cli = ParseError, !.result = "ok"]
                  ELSE IF ~configuration_ok \/ cli.command = "BadControlCode" THEN failed
                  ELSE IF cli.command \in {"Install", "InstallStart"}
                    THEN [begun EXCEPT !.step = "install"]
                  ELSE [begun EXCEPT !.step = "open"]
  <2>1. op' = [op EXCEPT ![o] = r]
    BY <1>1, Zenon DEF cli
  <2>2. r.step = "install" => r.cli = cli /\ cli.ok
    BY DEF Resting
  <2> HIDE DEF r
  <2> QED
    BY <2>1, <2>2
<1>3. cli.ok => cli \in Launchable
  BY DEF Launchable
<1>4. ASSUME NEW q \in Operators, op'[q].step = "install" PROVE op'[q].cli \in Launchable
  <2> HIDE DEF cli
  <2>1. CASE q = o
    BY <1>2, <1>3, <1>4, <2>1 DEF Types
  <2>2. CASE q # o
    BY <1>2, <1>4, <2>2 DEF Types, ImageInv
  <2> QED
    BY <2>1, <2>2
<1>5. UNCHANGED record
  BY DEF Run
<1> QED
  BY <1>4, <1>5 DEF ImageInv, Present

\* install: the record gets the image of the arguments that were parsed.
LEMMA ImageInstall ==
  ASSUME Types, ImageInv, NEW o \in Operators, NEW description_ok, Install(o, description_ok)
  PROVE  ImageInv'
<1>1. CASE start_type = "unsupported" \/ Present
  BY <1>1, ImageMoves DEF Install
<1>2. CASE ~(start_type = "unsupported" \/ Present)
  <2>1. /\ record' = [state |-> "installed", start_type |-> start_type,
                      image |-> installed_launch_arguments(op[o].cli), installer |-> op[o].cli]
        /\ Fail(o) \/ Done(o) \/ Goto(o, "open")
        /\ op[o].cli \in Launchable
    BY <1>2 DEF Install, ImageInv
  <2>2. record'.installer \in Launchable /\ record'.image = installed_launch_arguments(record'.installer)
    BY <2>1
  <2>3. \A q \in Operators : op'[q].step = "install" => op[q].step = "install" /\ op'[q] = op[q]
    <3>1. ASSUME NEW r, r.step # "install", op' = [op EXCEPT ![o] = r], NEW q \in Operators,
                 op'[q].step = "install"
          PROVE  op[q].step = "install" /\ op'[q] = op[q]
      BY <3>1 DEF Types
    <3>2. CASE Fail(o) \/ Done(o)
      <4>1. PICK result, code : Exit(o, result, code)
        BY <3>2 DEF Fail, Done
      <4> DEFINE r == [Resting EXCEPT !.result = result, !.code = code, !.count = op[o].count]
      <4>2. op' = [op EXCEPT ![o] = r] /\ r.step # "install"
        BY <4>1 DEF Exit, Resting
      <4> HIDE DEF r
      <4> QED
        BY <3>1, <4>2
    <3>3. CASE Goto(o, "open")
      <4> DEFINE r == [op[o] EXCEPT !.step = "open"]
      <4>1. op' = [op EXCEPT ![o] = r] /\ r.step # "install"
        BY <3>3 DEF Goto, Types, Processes
      <4> HIDE DEF r
      <4> QED
        BY <3>1, <4>1
    <3> QED
      BY <2>1, <3>2, <3>3
  <2> QED
    BY <2>2, <2>3 DEF ImageInv
<1> QED
  BY <1>1, <1>2

\* DeleteService leaves what was installed.
LEMMA ImageDelete ==
  ASSUME Types, Recorded, ImageInv, NEW o \in Operators, Delete(o)
  PROVE  ImageInv'
<1>1. CASE Marked
  BY <1>1, ImageMoves DEF Delete
<1>2. CASE ~Marked
  <2>1. Done(o) /\ record' = [record EXCEPT !.state = "marked"] /\ op[o].step = "delete"
    BY <1>2 DEF Delete
  <2>2. Present
    BY <2>1 DEF Recorded, Holds
  <2>3. record'.installer = record.installer /\ record'.image = record.image
    BY <2>1
  <2>4. \A q \in Operators : op'[q].step = "install" => op[q].step = "install" /\ op'[q] = op[q]
    BY <2>1 DEF Done, Exit, Resting, Types, Processes
  <2> QED
    BY <2>2, <2>3, <2>4 DEF ImageInv
<1> QED
  BY <1>1, <1>2

\* The steps of a command after install.
LEMMA ImageContinue ==
  ASSUME Types, Recorded, ImageInv, NEW o \in Operators, Continue(o)
  PROVE  ImageInv'
<1>1. CASE \E description_ok \in BOOLEAN : Install(o, description_ok)
  BY <1>1, ImageInstall
<1>2. CASE Delete(o)
  BY <1>2, ImageDelete
<1>3. {"open", "opened", "control", "handled", "waiting", "delete", "query_config"}
        \subseteq Steps \ {"install"}
  BY DEF Steps
<1>4. CASE Open(o)
  BY <1>3, <1>4, ImageMoves DEF Open
<1>5. CASE Start(o)
  BY <1>3, <1>5, ImageMoves DEF Start
<1>6. CASE Look(o)
  BY <1>3, <1>6, ImageMoves, ImageStopped DEF Look
<1>7. CASE AskControl(o)
  BY <1>3, <1>7, ImageMoves DEF AskControl
<1>8. CASE ControlReturns(o)
  BY <1>3, <1>8, ImageMoves DEF ControlReturns
<1>9. CASE Poll(o) \/ TimedOut(o)
  BY <1>9, ImageMoves, ImageStopped DEF Poll, TimedOut
<1>10. CASE QueryStatus(o)
  <2> DEFINE c == 1 + (IF status # "Stopped" THEN 2 ELSE 0) + (IF status = "Paused" THEN 64 ELSE 0)
             r == [op[o] EXCEPT !.step = "query_config", !.code = c]
  <2>1. op' = [op EXCEPT ![o].step = "query_config", ![o].code = c] /\ UNCHANGED record
    BY <1>10, Zenon DEF QueryStatus
  <2> HIDE DEF c
  <2>2. op' = [op EXCEPT ![o] = r]
    BY <2>1 DEF Types, Processes
  <2>3. r.step # "install"
    BY DEF Types, Processes
  <2> HIDE DEF r
  <2> QED
    BY <2>1, <2>2, <2>3, OneImage
<1>11. CASE QueryConfig(o)
  BY <1>11, ImageExit DEF QueryConfig
<1>12. CASE CallFails(o)
  BY <1>12, ImageMoves DEF CallFails
<1> QED
  BY <1>1, <1>2, <1>4, <1>5, <1>6, <1>7, <1>8, <1>9, <1>10, <1>11, <1>12 DEF Continue

\* What is installed before the first command, and what every step keeps.
LEMMA ImageInit == Init => ImageInv
<1> SUFFICES ASSUME Init PROVE ImageInv
  OBVIOUS
<1>1. \A o \in Operators : op[o].step # "install"
  BY RestingProcess DEF Init
<1>2. ASSUME Present PROVE record.installer \in Launchable /\ record.image = installed_launch_arguments(record.installer)
  <2>1. record \in Installed(start_type)
    BY <1>2 DEF Init, Present, NoRecord
  <2>2. PICK a \in ArgumentLists :
          /\ parse(a).ok
          /\ record = [state |-> "installed", start_type |-> start_type, installer |-> parse(a),
                       image |-> installed_launch_arguments(parse(a))]
    BY <2>1 DEF Installed
  <2>3. parse(a) \in Launchable
    BY <2>2 DEF Launchable
  <2> QED
    BY <2>2, <2>3
<1> QED
  BY <1>1, <1>2 DEF ImageInv

\* No step of a command, the SCM or the worker breaks it.
LEMMA ImageStep == CommandsInv /\ ImageInv /\ [Next]_vars => ImageInv'
<1> SUFFICES ASSUME CommandsInv, ImageInv, [Next]_vars PROVE ImageInv'
  OBVIOUS
<1>0. Types /\ Recorded
  BY DEF CommandsInv
<1>1. ASSUME NEW o \in Operators, Run(o) PROVE ImageInv'
  BY <1>0, <1>1, ImageRun
<1>2. ASSUME NEW o \in Operators, Continue(o) PROVE ImageInv'
  BY <1>0, <1>2, ImageContinue
<1>3. CASE Vanish
  BY <1>3 DEF Vanish, ImageInv, Present, NoRecord
<1>4. CASE WorkerStep
  BY <1>4 DEF WorkerStep, ImageInv, Present
<1>5. CASE UNCHANGED vars
  BY <1>5 DEF ImageInv, Present, vars
<1> QED
  BY <1>1, <1>2, <1>3, <1>4, <1>5 DEF Next, AtRest

\* The arguments stored for the SCM start the service the installer described:
\* parse takes them, as -s with the same configuration, overrides and application
\* arguments, without the password; for any command lines that operators use.
THEOREM ImageIsTheService == Spec => []ImageRunsTheService
<1>1. ASSUME ImageInv PROVE ImageRunsTheService
  <2> SUFFICES ASSUME Present
               PROVE  LET cli == parse(record.image) IN
                        /\ cli.ok /\ cli.command = "Service"
                        /\ cli.configuration = record.installer.configuration
                        /\ cli.application_args = record.installer.application_args
                        /\ cli.overrides = WithoutPassword(record.installer.overrides)
    BY DEF ImageRunsTheService
  <2> DEFINE installer == record.installer
  <2>1. installer \in Launchable /\ record.image = installed_launch_arguments(installer)
    BY <1>1 DEF ImageInv
  <2> HIDE DEF installer
  <2>2. parse(record.image) =
          [ok |-> TRUE, command |-> "Service", configuration |-> installer.configuration,
           overrides |-> WithoutPassword(installer.overrides),
           application_args |-> installer.application_args]
    BY <2>1, ImageOfInstaller
  <2> QED
    BY <2>2 DEF installer
<1> QED
  BY <1>1, CommandsInvariant, ImageInit, ImageStep, PTL DEF Spec

=============================================================================
