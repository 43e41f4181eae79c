-------------------------- MODULE ServiceHostProofs --------------------------
(***************************************************************************)
(* Proofs about the supervisor thread and about the Windows service worker *)
(* around it, for every configuration, every bound of the queues and every *)
(* set of exit codes.                                                      *)
(*                                                                         *)
(* The first part is about Supervisor by itself: types, one JVM at a time, *)
(* throttled, numbered and disabled restarts, a stop that is final.  The   *)
(* second carries its invariant over to the worker: the three threads keep *)
(* what ServiceStatus promises to the SCM, and an application that is up   *)
(* is not shown as down.                                                   *)
(***************************************************************************)
EXTENDS ServiceHost, TLAPS

USE DEF terminate_child

\* The configuration a behaviour runs with is well formed.
LEMMA ConfigTyped == ASSUME config \in Configurations PROVE ConfigOK(config)
  BY ConfigAssumption

-----------------------------------------------------------------------------
(* What the helpers of the channels return.                                *)

\* Publishing an event leaves a queue of events.
LEMMA PublicationsType ==
  ASSUME NEW queue \in Seq(Event), NEW event \in Event
  PROVE  Publications(queue, event) \subseteq Seq(Event)
  BY DEF Publications

\* mark_disconnected, HangUp and Connected yield a channel.
LEMMA ChannelUpdates ==
  ASSUME NEW ch \in Channel
  PROVE  /\ MarkDisconnected(ch) \in Channel
         /\ HangUp(ch) \in Channel
         /\ Connected(ch) \in Channel
<1>1. Disconnected \in Packet
  BY ExitCodeAssumption DEF Disconnected, P, Packet
<1>2. /\ <<>> \in Seq(Packet)
      /\ <<Disconnected>> \in Seq(Packet)
      /\ Append(ch.inbox, Disconnected) \in Seq(Packet)
  BY <1>1 DEF Channel
<1>3. MarkDisconnected(ch) \in Channel
  BY <1>2 DEF MarkDisconnected, Channel
<1>4. HangUp(ch) \in Channel
  BY <1>2 DEF HangUp, Channel
<1>5. Connected(ch) \in Channel
  BY <1>2 DEF Connected, Channel
<1> QED
  BY <1>3, <1>4, <1>5

\* A write leaves a channel.
LEMMA SendsType ==
  ASSUME NEW ch \in Channel, NEW s \in Sends(ch)
  PROVE  s.ch \in Channel
<1>1. MarkDisconnected(ch) \in Channel
  BY ChannelUpdates
<1>2. s \in {[ok |-> FALSE, ch |-> ch], [ok |-> TRUE, ch |-> ch],
             [ok |-> FALSE, ch |-> MarkDisconnected(ch)]}
  BY DEF Sends
<1> QED
  BY <1>1, <1>2

\* So does the poll for an authenticated peer.
LEMMA PollsType ==
  ASSUME NEW ch \in Channel, NEW p \in Polls(ch)
  PROVE  p.ch \in Channel
<1> DEFINE refused == [ch EXCEPT !.link = "none"]
<1>1. refused \in Channel /\ Connected(ch) \in Channel
  BY ChannelUpdates DEF Channel
<1>2. p \in {[ok |-> TRUE, ch |-> ch], [ok |-> TRUE, ch |-> Connected(ch)],
             [ok |-> FALSE, ch |-> ch], [ok |-> TRUE, ch |-> refused]}
  BY DEF Polls
<1> QED
  BY <1>1, <1>2

-----------------------------------------------------------------------------
(* The building blocks of the actions preserve the types.                  *)

\* The constants that are stored in variables have their types.
LEMMA ConstantsTyped ==
  /\ NoChannel \in Channel
  /\ NoOutcome \in Outcome
  /\ Err \in Result
  /\ \A code \in ExitCodes :
       /\ StopOutcome(code) \in Outcome
       /\ Exited(code) \in Outcome
       /\ Ok(code) \in Result
  /\ PauseOutcome \in Outcome
  /\ \A code \in ExitCodes, automatic \in BOOLEAN :
       Restart(automatic, code) \in Outcome
<1>1. NoChannel \in Channel
  BY DEF NoChannel, Channel
<1>2. 0 \in ExitCodes /\ 1 \in ExitCodes
  BY ExitCodeAssumption
<1>3. /\ Err \in Result
      /\ \A code \in ExitCodes : Ok(code) \in Result
  BY <1>2 DEF Err, Ok, Result
<1>4. \A code \in ExitCodes, automatic \in BOOLEAN :
        /\ OutcomeOf("Stop", code, automatic) \in Outcome
        /\ OutcomeOf("Pause", code, automatic) \in Outcome
        /\ OutcomeOf("Exited", code, automatic) \in Outcome
        /\ OutcomeOf("Restart", code, automatic) \in Outcome
        /\ OutcomeOf("None", code, automatic) \in Outcome
  BY DEF OutcomeOf, Outcome
<1> QED
  BY <1>1, <1>2, <1>3, <1>4
     DEF NoOutcome, StopOutcome, Exited, PauseOutcome, Restart

\* Publish keeps the telemetry channel a queue of events.
LEMMA PublishType ==
  ASSUME events \in Seq(Event), dropped \in BOOLEAN, NEW event \in Event,
         Publish(event)
  PROVE  events' \in Seq(Event) /\ dropped' \in BOOLEAN
<1>1. events' \in Seq(Event)
  BY PublicationsType DEF Publish
<1>2. dropped' \in BOOLEAN
  BY Zenon DEF Publish
<1> QED
  BY <1>1, <1>2

\* So do two events in a row.
LEMMA PublishBothType ==
  ASSUME events \in Seq(Event), dropped \in BOOLEAN,
         NEW first \in Event, NEW second \in Event, PublishBoth(first, second)
  PROVE  events' \in Seq(Event) /\ dropped' \in BOOLEAN
<1>1. PICK queue \in Publications(events, first) :
         /\ events' \in Publications(queue, second)
         /\ dropped' = (dropped \/ queue = events \/ events' = queue)
  BY DEF PublishBoth
<1>2. queue \in Seq(Event)
  BY PublicationsType
<1>3. events' \in Seq(Event)
  BY <1>1, <1>2, PublicationsType
<1>4. dropped' \in BOOLEAN
  BY <1>1, Zenon
<1> QED
  BY <1>3, <1>4

\* The end of an invocation.
LEMMA RunReturnsType ==
  ASSUME TypeOK, NEW out \in Outcome, RunReturns(out),
         controls' \in Seq(Control)
  PROVE  TypeOK'
<1>1. PICK long \in BOOLEAN : outcome' = [out EXCEPT !.long = long]
  BY DEF RunReturns, RunLengths
<1>2. outcome' \in Outcome
  BY <1>1 DEF Outcome
<1>3. events' \in Seq(Event) /\ dropped' \in BOOLEAN
  <2>1. CASE out.kind = "Pause"
    BY <2>1, PublishType DEF RunReturns, TypeOK, Event
  <2>2. CASE out.kind # "Pause"
    BY <2>2 DEF RunReturns, TypeOK, telemetry
  <2> QED
    BY <2>1, <2>2
<1>4. channel' \in Channel /\ status' \in ExitCodes
  BY ConstantsTyped, ExitCodeAssumption DEF RunReturns
<1> QED
  BY <1>2, <1>3, <1>4 DEF RunReturns, TypeOK, outer, history, Locations

\* An error that ends the run.
LEMMA RunFailsType ==
  ASSUME TypeOK, RunFails, controls' \in Seq(Control)
  PROVE  TypeOK'
<1>1. channel' \in Channel /\ result' \in Result /\ status' \in ExitCodes
  BY ConstantsTyped, ExitCodeAssumption DEF RunFails
<1> QED
  BY <1>1 DEF RunFails, TypeOK, outer, history, telemetry, Locations

\* shutdown_and_drain.
LEMMA ShutdownType ==
  ASSUME TypeOK, NEW ch \in Channel, NEW out \in Outcome,
         ShutdownAndDrain(ch, out), controls' \in Seq(Control)
  PROVE  TypeOK'
<1>1. CASE RunReturns(out)
  BY <1>1, RunReturnsType
<1>2. CASE ~RunReturns(out)
  <2>1. PICK s \in Sends(ch) :
          /\ pc' = "stopping"
          /\ outcome' = out
          /\ channel' = s.ch
          /\ UNCHANGED <<config, outer, result, telemetry, jvm, started,
                         paused_in_place, history>>
    BY <1>2 DEF ShutdownAndDrain
  <2>2. channel' \in Channel
    BY <2>1, SendsType
  <2> QED
    BY <2>1, <2>2 DEF TypeOK, outer, history, telemetry, jvm, Locations, InRun
<1> QED
  BY <1>1, <1>2

\* The event loop goes on.
LEMMA ContinueType ==
  ASSUME TypeOK, NEW ch \in Channel, Continue(ch), controls' \in Seq(Control),
         events' \in Seq(Event), dropped' \in BOOLEAN, started' \in BOOLEAN,
         paused_in_place' \in BOOLEAN
  PROVE  TypeOK'
  BY DEF Continue, TypeOK, outer, history, jvm

\* A thread dump, by CTRL_BREAK or jcmd.
LEMMA ThreadDumpType ==
  ASSUME TypeOK, RequestThreadDump, controls' \in Seq(Control)
  PROVE  TypeOK'
  BY DEF RequestThreadDump, TypeOK, outer, history, jvm, telemetry, Locations,
         InRun

\* pause(), resume(), and the packets without an answer.
LEMMA PauseType ==
  ASSUME TypeOK, PauseJvm, controls' \in Seq(Control)
  PROVE  TypeOK'
<1>1. CASE config.stop_jvm
  BY <1>1, ShutdownType, ConstantsTyped DEF PauseJvm, TypeOK
<1>2. CASE ~config.stop_jvm
  <2>1. PICK s \in Sends(channel) :
          /\ Continue(s.ch)
          /\ IF s.ok THEN paused_in_place' = TRUE /\ Publish("ServicePaused")
                     ELSE UNCHANGED <<paused_in_place, telemetry>>
          /\ UNCHANGED started
    BY <1>2 DEF PauseJvm
  <2>2. s.ch \in Channel
    BY SendsType DEF TypeOK
  <2>3. events' \in Seq(Event) /\ dropped' \in BOOLEAN
    BY <2>1, PublishType DEF TypeOK, Event, telemetry
  <2> QED
    BY <2>1, <2>2, <2>3, ContinueType DEF TypeOK
<1> QED
  BY <1>1, <1>2

LEMMA ResumeType ==
  ASSUME TypeOK, ResumeJvm, controls' \in Seq(Control)
  PROVE  TypeOK'
<1>1. PICK s \in Sends(channel) :
        /\ Continue(s.ch)
        /\ IF s.ok THEN paused_in_place' = FALSE /\ Publish("ServiceResumed")
                   ELSE UNCHANGED <<paused_in_place, telemetry>>
        /\ UNCHANGED started
  BY DEF ResumeJvm
<1>2. s.ch \in Channel
  BY SendsType DEF TypeOK
<1>3. events' \in Seq(Event) /\ dropped' \in BOOLEAN
  BY <1>1, PublishType DEF TypeOK, Event, telemetry
<1> QED
  BY <1>1, <1>2, <1>3, ContinueType DEF TypeOK

LEMMA SendOnlyType ==
  ASSUME TypeOK, SendOnly, controls' \in Seq(Control)
  PROVE  TypeOK'
<1>1. PICK s \in Sends(channel) :
        /\ Continue(s.ch)
        /\ UNCHANGED <<telemetry, started, paused_in_place>>
  BY DEF SendOnly
<1>2. s.ch \in Channel
  BY SendsType DEF TypeOK
<1> QED
  BY <1>1, <1>2, ContinueType DEF TypeOK, telemetry

LEMMA IgnoreType ==
  ASSUME TypeOK, Ignore, controls' \in Seq(Control)
  PROVE  TypeOK'
  BY ContinueType DEF Ignore, TypeOK, telemetry

-----------------------------------------------------------------------------
(* The sources of the event loop preserve the types.                       *)

\* handle_control.
LEMMA HandleControlType == TypeOK /\ HandleControl => TypeOK'
<1> SUFFICES ASSUME TypeOK, HandleControl PROVE TypeOK'
  OBVIOUS
<1> DEFINE control == Head(controls)
<1>1. controls' \in Seq(Control)
  BY DEF HandleControl, TypeOK
<1>2. channel \in Channel /\ 0 \in ExitCodes
  BY ExitCodeAssumption DEF TypeOK
<1>3. CASE control \in StopRequests /\ ShutdownAndDrain(channel, StopOutcome(0))
  BY <1>1, <1>2, <1>3, ShutdownType, ConstantsTyped
<1>4. CASE PauseJvm
  BY <1>1, <1>4, PauseType
<1>5. CASE ResumeJvm
  BY <1>1, <1>5, ResumeType
<1>6. CASE RequestThreadDump
  BY <1>1, <1>6, ThreadDumpType
<1>7. CASE SendOnly
  BY <1>1, <1>7, SendOnlyType
<1>8. CASE Ignore
  BY <1>1, <1>8, IgnoreType
<1> QED
  BY <1>3, <1>4, <1>5, <1>6, <1>7, <1>8, Zenon DEF HandleControl

\* apply_filter_matches.
LEMMA HandleOutputType ==
  ASSUME TypeOK, NEW action, HandleOutput(action) PROVE TypeOK'
<1>1. controls' \in Seq(Control)
  BY DEF HandleOutput, TypeOK
<1>2. channel \in Channel /\ 0 \in ExitCodes
  BY ExitCodeAssumption DEF TypeOK
<1>3. CASE ShutdownAndDrain(channel, StopOutcome(0))
  BY <1>1, <1>2, <1>3, ShutdownType, ConstantsTyped
<1>4. CASE ShutdownAndDrain(channel, Restart(FALSE, 0))
  BY <1>1, <1>2, <1>4, ShutdownType, ConstantsTyped
<1>5. CASE PauseJvm
  BY <1>1, <1>5, PauseType
<1>6. CASE ResumeJvm
  BY <1>1, <1>6, ResumeType
<1>7. CASE RequestThreadDump
  BY <1>1, <1>7, ThreadDumpType
<1>8. CASE SendOnly
  BY <1>1, <1>8, SendOnlyType
<1> QED
  BY <1>3, <1>4, <1>5, <1>6, <1>7, <1>8, Zenon DEF HandleOutput

\* handle_protocol.
LEMMA HandleProtocolType == TypeOK /\ HandleProtocol => TypeOK'
<1> SUFFICES ASSUME TypeOK, HandleProtocol PROVE TypeOK'
  OBVIOUS
<1> DEFINE packet == Head(channel.inbox)
           rest == [channel EXCEPT !.inbox = Tail(@)]
<1>1. controls' \in Seq(Control)
  BY DEF HandleProtocol, TypeOK
<1>2. /\ packet \in Packet
      /\ Tail(channel.inbox) \in Seq(Packet)
      /\ channel \in Channel
  BY DEF HandleProtocol, TypeOK, Channel
<1>3. /\ rest \in Channel
      /\ packet.arg \in ExitCodes
      /\ MarkDisconnected(channel) \in Channel
  BY <1>2, ChannelUpdates DEF Channel, Packet
<1>4. 0 \in ExitCodes
  BY ExitCodeAssumption
<1>5. CASE /\ Continue(MarkDisconnected(channel))
           /\ UNCHANGED <<telemetry, started, paused_in_place>>
  BY <1>1, <1>3, <1>5, ContinueType DEF TypeOK, telemetry
<1>6. CASE /\ started' = TRUE
           /\ IF resuming THEN PublishBoth("JvmStarted", "ServiceResumed")
                          ELSE Publish("JvmStarted")
           /\ Continue(rest)
           /\ UNCHANGED paused_in_place
  <2>1. events' \in Seq(Event) /\ dropped' \in BOOLEAN
    BY <1>6, PublishType, PublishBothType DEF TypeOK, Event
  <2> QED
    BY <1>1, <1>3, <1>6, <2>1, ContinueType DEF TypeOK
<1>7. CASE ShutdownAndDrain(rest, Restart(FALSE, 0))
  BY <1>1, <1>3, <1>4, <1>7, ShutdownType, ConstantsTyped
<1>8. CASE ShutdownAndDrain(rest, Exited(packet.arg))
  BY <1>1, <1>3, <1>8, ShutdownType, ConstantsTyped
<1>9. CASE /\ Continue(rest)
           /\ UNCHANGED <<telemetry, started, paused_in_place>>
  BY <1>1, <1>3, <1>9, ContinueType DEF TypeOK, telemetry
<1> QED
  BY <1>5, <1>6, <1>7, <1>8, <1>9, Zenon DEF HandleProtocol

\* tick.
LEMMA TickType == TypeOK /\ Tick => TypeOK'
<1> SUFFICES ASSUME TypeOK, Tick PROVE TypeOK'
  OBVIOUS
<1>1. controls' \in Seq(Control)
  BY DEF Tick, TypeOK
<1>2. status \in ExitCodes /\ 1 \in ExitCodes
  BY ExitCodeAssumption DEF TypeOK
<1>3. CASE RunReturns(Exited(status))
  BY <1>1, <1>2, <1>3, RunReturnsType, ConstantsTyped
<1>4. CASE RunFails
  BY <1>1, <1>4, RunFailsType
<1>5. ASSUME NEW ch \in Channel, ShutdownAndDrain(ch, Restart(TRUE, 1))
      PROVE  TypeOK'
  BY <1>1, <1>2, <1>5, ShutdownType, ConstantsTyped
<1>6. ASSUME NEW ch \in Channel, Continue(ch),
             UNCHANGED <<telemetry, started, paused_in_place>>
      PROVE  TypeOK'
  BY <1>1, <1>6, ContinueType DEF TypeOK, telemetry
<1>7. CASE \E polled \in Polls(channel) :
             \/ ~polled.ok /\ RunFails
             \/ ShutdownAndDrain(polled.ch, Restart(TRUE, 1))
             \/ \E pinged \in {[ok |-> TRUE, ch |-> polled.ch]}
                                 \cup Sends(polled.ch) :
                  \/ ShutdownAndDrain(pinged.ch, Restart(TRUE, 1))
                  \/ /\ Continue(pinged.ch)
                     /\ UNCHANGED <<telemetry, started, paused_in_place>>
  <2>1. PICK polled \in Polls(channel) :
          \/ ~polled.ok /\ RunFails
          \/ ShutdownAndDrain(polled.ch, Restart(TRUE, 1))
          \/ \E pinged \in {[ok |-> TRUE, ch |-> polled.ch]}
                              \cup Sends(polled.ch) :
               \/ ShutdownAndDrain(pinged.ch, Restart(TRUE, 1))
               \/ /\ Continue(pinged.ch)
                  /\ UNCHANGED <<telemetry, started, paused_in_place>>
    BY <1>7, Zenon
  <2>2. polled.ch \in Channel
    BY PollsType DEF TypeOK
  <2>3. \A pinged \in {[ok |-> TRUE, ch |-> polled.ch]} \cup Sends(polled.ch) :
          pinged.ch \in Channel
    BY <2>2, SendsType
  <2> QED
    BY <1>4, <1>5, <1>6, <2>1, <2>2, <2>3, Zenon
<1> QED
  BY <1>3, <1>7, Zenon DEF Tick

-----------------------------------------------------------------------------
(* Type correctness.                                                       *)

\* run returns with an exit code.
LEMMA ReturnedType ==
  ASSUME NEW code \in ExitCodes, Returned(code)
  PROVE  pc' \in Locations /\ result' \in Result
  BY ConstantsTyped DEF Returned, Locations

\* Supervisor::run outside an invocation.
LEMMA RunType ==
  ASSUME TypeOK,
         Start \/ StartFails \/ DelayControl \/ DelayElapsed \/ PausedControl
  PROVE  TypeOK'
<1>1. 0 \in ExitCodes
  BY ExitCodeAssumption
<1>2. NextJvmId \in 1..MaxJvmId
  BY BoundAssumption DEF NextJvmId, TypeOK
<1>3. CASE Start
  <2>1. events' \in Seq(Event) /\ dropped' \in BOOLEAN
    BY <1>3, PublishType DEF Start, TypeOK, Event, telemetry
  <2> QED
    BY <1>3, <2>1 DEF Start, TypeOK, AfterStartupPause, Locations, StartupWaits,
                      outer, history, jvm
<1>4. CASE StartFails
  BY <1>4, RunFailsType DEF StartFails, TypeOK
<1>5. CASE DelayControl
  <2>1. pc' \in Locations /\ result' \in Result
    BY <1>1, <1>5, ReturnedType DEF DelayControl, TypeOK
  <2> QED
    BY <1>5, <2>1 DEF DelayControl, TypeOK, outer, history, jvm, telemetry
<1>6. CASE DelayElapsed
  BY <1>6 DEF DelayElapsed, TypeOK, outer, history, jvm, telemetry, Locations
<1>7. CASE PausedControl
  <2>1. pc' \in Locations /\ result' \in Result
    BY <1>1, <1>7, ReturnedType DEF PausedControl, TypeOK, AfterStartupPause,
                                    Locations, StartupWaits
  <2>2. controls' \in Seq(Control)
    BY <1>7 DEF PausedControl, TypeOK
  <2>3. jvm_id' \in 1..MaxJvmId
    BY <1>2, <1>7 DEF PausedControl, TypeOK
  <2>4. resuming' \in BOOLEAN
    BY <1>7 DEF PausedControl, TypeOK
  <2> QED
    BY <1>7, <2>1, <2>2, <2>3, <2>4
       DEF PausedControl, TypeOK, history, jvm, telemetry
<1> QED
  BY <1>3, <1>4, <1>5, <1>6, <1>7

\* run_once up to its event loop, and the waits inside an invocation.
LEMMA RunOnceType ==
  ASSUME TypeOK,
         \/ Launch \/ SpawnFails \/ LaunchFails
         \/ DumpDone \/ ChildStopped \/ ShutdownTimeout \/ IoError
  PROVE  TypeOK'
<1>1. CASE Launch
  <2>1. ConfigOK(config)
    BY ConfigTyped DEF TypeOK
  <2>2. job' \in BOOLEAN
    BY <1>1, <2>1 DEF Launch, ConfigOK
  <2>3. launches' \in 0..MaxJvmId /\ streak' \in Nat
    BY <1>1, BoundAssumption DEF Launch, CountLaunch, TypeOK
  <2> QED
    BY <1>1, <2>2, <2>3, ConstantsTyped
       DEF Launch, TypeOK, outer, telemetry, Locations, InRun
<1>2. CASE SpawnFails
  <2>1. launches' \in 0..MaxJvmId /\ streak' \in Nat
    BY <1>2, BoundAssumption DEF SpawnFails, CountLaunch, TypeOK
  <2>2. Restart(TRUE, 1) \in Outcome
    BY ConstantsTyped, ExitCodeAssumption
  <2>3. (config.successful_time = 0) \in BOOLEAN
    OBVIOUS
  <2>4. outcome' \in Outcome
    BY <1>2, <2>2, <2>3 DEF SpawnFails, Outcome
  <2> QED
    BY <1>2, <2>1, <2>4
       DEF SpawnFails, TypeOK, outer, jvm, telemetry, Locations
<1>3. CASE LaunchFails
  BY <1>3, RunFailsType DEF LaunchFails, TypeOK
<1>4. CASE DumpDone
  BY <1>4 DEF DumpDone, TypeOK, outer, history, jvm, telemetry, Locations, InRun
<1>5. CASE ChildStopped
  BY <1>5, RunReturnsType DEF ChildStopped, TypeOK
<1>6. CASE ShutdownTimeout
  <2>1. controls' \in Seq(Control) /\ outcome \in Outcome
    BY <1>6 DEF ShutdownTimeout, TypeOK
  <2>2. CASE RunReturns(outcome)
    BY <2>1, <2>2, RunReturnsType
  <2>3. CASE ~RunReturns(outcome)
    BY <1>6, <2>1, <2>3 DEF ShutdownTimeout, TypeOK, outer, history, jvm,
                            telemetry, Locations, InRun
  <2> QED
    BY <2>2, <2>3
<1>7. CASE IoError
  BY <1>7, RunFailsType DEF IoError, TypeOK
<1> QED
  BY <1>1, <1>2, <1>3, <1>4, <1>5, <1>6, <1>7

\* Supervisor::run with an outcome in hand.
LEMMA ApplyType ==
  ASSUME TypeOK, ResolveExit \/ ApplyStop \/ ApplyPause \/ ApplyRestart
  PROVE  TypeOK'
<1>1. /\ outcome.code \in ExitCodes
      /\ outcome.automatic \in BOOLEAN
      /\ outcome.long \in BOOLEAN
  BY DEF TypeOK, Outcome
<1>2. CASE ResolveExit
  <2>1. Restart(TRUE, outcome.code) \in Outcome
    BY <1>1, ConstantsTyped
  <2>2. [Restart(TRUE, outcome.code) EXCEPT !.long = outcome.long] \in Outcome
    BY <1>1, <2>1 DEF Outcome
  <2>3. StopOutcome(outcome.code) \in Outcome /\ PauseOutcome \in Outcome
    BY <1>1, ConstantsTyped
  <2>4. outcome' \in Outcome
    BY <1>2, <2>2, <2>3, Zenon DEF ResolveExit
  <2> QED
    BY <1>2, <2>4 DEF ResolveExit, TypeOK, outer, history, jvm, telemetry
<1>3. CASE ApplyStop
  <2>1. pc' \in Locations /\ result' \in Result
    BY <1>1, <1>3, ReturnedType DEF ApplyStop
  <2> QED
    BY <1>3, <2>1 DEF ApplyStop, TypeOK, outer, history, jvm, telemetry
<1>4. CASE ApplyPause
  BY <1>4 DEF ApplyPause, TypeOK, jvm, telemetry, Locations
<1>5. CASE ApplyRestart
  <2>1. NextJvmId \in 1..MaxJvmId
    BY BoundAssumption DEF NextJvmId, TypeOK
  <2>2. FailedNow \in Nat
    BY DEF FailedNow, TypeOK
  <2>3. pc' \in Locations /\ result' \in Result
    BY <1>1, <1>5, ReturnedType DEF ApplyRestart, TypeOK, Locations
  <2>4. failed_invocations' \in Nat /\ streak' \in Nat
    BY <1>5, <2>2 DEF ApplyRestart, TypeOK
  <2>5. jvm_id' \in 1..MaxJvmId
    BY <1>5, <2>1 DEF ApplyRestart, TypeOK
  <2> QED
    BY <1>5, <2>3, <2>4, <2>5 DEF ApplyRestart, TypeOK, jvm, telemetry
<1> QED
  BY <1>2, <1>3, <1>4, <1>5

\* The JVM and the control senders.
LEMMA EnvironmentType ==
  ASSUME TypeOK, JvmStep \/ \E control \in Requests : PostControl(control)
  PROVE  TypeOK'
<1>1. channel \in Channel
  BY DEF TypeOK
<1>2. ASSUME NEW ch \in Channel, JvmChannelStep(ch) PROVE TypeOK'
  BY <1>2 DEF JvmChannelStep, TypeOK, outer, history, jvm, telemetry
<1>3. HangUp(channel) \in Channel
  BY <1>1, ChannelUpdates
<1>4. CASE JvmDials
  <2>1. [channel EXCEPT !.link = "dialled"] \in Channel
    BY <1>1 DEF Channel
  <2> QED
    BY <1>2, <1>4, <2>1 DEF JvmDials
<1>5. ASSUME NEW code \in {"STARTED", "RESTART", "PING", "STOP"},
             NEW arg \in ExitCodes, JvmSends(code, arg)
      PROVE  TypeOK'
  <2>1. P(code, arg) \in Packet
    BY DEF P, Packet
  <2>2. Append(channel.inbox, P(code, arg)) \in Seq(Packet)
    BY <1>1, <2>1 DEF Channel
  <2>3. [channel EXCEPT !.inbox = Append(@, P(code, arg))] \in Channel
    BY <1>1, <2>2 DEF Channel
  <2> QED
    BY <1>2, <1>5, <2>3 DEF JvmSends
<1>6. CASE JvmHangsUp
  BY <1>2, <1>3, <1>6 DEF JvmHangsUp
<1>7. ASSUME NEW code \in ExitCodes, JvmExits(code) PROVE TypeOK'
  BY <1>3, <1>7 DEF JvmExits, TypeOK, outer, history, telemetry
<1>8. ASSUME NEW control \in Requests, PostControl(control) PROVE TypeOK'
  BY <1>8, RequestAssumption
     DEF PostControl, TypeOK, outer, history, jvm, telemetry
<1>9. 0 \in ExitCodes
  BY ExitCodeAssumption
<1> QED
  BY <1>4, <1>5, <1>6, <1>7, <1>8, <1>9 DEF JvmStep

\* The initial state is well typed.
LEMMA InitType == Init => TypeOK
<1> SUFFICES ASSUME Init PROVE TypeOK
  OBVIOUS
<1>1. result \in Result /\ status \in ExitCodes
  BY ExitCodeAssumption DEF Init, Running, Result
<1>2. outcome \in Outcome /\ channel \in Channel
  BY ConstantsTyped DEF Init
<1>3. jvm_id \in 1..MaxJvmId /\ launches \in 0..MaxJvmId
  BY BoundAssumption DEF Init
<1>4. controls \in Seq(Control) /\ events \in Seq(Event)
  BY DEF Init
<1> QED
  BY <1>1, <1>2, <1>3, <1>4 DEF Init, TypeOK, Locations

\* Every step keeps the types.
LEMMA NextType == TypeOK /\ [Next]_vars => TypeOK'
<1> SUFFICES ASSUME TypeOK, [Next]_vars PROVE TypeOK'
  OBVIOUS
<1>1. CASE EventLoop
  BY <1>1, HandleControlType, HandleOutputType, HandleProtocolType, TickType
     DEF EventLoop
<1>2. CASE SupervisorStep
  BY <1>1, <1>2, RunType, RunOnceType, ApplyType DEF SupervisorStep
<1>3. CASE UNCHANGED vars
  BY <1>3 DEF vars, TypeOK, outer, history, jvm, telemetry
<1> QED
  BY <1>2, <1>3, EnvironmentType DEF Next, Terminated

\* Every variable of the supervisor thread keeps its type, whatever the
\* configuration, the JVM and the control senders do.
THEOREM TypeCorrect == Spec => []TypeOK
  BY InitType, NextType, PTL DEF Spec

-----------------------------------------------------------------------------
(* The inductive invariant.  Each part says, for every place the thread    *)
(* can be in, what one of the safety properties needs to survive the next  *)
(* step.                                                                   *)

Waiting == {"starting", "launch", "restart_delay", "paused"} \cup StartupWaits

\* Throttled: before a launch the streak is the counter of the code; from the
\* launch to the outcome it is one ahead.
ThrottleInv ==
  /\ pc # "returned" => failed_invocations < MaxFailed
  /\ pc \in Waiting => streak = failed_invocations
  /\ pc \in InRun \cup {"outcome"} => streak = failed_invocations + 1
  /\ Throttled

\* JvmIdCountsLaunches: jvm_id is raised on the way to the next launch.
NumberInv ==
  /\ pc \in {"starting"} \cup StartupWaits => launches = 0 /\ jvm_id = 1
  /\ pc \in InRun \cup {"outcome", "paused"} => jvm_id = launches
  /\ pc \in {"launch", "restart_delay"} =>
       jvm_id = IF launches < MaxJvmId THEN launches + 1 ELSE launches

\* DisabledRestarts: the launch loop is entered again only from a pause.
DisabledInv ==
  config.disable_restarts =>
    /\ pc \in {"starting", "startup_paused"} => launches = 0
    /\ pc \in {"startup_delay", "launch"} => launches = 0 \/ resuming
    /\ pc # "restart_delay"

\* StopIsFinal: a stop has been decided only where it is being carried out.
StopInv ==
  outcome.kind = "Stop" =>
    /\ pc \in {"stopping", "dump_grace", "outcome", "returned"}
    /\ outcome.long = FALSE

SafetyInv == OneJvm /\ ThrottleInv /\ NumberInv /\ DisabledInv /\ StopInv

\* What a step inside an invocation may do to the state around it.
InvocationStep ==
  /\ pc \in InRun
  /\ UNCHANGED <<config, jvm_id, failed_invocations, resuming, launches, streak>>
  /\ \/ /\ pc' \in InRun
        /\ UNCHANGED <<child, job, result>>
        /\ outcome' = outcome \/ (outcome'.long = FALSE /\ pc' = "stopping")
        /\ pc \in {"stopping", "dump_grace"} =>
             outcome' = outcome /\ pc' \in {"stopping", "dump_grace"}
     \/ /\ pc' = "outcome"
        /\ child' = "none"
        /\ outcome'.kind = "Stop" => outcome'.long = FALSE
        /\ /\ pc \in {"stopping", "dump_grace"}
           /\ outcome.kind = "Stop" /\ outcome.long = FALSE
           => outcome' = outcome
     \/ /\ pc' = "returned"
        /\ result' = Err
        /\ UNCHANGED <<outcome, job>>
        /\ child' = IF child = "alive" /\ ~job THEN "alive" ELSE "none"

\* The end of an invocation leaves no child, and a stop is never "long".
LEMMA RunReturnsStep ==
  ASSUME pc = "running", NEW out \in Outcome, RunReturns(out)
  PROVE  InvocationStep
<1>1. PICK long \in RunLengths(out) : outcome' = [out EXCEPT !.long = long]
  BY DEF RunReturns
<1>2. outcome'.kind = "Stop" => outcome'.long = FALSE
  BY <1>1 DEF RunLengths, Outcome
<1> QED
  BY <1>2 DEF RunReturns, InvocationStep, InRun, outer, history

LEMMA RunFailsStep ==
  ASSUME pc \in InRun, RunFails
  PROVE  InvocationStep
  BY DEF RunFails, InvocationStep, outer, history

\* The outcomes shutdown_and_drain is called for.
LEMMA ShutdownStep ==
  ASSUME pc = "running", NEW ch, NEW out \in Outcome, out.long = FALSE,
         ShutdownAndDrain(ch, out)
  PROVE  InvocationStep
<1>1. CASE RunReturns(out)
  BY <1>1, RunReturnsStep
<1>2. CASE ~RunReturns(out)
  BY <1>2 DEF ShutdownAndDrain, InvocationStep, InRun, outer, history, jvm
<1> QED
  BY <1>1, <1>2

LEMMA ContinueStep ==
  ASSUME pc = "running", NEW ch, Continue(ch)
  PROVE  InvocationStep
  BY DEF Continue, InvocationStep, InRun, outer, history, jvm

\* The calls of shutdown_and_drain.
LEMMA ShutdownSteps ==
  ASSUME pc = "running", NEW ch, NEW code \in ExitCodes,
         \/ ShutdownAndDrain(ch, StopOutcome(code))
         \/ ShutdownAndDrain(ch, Exited(code))
         \/ ShutdownAndDrain(ch, Restart(TRUE, code))
         \/ ShutdownAndDrain(ch, Restart(FALSE, code))
  PROVE  InvocationStep
<1>1. /\ StopOutcome(code) \in Outcome /\ Exited(code) \in Outcome
      /\ Restart(TRUE, code) \in Outcome /\ Restart(FALSE, code) \in Outcome
  BY ConstantsTyped
<1>2. /\ StopOutcome(code).long = FALSE /\ Exited(code).long = FALSE
      /\ Restart(TRUE, code).long = FALSE /\ Restart(FALSE, code).long = FALSE
  BY DEF StopOutcome, Exited, Restart, OutcomeOf
<1> QED
  BY <1>1, <1>2, ShutdownStep

\* What the handlers have in common.
LEMMA HandlerSteps ==
  ASSUME pc = "running",
         PauseJvm \/ ResumeJvm \/ SendOnly \/ Ignore \/ RequestThreadDump
  PROVE  InvocationStep
<1>1. CASE PauseJvm
  <2>1. PauseOutcome.long = FALSE
    BY DEF PauseOutcome, OutcomeOf
  <2> QED
    BY <1>1, <2>1, ShutdownStep, ContinueStep, ConstantsTyped DEF PauseJvm
<1>2. CASE ResumeJvm \/ SendOnly \/ Ignore
  BY <1>2, ContinueStep DEF ResumeJvm, SendOnly, Ignore
<1>3. CASE RequestThreadDump
  BY <1>3 DEF RequestThreadDump, InvocationStep, InRun, outer, history, jvm
<1> QED
  BY <1>1, <1>2, <1>3

\* Every step taken inside an invocation.
LEMMA InvocationSteps ==
  ASSUME TypeOK,
         EventLoop \/ DumpDone \/ ChildStopped \/ ShutdownTimeout \/ IoError
  PROVE  InvocationStep
<1>1. 0 \in ExitCodes /\ 1 \in ExitCodes
  BY ExitCodeAssumption
<1>2. CASE HandleControl
  <2>1. pc = "running"
    BY <1>2 DEF HandleControl
  <2>2. CASE ShutdownAndDrain(channel, StopOutcome(0))
    BY <1>1, <2>1, <2>2, ShutdownSteps
  <2>3. CASE PauseJvm \/ ResumeJvm \/ SendOnly \/ Ignore \/ RequestThreadDump
    BY <2>1, <2>3, HandlerSteps
  <2> QED
    BY <1>2, <2>2, <2>3, Zenon DEF HandleControl
<1>3. ASSUME NEW action \in FilterActions, HandleOutput(action)
      PROVE  InvocationStep
  <2>1. pc = "running"
    BY <1>3 DEF HandleOutput
  <2>2. CASE \/ ShutdownAndDrain(channel, StopOutcome(0))
             \/ ShutdownAndDrain(channel, Restart(FALSE, 0))
    BY <1>1, <2>1, <2>2, ShutdownSteps
  <2>3. CASE PauseJvm \/ ResumeJvm \/ SendOnly \/ RequestThreadDump
    BY <2>1, <2>3, HandlerSteps
  <2> QED
    BY <1>3, <2>2, <2>3, Zenon DEF HandleOutput
<1>4. CASE HandleProtocol
  <2> DEFINE packet == Head(channel.inbox)
             rest == [channel EXCEPT !.inbox = Tail(@)]
  <2>1. pc = "running" /\ packet \in Packet
    BY <1>4 DEF HandleProtocol, TypeOK, Channel
  <2>2. packet.arg \in ExitCodes
    BY <2>1 DEF Packet
  <2>3. CASE \/ ShutdownAndDrain(rest, Restart(FALSE, 0))
             \/ ShutdownAndDrain(rest, Exited(packet.arg))
    BY <1>1, <2>1, <2>2, <2>3, ShutdownSteps
  <2>4. CASE Continue(MarkDisconnected(channel)) \/ Continue(rest)
    BY <2>1, <2>4, ContinueStep
  <2> QED
    BY <1>4, <2>3, <2>4, Zenon DEF HandleProtocol
<1>5. CASE Tick
  <2>1. pc = "running" /\ pc \in InRun /\ status \in ExitCodes
    BY <1>5 DEF Tick, InRun, TypeOK
  <2>2. CASE RunReturns(Exited(status))
    BY <2>1, <2>2, RunReturnsStep, ConstantsTyped
  <2>3. ASSUME NEW ch, ShutdownAndDrain(ch, Restart(TRUE, 1))
        PROVE  InvocationStep
    BY <1>1, <2>1, <2>3, ShutdownSteps
  <2>4. ASSUME NEW ch, Continue(ch) PROVE InvocationStep
    BY <2>1, <2>4, ContinueStep
  <2>5. CASE RunFails
    BY <2>1, <2>5, RunFailsStep
  <2> QED
    BY <1>5, <2>2, <2>3, <2>4, <2>5, Zenon DEF Tick
<1>6. CASE DumpDone
  BY <1>6 DEF DumpDone, InvocationStep, InRun, outer, history, jvm
<1>7. ASSUME pc \in {"stopping", "dump_grace"}, RunReturns(outcome)
      PROVE  InvocationStep
  <2>1. PICK long \in RunLengths(outcome) :
           outcome' = [outcome EXCEPT !.long = long]
    BY <1>7 DEF RunReturns
  <2>2. outcome \in Outcome
    BY DEF TypeOK
  <2>3. outcome'.kind = outcome.kind /\ outcome'.long = long
    BY <2>1, <2>2 DEF Outcome
  <2>4. outcome.kind = "Stop" => outcome'.long = FALSE
    BY <2>3 DEF RunLengths
  <2>5. outcome.kind = "Stop" /\ outcome.long = FALSE => outcome' = outcome
    BY <2>1, <2>2, <2>3, <2>4 DEF Outcome
  <2> QED
    BY <1>7, <2>3, <2>4, <2>5
       DEF RunReturns, InvocationStep, InRun, outer, history
<1>8. CASE ChildStopped
  BY <1>7, <1>8 DEF ChildStopped
<1>9. CASE ShutdownTimeout
  <2>1. CASE RunReturns(outcome)
    BY <1>7, <1>9, <2>1 DEF ShutdownTimeout
  <2>2. CASE ~RunReturns(outcome)
    BY <1>9, <2>2 DEF ShutdownTimeout, InvocationStep, InRun, outer, history, jvm
  <2> QED
    BY <2>1, <2>2
<1>10. CASE IoError
  BY <1>10, RunFailsStep DEF IoError
<1> QED
  BY <1>2, <1>3, <1>4, <1>5, <1>6, <1>8, <1>9, <1>10 DEF EventLoop

-----------------------------------------------------------------------------
(* The invariant is inductive.                                             *)

\* max_failed_invocations is at least one.
LEMMA MaxFailedPositive ==
  ASSUME TypeOK PROVE MaxFailed \in Nat /\ MaxFailed >= 1
  BY ConfigTyped DEF TypeOK, MaxFailed, ConfigOK

LEMMA InitSafety == Init => SafetyInv
<1> SUFFICES ASSUME Init PROVE SafetyInv
  OBVIOUS
<1>1. MaxFailed >= 1
  BY InitType, MaxFailedPositive
<1>2. outcome.kind # "Stop"
  BY DEF Init, NoOutcome, OutcomeOf
<1> QED
  BY <1>1, <1>2, InitType, MaxFailedPositive
     DEF Init, SafetyInv, OneJvm, ThrottleInv, Throttled, NumberInv, DisabledInv,
         StopInv, Waiting, InRun, StartupWaits

\* Inside an invocation.
LEMMA InvocationSafety ==
  ASSUME TypeOK, SafetyInv, InvocationStep PROVE SafetyInv'
<1>1. OneJvm'
  BY DEF InvocationStep, OneJvm, SafetyInv
<1>2. ThrottleInv'
  BY DEF InvocationStep, ThrottleInv, Throttled, MaxFailed, SafetyInv, Waiting,
         InRun, StartupWaits
<1>3. NumberInv' /\ DisabledInv'
  BY DEF InvocationStep, NumberInv, DisabledInv, SafetyInv, InRun, StartupWaits
<1>4. StopInv'
  BY DEF InvocationStep, StopInv, SafetyInv, InRun
<1> QED
  BY <1>1, <1>2, <1>3, <1>4 DEF SafetyInv

\* Before the first launch and between launches.
LEMMA RunSafety ==
  ASSUME TypeOK, SafetyInv,
         Start \/ StartFails \/ DelayControl \/ DelayElapsed \/ PausedControl
  PROVE  SafetyInv'
<1> USE DEF outer, history, jvm
<1>1. /\ child = "none" /\ child' = "none"
      /\ UNCHANGED <<config, outcome, failed_invocations, launches, streak>>
  BY DEF SafetyInv, OneJvm, InRun, Start, StartFails, DelayControl, DelayElapsed,
         PausedControl, RunFails
<1>2. /\ pc \in Waiting \ {"launch"}
      /\ pc' \in Waiting \cup {"returned"}
  BY DEF Start, StartFails, DelayControl, DelayElapsed, PausedControl, RunFails,
         Waiting, StartupWaits, Returned, AfterStartupPause
<1>3. OneJvm'
  BY <1>1 DEF OneJvm
<1>4. ThrottleInv'
  BY <1>1, <1>2 DEF SafetyInv, ThrottleInv, Throttled, MaxFailed, Waiting, InRun,
                    StartupWaits
<1>5. outcome.kind # "Stop"
  BY <1>2 DEF SafetyInv, StopInv, Waiting, StartupWaits
<1>6. StopInv'
  BY <1>1, <1>5 DEF StopInv
<1>7. NumberInv' /\ DisabledInv'
  <2>1. CASE Start \/ StartFails \/ DelayControl \/ DelayElapsed
    BY <2>1, BoundAssumption
       DEF SafetyInv, NumberInv, DisabledInv, Start, StartFails, DelayControl,
           DelayElapsed, RunFails, Returned, AfterStartupPause, InRun,
           StartupWaits
  <2>2. CASE PausedControl
    BY <2>2, BoundAssumption
       DEF SafetyInv, NumberInv, DisabledInv, PausedControl, Returned, NextJvmId,
           AfterStartupPause, InRun, StartupWaits
  <2> QED
    BY <2>1, <2>2
<1> QED
  BY <1>3, <1>4, <1>6, <1>7 DEF SafetyInv

\* A launch, whether it succeeds or not.
LEMMA LaunchSafety ==
  ASSUME TypeOK, SafetyInv, Launch \/ SpawnFails \/ LaunchFails
  PROVE  SafetyInv'
<1>1. pc = "launch" /\ child = "none"
  BY DEF SafetyInv, OneJvm, InRun, Launch, SpawnFails, LaunchFails
<1>2. /\ UNCHANGED <<config, jvm_id, failed_invocations, resuming>>
      /\ pc' \in {"running", "outcome", "returned"}
  BY DEF Launch, SpawnFails, LaunchFails, RunFails, outer
<1>3. OneJvm'
  BY <1>1 DEF OneJvm, InRun, Launch, SpawnFails, LaunchFails, RunFails, jvm
<1>4. ThrottleInv'
  <2>1. MaxFailed' = MaxFailed /\ MaxFailed \in Nat
    BY <1>2, MaxFailedPositive DEF MaxFailed
  <2>2. streak = failed_invocations /\ failed_invocations < MaxFailed
    BY <1>1 DEF SafetyInv, ThrottleInv, Waiting
  <2>3. \/ pc' = "returned" /\ streak' = streak
        \/ pc' \in {"running", "outcome"} /\ streak' = streak + 1
    BY DEF Launch, SpawnFails, LaunchFails, RunFails, CountLaunch, history
  <2>4. failed_invocations \in Nat /\ streak \in Nat
    BY DEF TypeOK
  <2>5. streak' <= MaxFailed
    BY <2>1, <2>2, <2>3, <2>4
  <2> QED
    BY <1>2, <2>1, <2>2, <2>3, <2>5
       DEF ThrottleInv, Throttled, Waiting, InRun, StartupWaits
<1>5. NumberInv'
  BY <1>1, <1>2, BoundAssumption
     DEF SafetyInv, NumberInv, InRun, StartupWaits, Launch, SpawnFails,
         LaunchFails, RunFails, CountLaunch, history, TypeOK
<1>6. DisabledInv'
  BY <1>2 DEF DisabledInv
<1>7. StopInv'
  <2>1. CASE Launch
    BY <2>1 DEF StopInv, Launch, NoOutcome, OutcomeOf
  <2>2. CASE SpawnFails
    BY <2>2 DEF StopInv, SpawnFails, Restart, OutcomeOf
  <2>3. CASE LaunchFails
    BY <1>1, <2>3 DEF SafetyInv, StopInv, LaunchFails, RunFails
  <2> QED
    BY <2>1, <2>2, <2>3
<1> QED
  BY <1>3, <1>4, <1>5, <1>6, <1>7 DEF SafetyInv

\* The restart policy.
LEMMA ApplySafety ==
  ASSUME TypeOK, SafetyInv, ResolveExit \/ ApplyStop \/ ApplyPause \/ ApplyRestart
  PROVE  SafetyInv'
<1>1. /\ pc = "outcome" /\ child = "none" /\ child' = "none"
      /\ UNCHANGED <<config, launches>>
  BY DEF SafetyInv, OneJvm, InRun, ResolveExit, ApplyStop, ApplyPause,
         ApplyRestart, jvm, history
<1>2. OneJvm'
  BY <1>1 DEF OneJvm
<1>3. CASE ResolveExit
  <2>1. StopInv'
    BY <1>1, <1>3 DEF ResolveExit, StopInv, StopOutcome, PauseOutcome, Restart,
                      OutcomeOf
  <2>2. ThrottleInv' /\ NumberInv' /\ DisabledInv'
    BY <1>1, <1>3 DEF SafetyInv, ResolveExit, ThrottleInv, Throttled, MaxFailed,
                      NumberInv, DisabledInv, outer, history
  <2> QED
    BY <1>2, <2>1, <2>2 DEF SafetyInv
<1>4. CASE ApplyStop
  <2>1. pc' = "returned" /\ UNCHANGED <<outcome, streak>>
    BY <1>4 DEF ApplyStop, Returned, history
  <2> QED
    BY <1>1, <1>2, <2>1
       DEF SafetyInv, ThrottleInv, Throttled, MaxFailed, NumberInv, DisabledInv,
           StopInv, Waiting, InRun, StartupWaits
<1>5. CASE ApplyPause
  <2>1. outcome.kind # "Stop" /\ UNCHANGED <<outcome, jvm_id>>
    BY <1>5 DEF ApplyPause
  <2> QED
    BY <1>1, <1>2, <1>5, <2>1, MaxFailedPositive
       DEF SafetyInv, ApplyPause, ThrottleInv, Throttled, MaxFailed, NumberInv,
           DisabledInv, StopInv, Waiting, InRun, StartupWaits
<1>6. CASE ApplyRestart
  <2>1. StopInv'
    BY <1>6 DEF ApplyRestart, StopInv
  <2>2. /\ streak = failed_invocations + 1
        /\ streak <= MaxFailed
        /\ jvm_id = launches
    BY <1>1 DEF SafetyInv, ThrottleInv, Throttled, NumberInv
  <2>3. MaxFailed' = MaxFailed
    BY <1>1 DEF MaxFailed
  <2>4. pc' \in {"returned", "restart_delay", "launch"}
    BY <1>6 DEF ApplyRestart, Returned
  <2>5. CASE pc' = "returned"
    <3>1. streak' <= MaxFailed
      BY <1>6, <2>2, MaxFailedPositive DEF ApplyRestart
    <3> QED
      BY <1>2, <2>1, <2>3, <2>5, <3>1
         DEF SafetyInv, ThrottleInv, Throttled, NumberInv, DisabledInv, Waiting,
             InRun, StartupWaits
  <2>6. CASE pc' # "returned"
    <3>1. /\ ~RestartsDisabled /\ ~GivesUp
          /\ failed_invocations' = FailedNow
          /\ streak' = IF outcome.long THEN 0 ELSE streak
          /\ jvm_id' = NextJvmId
      BY <1>6, <2>6 DEF ApplyRestart, Returned
    <3>2. streak' = failed_invocations' /\ failed_invocations' < MaxFailed
      BY <2>2, <3>1, MaxFailedPositive DEF FailedNow, GivesUp, TypeOK
    <3>3. ThrottleInv'
      <4>1. failed_invocations' \in Nat /\ MaxFailed \in Nat
        BY <3>1, MaxFailedPositive DEF FailedNow, TypeOK
      <4>2. streak' <= MaxFailed
        BY <3>2, <4>1
      <4> QED
        BY <2>3, <2>4, <2>6, <3>2, <4>2
           DEF ThrottleInv, Throttled, Waiting, InRun, StartupWaits
    <3>4. NumberInv'
      BY <1>1, <2>2, <2>4, <2>6, <3>1 DEF NumberInv, NextJvmId, InRun, StartupWaits
    <3>5. DisabledInv'
      BY <1>1, <3>1 DEF DisabledInv, RestartsDisabled
    <3> QED
      BY <1>2, <2>1, <3>3, <3>4, <3>5 DEF SafetyInv
  <2> QED
    BY <2>5, <2>6
<1> QED
  BY <1>3, <1>4, <1>5, <1>6

\* The JVM and the control senders touch none of it, except that a child
\* may exit.
LEMMA EnvironmentSafety ==
  ASSUME SafetyInv,
         \/ JvmStep
         \/ \E control \in Requests : PostControl(control)
         \/ UNCHANGED vars
  PROVE  SafetyInv'
<1>1. /\ UNCHANGED <<config, pc, jvm_id, failed_invocations, resuming, outcome,
                     result, job, launches, streak>>
      /\ child' = child \/ child = "alive"
  BY DEF JvmStep, JvmDials, JvmSends, JvmHangsUp, JvmExits, JvmChannelStep,
         PostControl, vars, outer, history, jvm
<1>2. OneJvm'
  BY <1>1 DEF SafetyInv, OneJvm
<1> QED
  BY <1>1, <1>2 DEF SafetyInv, ThrottleInv, Throttled, MaxFailed, NumberInv,
                    DisabledInv, StopInv

LEMMA NextSafety == TypeOK /\ SafetyInv /\ [Next]_vars => SafetyInv'
<1> SUFFICES ASSUME TypeOK, SafetyInv, [Next]_vars PROVE SafetyInv'
  OBVIOUS
<1>1. CASE SupervisorStep
  BY <1>1, InvocationSteps, InvocationSafety, RunSafety, LaunchSafety, ApplySafety
     DEF SupervisorStep
<1> QED
  BY <1>1, EnvironmentSafety DEF Next, Terminated

-----------------------------------------------------------------------------
(* The safety properties, for every value of the constants.                *)

LEMMA SafetyInvariant == Spec => []SafetyInv
  BY TypeCorrect, InitSafety, NextSafety, PTL DEF Spec

\* No invocation ends over a living JVM: there is never a second JVM beside
\* the first, and only an error outside a job object can leave one behind.
THEOREM AtMostOneJvm == Spec => []OneJvm
<1>1. SafetyInv => OneJvm
  BY DEF SafetyInv
<1> QED
  BY <1>1, SafetyInvariant, PTL

\* The launch loop gives up after max_failed_invocations short runs in a row.
THEOREM RestartsAreThrottled == Spec => []Throttled
<1>1. SafetyInv => Throttled
  BY DEF SafetyInv, ThrottleInv
<1> QED
  BY <1>1, SafetyInvariant, PTL

\* The number written to wrapper.java.idfile counts the launches.
THEOREM InvocationsAreNumbered == Spec => []JvmIdCountsLaunches
<1>1. SafetyInv => JvmIdCountsLaunches
  BY DEF SafetyInv, NumberInv, JvmIdCountsLaunches
<1> QED
  BY <1>1, SafetyInvariant, PTL

\* wrapper.disable_restarts leaves resuming as the only way to a new JVM.
THEOREM RestartsStayDisabled == Spec => []DisabledRestarts
<1>1. SafetyInv => DisabledRestarts
  BY DEF SafetyInv, DisabledInv, DisabledRestarts
<1> QED
  BY <1>1, SafetyInvariant, PTL

\* A step that finds a stop decided neither launches a JVM nor changes the decision.
LEMMA StopFinalStep ==
  ASSUME TypeOK, SafetyInv, [Next]_vars, outcome.kind = "Stop"
  PROVE  launches' = launches /\ outcome' = outcome
<1>1. /\ pc \in {"stopping", "dump_grace", "outcome", "returned"}
      /\ outcome.long = FALSE
  BY DEF SafetyInv, StopInv
<1>2. CASE EventLoop \/ DumpDone \/ ChildStopped \/ ShutdownTimeout \/ IoError
  <2>1. InvocationStep
    BY <1>2, InvocationSteps
  <2> QED
    BY <1>1, <2>1 DEF InvocationStep, InRun
<1>3. CASE ApplyStop
  BY <1>3 DEF ApplyStop, history
<1>4. CASE \/ JvmStep \/ UNCHANGED vars
           \/ \E control \in Requests : PostControl(control)
  BY <1>4 DEF JvmStep, JvmDials, JvmSends, JvmHangsUp, JvmExits, JvmChannelStep,
              PostControl, vars, history
<1>5. CASE \/ Start \/ StartFails \/ DelayControl \/ DelayElapsed
           \/ PausedControl \/ Launch \/ SpawnFails \/ LaunchFails
           \/ ResolveExit \/ ApplyPause \/ ApplyRestart
  BY <1>1, <1>5 DEF Start, StartFails, DelayControl, DelayElapsed, PausedControl,
                    Launch, SpawnFails, LaunchFails, ResolveExit, ApplyPause,
                    ApplyRestart
<1> QED
  BY <1>2, <1>3, <1>4, <1>5 DEF Next, SupervisorStep, Terminated

\* Once a stop is decided, no step launches a JVM or changes the decision.
THEOREM StopStaysFinal == Spec => StopIsFinal
<1> DEFINE Final == outcome.kind = "Stop" =>
                      launches' = launches /\ outcome' = outcome
<1>1. ASSUME TypeOK, SafetyInv, [Next]_vars PROVE [Final]_vars
  BY <1>1, StopFinalStep
<1> QED
  BY <1>1, TypeCorrect, SafetyInvariant, PTL DEF Spec, StopIsFinal

-----------------------------------------------------------------------------
(* The inductive invariant, in named parts.                                *)

Up == pc \in InRun /\ started /\ ~paused_in_place
ShowsUp(queue) == queue # <<>> /\ queue[Len(queue)] # "ServicePaused"

\* A pause is decided and announced only by a pausable service.
PauseInv ==
  /\ outcome.kind = "Pause" => config.pausable
  /\ \A i \in DOMAIN events : events[i] = "ServicePaused" => config.pausable

\* Stopped is reported when nothing is left that could report another state.
StoppedInv ==
  scm = "Stopped" => pc = "returned" /\ events = <<>> /\ handler = Idle

\* The last thing said of an application that is up is not a pause, unless an
\* event was dropped.
UpInv ==
  Up /\ ~dropped =>
    IF events = <<>> THEN scm \notin {"StartPending", "Paused"} ELSE ShowsUp(events)

HostInv ==
  /\ TypeOK /\ SafetyInv /\ HostTypeOK
  /\ handler.control \in Requests \cup {"Stop"}
  /\ PauseInv /\ StoppedInv /\ UpInv

\* The controls under way are some of those delivered, and a stop that is shown as
\* pending is in the handler, in the channel, or decided.
Handling == IF handler.step = "idle" THEN 0 ELSE 1

StopPendingInv ==
  /\ Len(controls) + Handling <= requested
  /\ scm = "StopPending" =>
       \/ handler.step = "reported" /\ handler.control = "Stop"
       \/ \E i \in DOMAIN controls : controls[i] = "Stop"
       \/ outcome.kind = "Stop"
       \/ pc = "returned"

-----------------------------------------------------------------------------
(* What the steps of the supervisor and of the JVM do to the parts of the  *)
(* state the host looks at.                                                *)

USE DEF outer, history, jvm, telemetry

\* The state the SCM is shown stays within reach of what the supervisor does.
Shown ==
  /\ config' = config
  /\ PauseInv'
  /\ Up' /\ ~dropped' => ~dropped /\ ((Up /\ events' = events) \/ ShowsUp(events'))

\* An event is added at the end, or the loss is recorded.
LEMMA PublishEffect ==
  ASSUME TypeOK, NEW event \in Event, Publish(event)
  PROVE  /\ \A i \in DOMAIN events' :
              (i \in DOMAIN events /\ events'[i] = events[i]) \/ events'[i] = event
         /\ ~dropped' => ~dropped /\ events' = Append(events, event)
<1>1. events \in Seq(Event)
  BY DEF TypeOK
<1>2. events' = Append(events, event) \/ events' = events
  BY DEF Publish, Publications
<1>3. dropped' \/ (~dropped /\ events' # events)
  BY Zenon DEF Publish
<1>4. \A i \in DOMAIN events' :
        (i \in DOMAIN events /\ events'[i] = events[i]) \/ events'[i] = event
  BY <1>1, <1>2
<1> QED
  BY <1>2, <1>3, <1>4, Zenon

\* An announced pause keeps PauseInv where the service is pausable.
LEMMA PublishPauses ==
  ASSUME TypeOK, PauseInv, NEW event \in Event, Publish(event), config' = config,
         event = "ServicePaused" => config.pausable,
         outcome'.kind = "Pause" => config.pausable
  PROVE  PauseInv'
  BY PublishEffect DEF PauseInv

\* An event that is no pause shows an application that is up.
LEMMA PublishShows ==
  ASSUME TypeOK, NEW event \in Event, Publish(event), event # "ServicePaused", ~dropped'
  PROVE  ~dropped /\ ShowsUp(events')
<1>1. events \in Seq(Event)
  BY DEF TypeOK
<1>2. ~dropped /\ events' = Append(events, event)
  BY PublishEffect
<1> QED
  BY <1>1, <1>2 DEF ShowsUp

\* run_once returns: nothing is up any more.
LEMMA RunReturnsShown ==
  ASSUME TypeOK, PauseInv, NEW out \in Outcome, RunReturns(out),
         out.kind = "Pause" => config.pausable
  PROVE  Shown /\ outcome'.kind = out.kind /\ pc' = "outcome"
<1>1. outcome'.kind = out.kind
  <2>1. PICK long : outcome' = [out EXCEPT !.long = long]
    BY DEF RunReturns
  <2> QED
    BY <2>1 DEF Outcome
<1>2. pc' = "outcome" /\ config' = config /\ ~started'
  BY DEF RunReturns
<1>3. PauseInv'
  <2>1. CASE out.kind = "Pause"
    <3>1. Publish("ServicePaused")
      BY <2>1 DEF RunReturns
    <3> QED
      BY <1>1, <1>2, <2>1, <3>1, PublishPauses DEF Event
  <2>2. CASE out.kind # "Pause"
    BY <1>1, <1>2, <2>2 DEF RunReturns, PauseInv
  <2> QED
    BY <2>1, <2>2
<1> QED
  BY <1>1, <1>2, <1>3 DEF Shown, Up

\* An error ends the run: nothing is announced.
LEMMA RunFailsShown ==
  ASSUME TypeOK, PauseInv, RunFails
  PROVE  Shown
  BY DEF RunFails, Shown, PauseInv, Up

\* shutdown_and_drain announces nothing before run_once returns.
LEMMA ShutdownShown ==
  ASSUME TypeOK, PauseInv, pc = "running", NEW ch, NEW out \in Outcome,
         ShutdownAndDrain(ch, out), out.kind = "Pause" => config.pausable
  PROVE  Shown /\ outcome'.kind = out.kind
<1>1. CASE RunReturns(out)
  BY <1>1, RunReturnsShown
<1>2. CASE ~RunReturns(out)
  BY <1>2 DEF ShutdownAndDrain, Shown, PauseInv, Up, InRun
<1> QED
  BY <1>1, <1>2

\* The steps of the event loop that announce nothing.
LEMMA SilentShown ==
  ASSUME PauseInv, pc = "running",
         \/ SendOnly \/ Ignore \/ RequestThreadDump
         \/ \E ch : Continue(ch) /\ UNCHANGED <<telemetry, started, paused_in_place>>
  PROVE  Shown
  BY DEF SendOnly, Ignore, RequestThreadDump, Continue, Shown, PauseInv, Up, InRun

\* pause() of a pausable service.
LEMMA PauseShown ==
  ASSUME TypeOK, PauseInv, pc = "running", PauseJvm, config.pausable
  PROVE  Shown
<1>1. CASE config.stop_jvm
  BY <1>1, ShutdownShown, ConstantsTyped DEF PauseJvm
<1>2. CASE ~config.stop_jvm
  <2>1. PICK s \in Sends(channel) :
          /\ Continue(s.ch)
          /\ IF s.ok THEN paused_in_place' = TRUE /\ Publish("ServicePaused")
                     ELSE UNCHANGED <<paused_in_place, telemetry>>
          /\ UNCHANGED started
    BY <1>2 DEF PauseJvm
  <2>2. config' = config /\ outcome' = outcome /\ pc' = pc
    BY <2>1 DEF Continue
  <2>3. CASE s.ok
    <3>1. PauseInv'
      BY <2>1, <2>2, <2>3, PublishPauses DEF Event
    <3> QED
      BY <2>1, <2>2, <2>3, <3>1 DEF Shown, Up
  <2>4. CASE ~s.ok
    BY <2>1, <2>2, <2>4 DEF Shown, PauseInv, Up
  <2> QED
    BY <2>3, <2>4
<1> QED
  BY <1>1, <1>2

\* resume() announces that the application is up again.
LEMMA ResumeShown ==
  ASSUME TypeOK, PauseInv, pc = "running", ResumeJvm
  PROVE  Shown
<1>1. PICK s \in Sends(channel) :
        /\ Continue(s.ch)
        /\ IF s.ok THEN paused_in_place' = FALSE /\ Publish("ServiceResumed")
                   ELSE UNCHANGED <<paused_in_place, telemetry>>
        /\ UNCHANGED started
  BY DEF ResumeJvm
<1>2. config' = config /\ outcome' = outcome /\ pc' = pc
  BY <1>1 DEF Continue
<1>3. CASE s.ok
  <2>1. Publish("ServiceResumed") /\ "ServiceResumed" \in Event
    BY <1>1, <1>3 DEF Event
  <2>2. PauseInv'
    BY <1>2, <2>1, PublishPauses DEF PauseInv
  <2>3. ~dropped' => ~dropped /\ ShowsUp(events')
    BY <2>1, PublishShows
  <2> QED
    BY <1>2, <2>2, <2>3 DEF Shown
<1>4. CASE ~s.ok
  BY <1>1, <1>2, <1>4 DEF Shown, PauseInv, Up
<1> QED
  BY <1>3, <1>4

\* JvmStarted, and ServiceResumed after it when the service was paused.
LEMMA StartedShown ==
  ASSUME TypeOK, PauseInv, UNCHANGED <<config, outcome>>,
         Publish("JvmStarted") \/ PublishBoth("JvmStarted", "ServiceResumed")
  PROVE  Shown
<1>1. CASE Publish("JvmStarted")
  <2>1. "JvmStarted" \in Event
    BY DEF Event
  <2>2. PauseInv'
    BY <1>1, <2>1, PublishPauses DEF PauseInv
  <2>3. ~dropped' => ~dropped /\ ShowsUp(events')
    BY <1>1, <2>1, PublishShows
  <2> QED
    BY <2>2, <2>3 DEF Shown
<1>2. CASE PublishBoth("JvmStarted", "ServiceResumed")
  <2>1. events \in Seq(Event)
    BY DEF TypeOK
  <2>2. PICK queue \in Publications(events, "JvmStarted") :
          /\ events' \in Publications(queue, "ServiceResumed")
          /\ dropped' = (dropped \/ queue = events \/ events' = queue)
    BY <1>2 DEF PublishBoth
  <2>3. queue = events \/ queue = Append(events, "JvmStarted")
    BY DEF Publications
  <2>4. events' = queue \/ events' = Append(queue, "ServiceResumed")
    BY <2>2 DEF Publications
  <2>5. queue \in Seq(Event)
    BY <2>1, <2>3 DEF Event
  <2>6. dropped' \/ (~dropped /\ events' # queue)
    BY <2>2, Zenon
  <2>7. \A i \in DOMAIN events' :
          \/ i \in DOMAIN events /\ events'[i] = events[i]
          \/ events'[i] \in {"JvmStarted", "ServiceResumed"}
    <3>1. \A i \in DOMAIN queue :
            (i \in DOMAIN events /\ queue[i] = events[i]) \/ queue[i] = "JvmStarted"
      BY <2>1, <2>3
    <3>2. \A i \in DOMAIN events' :
            (i \in DOMAIN queue /\ events'[i] = queue[i]) \/ events'[i] = "ServiceResumed"
      BY <2>4, <2>5
    <3> QED
      BY <3>1, <3>2
  <2>8. PauseInv'
    BY <2>7 DEF PauseInv
  <2>9. ~dropped' => ~dropped /\ ShowsUp(events')
    BY <2>4, <2>5, <2>6 DEF ShowsUp
  <2> QED
    BY <2>8, <2>9 DEF Shown
<1> QED
  BY <1>1, <1>2

\* Every step inside an invocation.
LEMMA InvocationShown ==
  ASSUME TypeOK, PauseInv,
         EventLoop \/ DumpDone \/ ChildStopped \/ ShutdownTimeout \/ IoError
  PROVE  Shown
<1>1. /\ 0 \in ExitCodes /\ 1 \in ExitCodes /\ status \in ExitCodes
      /\ outcome \in Outcome
  BY ExitCodeAssumption DEF TypeOK
<1>2. \A code \in ExitCodes :
        /\ StopOutcome(code) \in Outcome /\ StopOutcome(code).kind # "Pause"
        /\ Exited(code) \in Outcome /\ Exited(code).kind # "Pause"
        /\ \A automatic \in BOOLEAN :
             /\ Restart(automatic, code) \in Outcome
             /\ Restart(automatic, code).kind # "Pause"
  BY ConstantsTyped DEF StopOutcome, Exited, Restart, OutcomeOf
<1>3. CASE HandleControl
  <2>1. pc = "running"
    BY <1>3 DEF HandleControl
  <2>2. CASE ShutdownAndDrain(channel, StopOutcome(0))
    BY <1>1, <1>2, <2>1, <2>2, ShutdownShown
  <2>3. CASE config.pausable /\ PauseJvm
    BY <2>1, <2>3, PauseShown
  <2>4. CASE ResumeJvm
    BY <2>1, <2>4, ResumeShown
  <2>5. CASE SendOnly \/ Ignore \/ RequestThreadDump
    BY <2>1, <2>5, SilentShown
  <2> QED
    BY <1>3, <2>2, <2>3, <2>4, <2>5, Zenon DEF HandleControl
<1>4. ASSUME NEW action \in FilterActions, HandleOutput(action)
      PROVE  Shown
  <2>1. pc = "running"
    BY <1>4 DEF HandleOutput
  <2>2. CASE \/ ShutdownAndDrain(channel, StopOutcome(0))
             \/ ShutdownAndDrain(channel, Restart(FALSE, 0))
    BY <1>1, <1>2, <2>1, <2>2, ShutdownShown
  <2>3. CASE config.pausable /\ PauseJvm
    BY <2>1, <2>3, PauseShown
  <2>4. CASE ResumeJvm
    BY <2>1, <2>4, ResumeShown
  <2>5. CASE SendOnly \/ RequestThreadDump
    BY <2>1, <2>5, SilentShown
  <2> QED
    BY <1>4, <2>2, <2>3, <2>4, <2>5, Zenon DEF HandleOutput
<1>5. CASE HandleProtocol
  <2> DEFINE packet == Head(channel.inbox)
             rest == [channel EXCEPT !.inbox = Tail(@)]
  <2>1. pc = "running" /\ packet \in Packet
    BY <1>5 DEF HandleProtocol, TypeOK, Channel
  <2>2. packet.arg \in ExitCodes
    BY <2>1 DEF Packet
  <2>3. CASE \/ ShutdownAndDrain(rest, Restart(FALSE, 0))
             \/ ShutdownAndDrain(rest, Exited(packet.arg))
    BY <1>1, <1>2, <2>1, <2>2, <2>3, ShutdownShown
  <2>4. CASE /\ Continue(rest)
             /\ Publish("JvmStarted") \/ PublishBoth("JvmStarted", "ServiceResumed")
    BY <2>4, StartedShown DEF Continue
  <2>5. CASE \E ch : Continue(ch) /\ UNCHANGED <<telemetry, started, paused_in_place>>
    BY <2>1, <2>5, SilentShown
  <2> QED
    BY <1>5, <2>3, <2>4, <2>5, Zenon DEF HandleProtocol
<1>6. CASE Tick
  <2>1. pc = "running"
    BY <1>6 DEF Tick
  <2>2. CASE RunReturns(Exited(status))
    BY <1>1, <1>2, <2>2, RunReturnsShown
  <2>3. ASSUME NEW ch, ShutdownAndDrain(ch, Restart(TRUE, 1))
        PROVE  Shown
    BY <1>1, <1>2, <2>1, <2>3, ShutdownShown
  <2>4. CASE \E ch : Continue(ch) /\ UNCHANGED <<telemetry, started, paused_in_place>>
    BY <2>1, <2>4, SilentShown
  <2>5. CASE RunFails
    BY <2>5, RunFailsShown
  <2> QED
    BY <1>6, <2>2, <2>3, <2>4, <2>5, Zenon DEF Tick
<1>7. CASE DumpDone
  BY <1>7 DEF DumpDone, Shown, PauseInv, Up, InRun
<1>8. CASE ChildStopped
  BY <1>1, <1>8, RunReturnsShown DEF ChildStopped, PauseInv
<1>9. CASE ShutdownTimeout
  <2>1. CASE RunReturns(outcome)
    BY <1>1, <2>1, RunReturnsShown DEF PauseInv
  <2>2. CASE ~RunReturns(outcome)
    BY <1>9, <2>2 DEF ShutdownTimeout, Shown, PauseInv, Up, InRun
  <2> QED
    BY <2>1, <2>2
<1>10. CASE IoError
  BY <1>10, RunFailsShown DEF IoError
<1> QED
  BY <1>3, <1>4, <1>5, <1>6, <1>7, <1>8, <1>9, <1>10 DEF EventLoop

\* Every step of the supervisor and of the JVM.
LEMMA SupervisorShown ==
  ASSUME TypeOK, PauseInv, SupervisorStep \/ JvmStep
  PROVE  Shown
<1>1. CASE EventLoop \/ DumpDone \/ ChildStopped \/ ShutdownTimeout \/ IoError
  BY <1>1, InvocationShown
<1>2. CASE Start
  <2>1. CASE config.pause_on_startup /\ config.pausable
    <3>1. Publish("ServicePaused") /\ pc' = "startup_paused"
          /\ UNCHANGED <<config, outcome>>
      BY <1>2, <2>1 DEF Start
    <3>2. PauseInv'
      BY <2>1, <3>1, PublishPauses DEF PauseInv, Event
    <3> QED
      BY <3>1, <3>2 DEF Shown, Up, InRun
  <2>2. CASE ~(config.pause_on_startup /\ config.pausable)
    BY <1>2, <2>2 DEF Start, AfterStartupPause, Shown, PauseInv, Up, InRun
  <2> QED
    BY <2>1, <2>2
<1>3. CASE StartFails \/ LaunchFails
  BY <1>3, RunFailsShown DEF StartFails, LaunchFails
<1>4. CASE Launch \/ SpawnFails
  <2>1. outcome'.kind # "Pause"
    <3>1. CASE Launch
      BY <3>1 DEF Launch, NoOutcome, OutcomeOf
    <3>2. CASE SpawnFails
      <4>1. PICK long : outcome' = [Restart(TRUE, 1) EXCEPT !.long = long]
        BY <3>2, Zenon DEF SpawnFails
      <4> QED
        BY <4>1 DEF Restart, OutcomeOf
    <3> QED
      BY <1>4, <3>1, <3>2
  <2>2. UNCHANGED <<config, telemetry>> /\ ~Up'
    BY <1>4 DEF Launch, SpawnFails, Up, InRun
  <2> QED
    BY <2>1, <2>2 DEF Shown, PauseInv
<1>5. CASE DelayControl \/ DelayElapsed \/ PausedControl
  BY <1>5 DEF DelayControl, DelayElapsed, PausedControl, Returned, AfterStartupPause,
              Shown, PauseInv, Up, InRun
<1>6. CASE ResolveExit
  BY <1>6 DEF ResolveExit, StopOutcome, PauseOutcome, Restart, OutcomeOf, Shown,
              PauseInv, Up, InRun
<1>7. CASE ApplyStop \/ ApplyPause \/ ApplyRestart
  BY <1>7 DEF ApplyStop, ApplyPause, ApplyRestart, Returned, Shown, PauseInv, Up, InRun
<1>8. CASE JvmStep
  BY <1>8 DEF JvmStep, JvmDials, JvmSends, JvmHangsUp, JvmExits, JvmChannelStep, Shown,
              PauseInv, Up
<1> QED
  BY <1>1, <1>2, <1>3, <1>4, <1>5, <1>6, <1>7, <1>8 DEF SupervisorStep

\* Controls are taken one by one, oldest first, and a stop that is taken is carried
\* out wherever the thread is.
LEMMA SupervisorTakes ==
  ASSUME TypeOK, PauseInv, SupervisorStep \/ JvmStep
  PROVE  \/ controls' = controls
         \/ /\ controls # <<>> /\ controls' = Tail(controls)
            /\ Head(controls) = "Stop" => pc' = "returned" \/ outcome'.kind = "Stop"
<1>1. CASE HandleControl
  <2>1. pc = "running" /\ controls # <<>> /\ controls' = Tail(controls)
    BY <1>1 DEF HandleControl
  <2>2. CASE Head(controls) = "Stop"
    <3>1. ShutdownAndDrain(channel, StopOutcome(0))
      BY <1>1, <2>2 DEF HandleControl
    <3>2. StopOutcome(0) \in Outcome /\ StopOutcome(0).kind = "Stop"
      BY ConstantsTyped, ExitCodeAssumption DEF StopOutcome, OutcomeOf
    <3> QED
      BY <2>1, <3>1, <3>2, ShutdownShown
  <2> QED
    BY <2>1, <2>2
<1>2. CASE DelayControl
  BY <1>2 DEF DelayControl, StopRequests, Returned
<1>3. CASE PausedControl
  BY <1>3 DEF PausedControl, StopRequests, Returned
<1>4. CASE JvmStep
  BY <1>4 DEF JvmStep, JvmDials, JvmSends, JvmHangsUp, JvmExits, JvmChannelStep
<1>5. CASE SupervisorStep /\ ~HandleControl /\ ~DelayControl /\ ~PausedControl
  BY <1>5 DEF SupervisorStep, EventLoop, Start, StartFails, DelayElapsed, Launch,
     SpawnFails, LaunchFails, HandleOutput, HandleProtocol, Tick, DumpDone,
     ChildStopped, ShutdownTimeout, IoError, ResolveExit, ApplyStop, ApplyPause,
     ApplyRestart
<1> QED
  BY <1>1, <1>2, <1>3, <1>4, <1>5

\* A run that has returned stays so, and announces nothing.
LEMMA ReturnedStays ==
  ASSUME SupervisorStep \/ JvmStep, pc = "returned"
  PROVE  pc' = "returned" /\ events' = events
<1>1. ~SupervisorStep
  BY DEF SupervisorStep, EventLoop, Start, StartFails, DelayControl, DelayElapsed,
     PausedControl, Launch, SpawnFails, LaunchFails, HandleControl, HandleOutput,
     HandleProtocol, Tick, DumpDone, ChildStopped, ShutdownTimeout, IoError,
     ResolveExit, ApplyStop, ApplyPause, ApplyRestart, InRun
<1> QED
  BY <1>1 DEF JvmStep, JvmDials, JvmSends, JvmHangsUp, JvmExits, JvmChannelStep

-----------------------------------------------------------------------------
(* The steps of the host keep the invariant.                               *)

\* The types of the host, and the controls its handler is given.
LEMMA HostTypeStep ==
  ASSUME HostInv, [HostNext]_allVars
  PROVE  HostTypeOK' /\ handler'.control \in Requests \cup {"Stop"}
<1> USE DEF HostInv, HostTypeOK, Handler, Idle
<1>1. Requests \subseteq Control
  BY RequestAssumption
<1>2. CASE \E control \in Requests : Deliver(control)
  <2>1. PICK control \in Requests : Deliver(control)
    BY <1>2
  <2>2. handler' = [step |-> "entered", control |-> control] /\ scm' = scm
        /\ requested < MaxRequests /\ requested' = requested + 1
    BY <2>1 DEF Deliver
  <2> QED
    BY <1>1, <2>2, MaxRequestsAssumption
<1>3. CASE HandlerReports
  BY <1>3 DEF HandlerReports, PendingState, ServiceState
<1>4. CASE HandlerPosts
  BY <1>4 DEF HandlerPosts, Control
<1>5. CASE Report
  BY <1>5 DEF Report, ReportedState, ServiceState
<1>6. CASE Finish
  BY <1>6 DEF Finish, ServiceState, Control
<1>7. CASE UNCHANGED hostVars
  BY <1>7 DEF hostVars
<1> QED
  BY <1>2, <1>3, <1>4, <1>5, <1>6, <1>7 DEF HostNext, AtRest, allVars

\* The supervisor's own invariant survives the host's threads.
LEMMA HostKeepsSupervisor ==
  ASSUME HostInv, [HostNext]_allVars
  PROVE  TypeOK' /\ SafetyInv'
<1>1. CASE Report
  <2>1. events \in Seq(Event) /\ events # <<>>
    BY <1>1 DEF HostInv, TypeOK, Report
  <2>2. events' \in Seq(Event)
    BY <1>1, <2>1 DEF Report
  <2>3. TypeOK'
    BY <1>1, <2>2 DEF HostInv, TypeOK, Report
  <2>4. SafetyInv'
    BY <1>1 DEF HostInv, Report, SafetyInv, OneJvm, ThrottleInv, Throttled, MaxFailed,
                NumberInv, DisabledInv, StopInv
  <2> QED
    BY <2>3, <2>4
<1>2. CASE [Next]_vars
  BY <1>2, NextType, NextSafety DEF HostInv
<1>3. CASE HandlerPosts
  <2>1. CASE pc # "returned" /\ Len(controls) < ControlCapacity
            /\ PostControl(handler.control)
    <3>1. TypeOK'
      <4>1. handler.control \in Control /\ controls \in Seq(Control)
        BY DEF HostInv, HostTypeOK, Handler, TypeOK
      <4>2. controls' \in Seq(Control)
        BY <2>1, <4>1 DEF PostControl
      <4> QED
        BY <2>1, <4>2 DEF HostInv, TypeOK, PostControl
    <3>2. SafetyInv'
      BY <2>1 DEF HostInv, PostControl, SafetyInv, OneJvm, ThrottleInv, Throttled,
                  MaxFailed, NumberInv, DisabledInv, StopInv
    <3> QED
      BY <3>1, <3>2
  <2>2. CASE UNCHANGED vars
    BY <1>2, <2>2
  <2> QED
    BY <1>3, <2>1, <2>2 DEF HandlerPosts, PostControl
<1> QED
  BY <1>1, <1>2, <1>3 DEF HostNext, Deliver, HandlerReports, Finish, AtRest, allVars, Next

\* What is announced and what is shown agree after every step.
LEMMA HostShows ==
  ASSUME HostInv, [HostNext]_allVars
  PROVE  PauseInv' /\ StoppedInv' /\ UpInv'
<1> USE DEF HostInv
<1>1. CASE (SupervisorStep \/ JvmStep) /\ UNCHANGED hostVars
  <2>1. Shown
    BY <1>1, SupervisorShown
  <2>2. StoppedInv'
    BY <1>1, ReturnedStays DEF StoppedInv, hostVars
  <2>3. UpInv'
    BY <1>1, <2>1 DEF Shown, UpInv, ShowsUp, hostVars
  <2> QED
    BY <2>1, <2>2, <2>3 DEF Shown
<1>2. CASE Report
  <2>1. events \in Seq(Event) /\ events # <<>>
    BY <1>2 DEF Report, TypeOK
  <2>2. /\ events' = Tail(events) /\ scm' = ReportedState(Head(events))
        /\ UNCHANGED <<config, pc, outcome, started, paused_in_place, dropped, handler>>
    BY <1>2 DEF Report
  <2>3. /\ \A i \in DOMAIN events' : i + 1 \in DOMAIN events /\ events'[i] = events[i + 1]
        /\ events' = <<>> => Head(events) = events[Len(events)]
        /\ events' # <<>> => events'[Len(events')] = events[Len(events)]
    <3>1. /\ Len(events) \in Nat \ {0} /\ Len(events') = Len(events) - 1
          /\ DOMAIN events = 1..Len(events) /\ DOMAIN events' = 1..(Len(events) - 1)
          /\ \A i \in 1..(Len(events) - 1) : events'[i] = events[i + 1]
          /\ Head(events) = events[1] /\ events' \in Seq(Event)
      BY <2>1, <2>2
    <3>2. events' = <<>> => Len(events) = 1
      BY <3>1
    <3>3. events' # <<>> => Len(events) - 1 \in 1..(Len(events) - 1)
      BY <3>1
    <3> QED
      BY <3>1, <3>2, <3>3
  <2>4. PauseInv'
    BY <2>2, <2>3 DEF PauseInv
  <2>5. StoppedInv'
    BY <2>2 DEF StoppedInv, ReportedState
  <2>6. UpInv'
    BY <2>1, <2>2, <2>3 DEF UpInv, Up, ShowsUp, ReportedState
  <2> QED
    BY <2>4, <2>5, <2>6
<1>3. CASE Finish
  BY <1>3 DEF Finish, ReporterDone, vars, PauseInv, StoppedInv, UpInv, Up, InRun
<1>4. CASE HandlerReports
  <2>1. scm # "Stopped" /\ UNCHANGED vars /\ scm' = PendingState(handler.control)
        /\ handler'.step = "reported"
    BY <1>4 DEF HandlerReports, StoppedInv, Idle, HostTypeOK, Handler
  <2>2. scm' \notin {"Stopped", "StartPending", "Paused"} \/ scm' = scm
    BY <2>1 DEF PendingState
  <2> QED
    BY <2>1, <2>2 DEF vars, PauseInv, StoppedInv, UpInv, Up, ShowsUp
<1>5. CASE HandlerPosts
  <2>1. UNCHANGED <<config, pc, outcome, started, paused_in_place, events, dropped, scm>>
        /\ handler' = Idle
    BY <1>5 DEF HandlerPosts, PostControl, vars
  <2> QED
    BY <2>1 DEF PauseInv, StoppedInv, UpInv, Up, ShowsUp
<1>6. CASE \E control \in Requests : Deliver(control)
  BY <1>6 DEF Deliver, Accepts, vars, PauseInv, StoppedInv, UpInv, Up, ShowsUp
<1>7. CASE UNCHANGED allVars
  BY <1>7 DEF allVars, vars, hostVars, PauseInv, StoppedInv, UpInv, Up, ShowsUp
<1> QED
  BY <1>1, <1>2, <1>3, <1>4, <1>5, <1>6, <1>7 DEF HostNext, AtRest

\* A service that starts satisfies the invariant.
LEMMA HostInitInv == HostInit => HostInv
<1> SUFFICES ASSUME HostInit PROVE HostInv
  OBVIOUS
<1>1. TypeOK /\ SafetyInv
  BY InitType, InitSafety DEF HostInit
<1>2. HostTypeOK /\ handler.control \in Requests \cup {"Stop"}
  BY MaxRequestsAssumption
     DEF HostInit, HostTypeOK, Handler, Idle, ServiceState, Control
<1>3. PauseInv /\ StoppedInv /\ UpInv
  BY DEF HostInit, Init, NoOutcome, OutcomeOf, PauseInv, StoppedInv, UpInv, Up
<1> QED
  BY <1>1, <1>2, <1>3 DEF HostInv

\* The invariant holds throughout.
LEMMA HostInvariant == HostSpec => []HostInv
<1>1. HostInv /\ [HostNext]_allVars => HostInv'
  BY HostTypeStep, HostKeepsSupervisor, HostShows DEF HostInv
<1> QED
  BY <1>1, HostInitInv, PTL DEF HostSpec

-----------------------------------------------------------------------------
(* The theorems.                                                           *)

\* What is proved of the supervisor alone holds with the SCM's threads around it:
\* there is never a second JVM, restarts are throttled and JVMs are numbered.
THEOREM HostedSupervisorIsSafe ==
  HostSpec => [](OneJvm /\ Throttled /\ JvmIdCountsLaunches /\ DisabledRestarts)
<1>1. HostInv => OneJvm /\ Throttled /\ JvmIdCountsLaunches /\ DisabledRestarts
  BY DEF HostInv, SafetyInv, ThrottleInv, NumberInv, JvmIdCountsLaunches, DisabledInv,
         DisabledRestarts
<1> QED
  BY <1>1, HostInvariant, PTL

\* A starting service is a starting service of ServiceStatus.
LEMMA StatusInit == HostInit => Status!Init
<1> SUFFICES ASSUME HostInit PROVE Status!Init
  OBVIOUS
<1>1. ConfigOK(config)
  BY ConfigTyped DEF HostInit, Init
<1> QED
  BY <1>1 DEF HostInit, Idle, ConfigOK, Status!Init

\* Each thread's step is one of ServiceStatus, or one the SCM does not see.
LEMMA StatusStep ==
  ASSUME HostInv, [HostNext]_allVars
  PROVE  [Status!Next]_(Status!statusVars)
<1> USE DEF HostInv, Status!statusVars
<1>1. CASE (SupervisorStep \/ JvmStep) /\ UNCHANGED hostVars
  BY <1>1, SupervisorShown DEF Shown, hostVars
<1>2. CASE \E control \in Requests : Deliver(control)
  <2>1. PICK control \in Requests : Deliver(control)
    BY <1>2
  <2>2. Status!Take(control)
    BY <2>1 DEF Deliver, Accepts, Idle, vars, Status!Take, Status!Accepts
  <2> QED
    BY <2>2, HostRequestAssumption DEF Status!Next
<1>3. CASE HandlerReports
  <2>1. handler'.step = "reported" /\ scm # "Stopped"
    BY <1>3 DEF HandlerReports, HostTypeOK, Handler, StoppedInv, Idle
  <2>2. handler.control # "none"
    BY DEF HostTypeOK, Handler, Control
  <2>3. Status!Pend
    BY <1>3, <2>1, <2>2
       DEF HandlerReports, PendingState, vars, Status!Pend, Status!PendingState
  <2> QED
    BY <2>3 DEF Status!Next
<1>4. CASE HandlerPosts
  BY <1>4 DEF HandlerPosts, PostControl, vars, Idle
<1>5. CASE Report
  <2>1. events \in Seq(Event) /\ events # <<>>
    BY <1>5 DEF Report, TypeOK
  <2>2. Head(events) = "ServicePaused" => config.pausable
    BY <2>1 DEF PauseInv
  <2>3. scm # "Stopped"
    BY <2>1 DEF StoppedInv
  <2>4. Status!Settle(ReportedState(Head(events)))
    BY <1>5, <2>2, <2>3 DEF Report, ReportedState, Status!Settle
  <2> QED
    BY <2>4 DEF ReportedState, Status!Next
<1>6. CASE Finish
  BY <1>6 DEF Finish, Idle, vars, Status!End, Status!Next
<1>7. CASE UNCHANGED allVars
  BY <1>7 DEF allVars, hostVars, vars
<1> QED
  BY <1>1, <1>2, <1>3, <1>4, <1>5, <1>6, <1>7 DEF HostNext, AtRest

\* The worker, with its handler, its reporter and its supervisor at work, implements
\* what ServiceStatus promises to the SCM.
THEOREM WorkerImplementsStatus == HostSpec => ImplementsStatus
  BY StatusInit, StatusStep, HostInvariant, PTL DEF HostSpec, ImplementsStatus, Status!Spec

\* With room for every control, a stop shown as pending is under way or decided.
LEMMA StopPendingStep ==
  ASSUME MaxRequests <= ControlCapacity, HostInv, StopPendingInv, [HostNext]_allVars
  PROVE  StopPendingInv'
<1> USE DEF HostInv
<1>1. /\ controls \in Seq(Control) /\ requested \in Nat /\ requested <= MaxRequests
      /\ MaxRequests \in Nat /\ ControlCapacity \in Nat
  BY MaxRequestsAssumption, BoundAssumption DEF TypeOK, HostTypeOK
<1>2. CASE (SupervisorStep \/ JvmStep) /\ UNCHANGED hostVars
  <2>1. \/ controls' = controls
        \/ /\ controls # <<>> /\ controls' = Tail(controls)
           /\ Head(controls) = "Stop" => pc' = "returned" \/ outcome'.kind = "Stop"
    BY <1>2, SupervisorTakes
  <2>2. outcome.kind = "Stop" => outcome'.kind = "Stop"
    BY <1>2, StopFinalStep DEF Next
  <2>3. pc = "returned" => pc' = "returned"
    BY <1>2, ReturnedStays
  <2>4. Len(controls') <= Len(controls)
    BY <1>1, <2>1
  <2>5. (\E i \in DOMAIN controls : controls[i] = "Stop") =>
          \/ \E i \in DOMAIN controls' : controls'[i] = "Stop"
          \/ pc' = "returned" \/ outcome'.kind = "Stop"
    <3>1. CASE controls' = controls
      BY <3>1
    <3>2. CASE controls # <<>> /\ controls' = Tail(controls)
      <4>1. \A i \in DOMAIN controls :
              \/ controls[i] = Head(controls)
              \/ i - 1 \in DOMAIN controls' /\ controls'[i - 1] = controls[i]
        BY <1>1, <3>2
      <4> QED
        BY <2>1, <3>2, <4>1
    <3> QED
      BY <2>1, <3>1, <3>2
  <2>6. Len(controls') + Handling' <= requested'
    <3>1. Len(controls) \in Nat /\ Len(controls') \in Nat /\ Handling' = Handling
      BY <1>1, <1>2, <2>1 DEF hostVars, Handling
    <3> QED
      BY <1>1, <1>2, <2>4, <3>1 DEF hostVars, StopPendingInv, Handling
  <2> QED
    BY <1>2, <2>2, <2>3, <2>5, <2>6 DEF hostVars, StopPendingInv
<1>3. CASE HandlerPosts
  <2>1. Handling = 1 /\ Len(controls) < ControlCapacity
    BY <1>1, <1>3 DEF HandlerPosts, Handling, StopPendingInv
  <2>2. Handling' = 0 /\ UNCHANGED <<scm, requested, outcome, pc>>
    BY <1>3 DEF HandlerPosts, PostControl, vars, Handling, Idle
  <2>3. CASE pc = "returned"
    BY <1>1, <1>3, <2>1, <2>2, <2>3 DEF HandlerPosts, vars, StopPendingInv
  <2>4. CASE pc # "returned"
    <3>1. controls' = Append(controls, handler.control)
      BY <1>1, <1>3, <2>1, <2>4 DEF HandlerPosts, PostControl
    <3>2. handler.control \in Control
      BY DEF HostTypeOK, Handler
    <3>3. /\ Len(controls') = Len(controls) + 1
          /\ \A i \in DOMAIN controls : i \in DOMAIN controls' /\ controls'[i] = controls[i]
          /\ Len(controls') \in DOMAIN controls'
          /\ controls'[Len(controls')] = handler.control
      BY <1>1, <3>1, <3>2
    <3> QED
      BY <1>1, <2>1, <2>2, <3>3 DEF StopPendingInv
  <2> QED
    BY <2>3, <2>4
<1>4. CASE HandlerReports
  <2>1. /\ UNCHANGED <<vars, requested>> /\ scm' = PendingState(handler.control)
        /\ handler'.step = "reported" /\ handler'.control = handler.control
        /\ handler.step = "entered"
    BY <1>4 DEF HandlerReports, HostTypeOK, Handler
  <2>2. scm' = "StopPending" => handler.control = "Stop" \/ scm = "StopPending"
    BY <2>1 DEF PendingState
  <2> QED
    BY <2>1, <2>2 DEF vars, StopPendingInv, Handling
<1>5. CASE \E control \in Requests : Deliver(control)
  <2>1. /\ UNCHANGED <<vars, scm>> /\ requested' = requested + 1
        /\ handler.step = "idle" /\ handler'.step = "entered" /\ scm # "StopPending"
    BY <1>5 DEF Deliver, Accepts, Idle
  <2> QED
    BY <1>1, <2>1 DEF vars, StopPendingInv, Handling
<1>6. CASE Report
  BY <1>6 DEF Report, ReportedState, StopPendingInv, Handling
<1>7. CASE Finish
  <2>1. UNCHANGED <<vars, requested>> /\ scm' = "Stopped" /\ Handling' = 0
    BY <1>7 DEF Finish, Handling, Idle
  <2> QED
    BY <1>1, <2>1 DEF vars, StopPendingInv, Handling
<1>8. CASE UNCHANGED allVars
  BY <1>8 DEF allVars, hostVars, vars, StopPendingInv, Handling
<1> QED
  BY <1>2, <1>3, <1>4, <1>5, <1>6, <1>7, <1>8 DEF HostNext, AtRest

\* An application that is up is not shown as starting, stopping, paused or stopped
\* once nothing is on its way, provided the control channel has room for every
\* control of the SCM.
THEOREM UpIsShownUp ==
  ASSUME MaxRequests <= ControlCapacity
  PROVE  HostSpec => []UpIsNotReportedDown
<1>1. HostInit => StopPendingInv
  BY DEF HostInit, Init, Idle, StopPendingInv, Handling
<1>2. HostInv /\ StopPendingInv /\ [HostNext]_allVars => StopPendingInv'
  BY StopPendingStep
<1>3. HostInv /\ StopPendingInv => UpIsNotReportedDown
  BY DEF HostInv, SafetyInv, StopInv, StoppedInv, UpInv, Up, InRun, StopPendingInv, Idle,
         Quiet, UpIsNotReportedDown
<1> QED
  BY <1>1, <1>2, <1>3, HostInvariant, PTL DEF HostSpec
=============================================================================
