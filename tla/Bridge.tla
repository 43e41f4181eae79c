-------------------------------- MODULE Bridge --------------------------------
(***************************************************************************)
(* One JVM and the wrapper that runs it, seen from the Java bridge         *)
(* (src/java/bridge): how the application is started and stopped, how the  *)
(* JVM comes to its end, and which exit code the wrapper's on_exit policy  *)
(* is given for it.                                                        *)
(*                                                                         *)
(* Inside the JVM the main thread, the application's thread, the control   *)
(* thread, StartStopApp's stop thread and the shutdown hook interleave;    *)
(* System.exit may be called from several of them.  The wrapper is         *)
(* JvmRun::event_loop reduced to what decides the outcome of this JVM.     *)
(***************************************************************************)
EXTENDS Integers, Sequences, FiniteSets

CONSTANTS
  Launchers,   \* subset of AllLaunchers: how the application is integrated
  Hooks,       \* "armed", or "none" with wrapper.disable_shutdown_hook
  Resets,      \* whether closing the JVM's socket may reset the connection
  AppCodes,    \* exit codes an application uses
  Room,        \* packets the channel holds before a write blocks
  MaxAsks,     \* packets the application sends of its own accord (a bound)
  NoCode       \* no exit code yet

\* Listener: Steward.start; Main: SimpleApp and JarApp; StartStop: StartStopApp,
\* StartStopWait: with waitForStopThreads.
AllLaunchers == {"Listener", "Main", "StartStop", "StartStopWait"}

ASSUME BridgeAssumption ==
  /\ Launchers \subseteq AllLaunchers
  /\ Hooks \subseteq {"none", "armed"} /\ Resets \in BOOLEAN
  /\ AppCodes \subseteq Int /\ NoCode \notin Int
  /\ Room \in Nat \ {0} /\ MaxAsks \in Nat

Codes == AppCodes \cup {0, 1}

VARIABLES
  launcher,   \* the class named by wrapper.java.mainclass
  main,       \* the JVM's main thread
  app,        \* the application's own non-daemon thread
  control,    \* the control thread and the exit code it carries
  stopper,    \* StartStopApp's stop thread
  hook,       \* the shutdown hook
  shutdown,   \* whether and how the JVM shuts down
  code,       \* the exit code of that shutdown
  flags,      \* the AtomicBooleans of BackendClient that are set
  exited,     \* exit code of the process once it has ended
  open,       \* the JVM's end of the socket is open
  linked,     \* the wrapper has not dropped its end
  toWrapper,  \* packets on their way to the event loop
  toJvm,      \* packets on their way to the control thread
  wrapper,    \* the supervisor thread: accepting, loop, waiting, done
  outcome,    \* what it has decided about this invocation
  asked,      \* history: exit codes passed to requestStop, in order
  asks,       \* history: packets the application has sent
  cause,      \* history: what began the shutdown
  killed,     \* history: the wrapper terminated the process
  broken      \* history: the channel or a callback failed on a running JVM

threads == <<main, app, control, stopper>>
ending == <<hook, shutdown, code, exited>>
socket == <<open, linked, toWrapper, toJvm>>
supervision == <<wrapper, outcome>>
history == <<asked, asks, cause, killed, broken>>
vars == <<launcher, threads, ending, flags, socket, supervision, history>>

Packet(kind, n) == [kind |-> kind, code |-> n]
Undecided == [kind |-> "None", code |-> NoCode]
Alive == exited = NoCode

Control(at, n) == [at |-> at, code |-> n]

\* Variants named ...Slip are wrong on purpose: each is what a definition would
\* be after a plausible mistake in the code, and breaks a property.

-----------------------------------------------------------------------------
(* BackendClient.send: a write blocks while the channel is full and        *)
(* sendQuietly ignores a failure.                                          *)
Send(packet) ==
  IF open /\ linked
  THEN Len(toWrapper) < Room /\ toWrapper' = Append(toWrapper, packet)
  ELSE UNCHANGED toWrapper

\* A socket closed with packets unread is reset: what is under way may be lost.
CloseSocket ==
  /\ open' = FALSE
  /\ \E k \in 0..Len(toWrapper) :
       /\ k < Len(toWrapper) => Resets
       /\ toWrapper' = SubSeq(toWrapper, 1, k)

\* System.exit(n).  The first call begins the shutdown; while one is under way
\* a call blocks, but Java 8 lets it replace the code of a shutdown that began
\* because no thread was left.
SystemExit(n, why) ==
  /\ \/ shutdown = "no" /\ shutdown' = "exit" /\ cause' = why /\ code' = n
     \/ shutdown # "no" /\ UNCHANGED <<shutdown, cause, code>>
     \/ shutdown = "destroy" /\ code' = n /\ UNCHANGED <<shutdown, cause>>
  /\ UNCHANGED <<hook, exited>>

-----------------------------------------------------------------------------
(* The main thread.                                                        *)

\* main of a launcher: bad arguments, a class that cannot be loaded and a
\* refused connection end the JVM before there is a hook or a control thread.
\* wrapper.disable_shutdown_hook leaves the hook out.
BootFails ==
  /\ Alive /\ main = "boot"
  /\ main' = "blocked"
  /\ SystemExit(1, "boot")
  /\ UNCHANGED <<launcher, app, control, stopper, flags, socket, supervision, asked,
                 asks, killed, broken>>

ConnectOrExit ==
  /\ Alive /\ main = "boot"
  /\ wrapper = "accepting"
  /\ main' = "awaiting"
  /\ control' = Control("reading", NoCode)
  /\ open' = TRUE
  /\ hook' \in Hooks
  /\ UNCHANGED <<launcher, app, stopper, flags, shutdown, code, exited, linked,
                 toWrapper, toJvm, supervision, history>>

\* Steward.start: what listener.start may do.  It may leave a thread running.
ListenerStarts ==
  /\ Alive /\ main = "starting"
  /\ app' \in {"none", "running"}
  /\ \/ \* null: keep running
        /\ Send(Packet("STARTED", NoCode))
        /\ main' = "end"
        /\ UNCHANGED <<flags, hook, shutdown, code, exited, asked, cause>>
     \/ \* an exit code: requestStop and return
        \E n \in AppCodes :
          /\ Send(Packet("STOP", n))
          /\ asked' = Append(asked, n)
          /\ main' = "end"
          /\ UNCHANGED <<flags, hook, shutdown, code, exited, cause>>
     \/ \* a RuntimeException
        /\ flags' = flags \cup {"abnormalExit"}
        /\ SystemExit(1, "crash")
        /\ main' = "blocked"
        /\ UNCHANGED <<toWrapper, asked>>
     \/ \* an Error, which Steward.start does not catch
        /\ main' = "failed"
        /\ UNCHANGED <<toWrapper, flags, hook, shutdown, code, exited, asked, cause>>
  /\ UNCHANGED <<launcher, control, stopper, open, linked, toJvm, supervision, asks,
                 killed, broken>>

-----------------------------------------------------------------------------
(* The control thread.                                                     *)

Reads == Alive /\ control.at = "reading" /\ "wrapperRequestedStop" \notin flags

TakesFrom(kind) ==
  /\ Reads /\ open
  /\ toJvm # <<>> /\ Head(toJvm).kind = kind
  /\ toJvm' = Tail(toJvm)

\* onStart: Steward.start releases its latch; the launchers start the thread.
HandleStart ==
  /\ TakesFrom("START")
  /\ IF launcher = "Listener"
     THEN /\ main' = "starting"
          /\ UNCHANGED <<app, control>>
     ELSE /\ app' = "running"
          /\ control' = Control("launching", NoCode)
          /\ UNCHANGED main
  /\ UNCHANGED <<launcher, stopper, ending, flags, open, linked, toWrapper,
                 supervision, history>>

\* The rest of onStart: reportStarted, then the latch the main thread awaits.
ReportStarted ==
  /\ Alive /\ control.at = "launching"
  /\ Send(Packet("STARTED", NoCode))
  /\ main' = "end"
  /\ control' = Control("reading", NoCode)
  /\ UNCHANGED <<launcher, app, stopper, ending, flags, open, linked, toJvm,
                 supervision, history>>

\* onPause, onResume, onControl: only a listener does something, and may throw.
\* Neither Steward nor startControlThread catches an Error: the thread dies.
HandleControlEvent ==
  /\ TakesFrom("CONTROL")
  /\ \/ UNCHANGED <<control, flags, broken>>
     \/ /\ launcher = "Listener"
        /\ "jvmShuttingDown" \notin flags
        /\ flags' = flags \cup {"abnormalExit"}
        /\ control' = Control("exiting", 1)
        /\ broken' = TRUE
     \/ /\ launcher = "Listener"
        /\ "jvmShuttingDown" \in flags
        /\ control' = Control("end", NoCode)
        /\ UNCHANGED <<flags, broken>>
     \/ /\ launcher = "Listener"
        /\ control' = Control("died", NoCode)
        /\ UNCHANGED <<flags, broken>>
  /\ UNCHANGED <<launcher, main, app, stopper, ending, open, linked, toWrapper,
                 supervision, asked, asks, cause, killed>>

\* STOP: the flag is set before onStop runs.
HandleStop ==
  /\ TakesFrom("STOP")
  /\ flags' = flags \cup {"wrapperRequestedStop"}
  /\ LET n == Head(toJvm).code IN
     CASE launcher = "Listener" ->
            control' = Control("callback", n) /\ UNCHANGED stopper
       [] launcher = "Main" ->
            control' = Control("reporting", n) /\ UNCHANGED stopper
       [] OTHER ->
            control' = Control("joining", n) /\ stopper' = "running"
  /\ UNCHANGED <<launcher, main, app, ending, open, linked, toWrapper, supervision,
                 history>>

\* listener.stop(n) returns a code or throws a RuntimeException, for which onStop
\* has a code; an Error ends the thread before it reports or exits.
ListenerStops ==
  /\ Alive /\ control.at = "callback"
  /\ \/ \E n \in Codes \cup {IF control.code = 0 THEN 1 ELSE control.code} :
          control' = Control("reporting", n)
     \/ control' = Control("died", NoCode)
  /\ UNCHANGED <<launcher, main, app, stopper, ending, flags, socket, supervision,
                 history>>

\* StartStopApp's stop thread: stopMain returns, or throws into invokeMain.
StopMainEnds ==
  /\ Alive /\ stopper = "running"
  /\ \/ /\ stopper' = "ended"
        /\ UNCHANGED <<flags, hook, shutdown, code, exited, cause>>
     \/ /\ stopper' = "blocked"
        /\ flags' = flags \cup {"abnormalExit"}
        /\ SystemExit(1, "crash")
  /\ UNCHANGED <<launcher, main, app, control, socket, supervision, asked, asks,
                 killed, broken>>

\* stopThread.join(), then waitForApplicationThreads when configured.
Joined ==
  /\ Alive /\ control.at = "joining"
  /\ stopper = "ended"
  /\ control' = Control(IF launcher = "StartStopWait" THEN "waiting" ELSE "reporting",
                        control.code)
  /\ UNCHANGED <<launcher, main, app, stopper, ending, flags, socket, supervision,
                 history>>

\* Non-daemon threads that have not ended; one that called System.exit never
\* does.  The main thread turns into DestroyJavaVM, which is not counted.
Busy ==
  \/ app \in {"running", "blocked"}
  \/ main \notin {"end", "failed"}
  \/ stopper \in {"running", "blocked"}

ThreadsGone ==
  /\ Alive /\ control.at = "waiting"
  /\ ~Busy
  /\ control' = Control("reporting", control.code)
  /\ UNCHANGED <<launcher, main, app, stopper, ending, flags, socket, supervision,
                 history>>

ReportStopped ==
  /\ Alive /\ control.at = "reporting"
  /\ IF "stoppedSent" \in flags THEN UNCHANGED toWrapper
     ELSE Send(Packet("STOPPED", control.code))
  /\ flags' = flags \cup {"stoppedSent"}
  /\ control' = Control("exiting", control.code)
  /\ UNCHANGED <<launcher, main, app, stopper, ending, open, linked, toJvm,
                 supervision, history>>

ControlNeverExitsSlip ==
  /\ Alive /\ control.at = "exiting"
  /\ control' = Control("end", NoCode)
  /\ UNCHANGED <<launcher, main, app, stopper, ending, flags, socket, supervision,
                 history>>

\* The System.exit that ends onStop, and the one of a failed control loop.
ControlExits ==
  /\ Alive /\ control.at = "exiting"
  /\ SystemExit(control.code,
                IF "wrapperRequestedStop" \in flags THEN "stop" ELSE "lost")
  /\ control' = Control("end", NoCode)
  /\ UNCHANGED <<launcher, main, app, stopper, flags, socket, supervision, asked,
                 asks, killed, broken>>

\* startControlThread's handler of an IOException: silent once a stop or the
\* shutdown has begun.
ExcusedByStopSlip == "wrapperRequestedStop" \in flags

Excused == flags \cap {"wrapperRequestedStop", "jvmShuttingDown"} # {}

FailedControl ==
  IF Excused
  THEN control' = Control("end", NoCode) /\ UNCHANGED flags
  ELSE control' = Control("exiting", 1) /\ flags' = flags \cup {"abnormalExit"}

ReadFailsSilentSlip ==
  /\ Reads /\ ~(open /\ linked)
  /\ control' = Control("end", NoCode)
  /\ UNCHANGED <<launcher, main, app, stopper, ending, flags, socket, supervision,
                 history>>

\* Either end of the socket is closed.
ReadFails ==
  /\ Reads /\ ~(open /\ linked)
  /\ FailedControl
  /\ UNCHANGED <<launcher, main, app, stopper, ending, socket, supervision, history>>

\* The read times out again and again and no packet of the wrapper has come
\* within ping.timeout + ping.interval.
PingTimesOut ==
  /\ Reads /\ open
  /\ FailedControl
  /\ broken' = TRUE
  /\ UNCHANGED <<launcher, main, app, stopper, ending, socket, supervision, asked,
                 asks, cause, killed>>

-----------------------------------------------------------------------------
(* The application.                                                        *)
Runs == Alive /\ (app = "running" \/ main = "starting")

AppAsks ==
  /\ Runs /\ asks < MaxAsks
  /\ asks' = asks + 1
  /\ \/ \E n \in AppCodes :                                  \* Steward.stop(n)
          /\ Send(Packet("STOP", n))
          /\ asked' = Append(asked, n)
     \/ \E kind \in {"RESTART", "LOG"} :        \* Steward.restart, Steward.log
          /\ Send(Packet(kind, NoCode))
          /\ UNCHANGED asked
  /\ UNCHANGED <<launcher, threads, ending, flags, open, linked, toJvm, supervision,
                 cause, killed, broken>>

\* System.exit called by the application itself.
AppExits ==
  /\ Runs
  /\ \E n \in AppCodes : SystemExit(n, "exit")
  /\ app' = IF app = "running" THEN "blocked" ELSE app
  /\ main' = IF app = "running" THEN main ELSE "blocked"
  /\ UNCHANGED <<launcher, control, stopper, flags, socket, supervision, asked, asks,
                 killed, broken>>

AppReturns ==
  /\ Alive /\ app = "running"
  /\ app' = "ended"
  /\ UNCHANGED <<launcher, main, control, stopper, ending, flags, socket,
                 supervision, history>>

\* invokeMain catches whatever main throws.
AppThrows ==
  /\ Alive /\ app = "running" /\ launcher # "Listener"
  /\ app' = "blocked"
  /\ flags' = flags \cup {"abnormalExit"}
  /\ SystemExit(1, "crash")
  /\ UNCHANGED <<launcher, main, control, stopper, socket, supervision, asked, asks,
                 killed, broken>>

-----------------------------------------------------------------------------
(* The end of the JVM.                                                     *)

\* No non-daemon thread is left: DestroyJavaVM.
DestroyJavaVM ==
  /\ Alive /\ shutdown = "no"
  /\ ~Busy
  /\ shutdown' = "destroy"
  /\ code' = IF main = "failed" THEN 1 ELSE 0
  /\ cause' = IF main = "failed" THEN "error" ELSE "return"
  /\ UNCHANGED <<launcher, threads, hook, exited, flags, socket, supervision, asked,
                 asks, killed, broken>>

\* onJvmShutdown: whether the wrapper is told that the application stopped.
TellsUnlessStoppedSlip == "wrapperRequestedStop" \notin flags

Tells == flags \cap {"wrapperRequestedStop", "abnormalExit"} = {}

HookSends ==
  /\ Alive /\ shutdown # "no" /\ hook = "armed"
  /\ hook' = "sent"
  /\ flags' = flags \cup {"jvmShuttingDown"}
  /\ IF Tells THEN Send(Packet("STOP", 0)) ELSE UNCHANGED toWrapper
  /\ UNCHANGED <<launcher, threads, shutdown, code, exited, open, linked, toJvm,
                 supervision, history>>

HookCloses ==
  /\ Alive /\ hook = "sent"
  /\ hook' = "done"
  /\ CloseSocket
  /\ UNCHANGED <<launcher, threads, shutdown, code, exited, flags, linked, toJvm,
                 supervision, history>>

\* All hooks have run.
Halt ==
  /\ Alive /\ shutdown # "no" /\ hook \in {"none", "done"}
  /\ exited' = code
  /\ IF open THEN CloseSocket ELSE UNCHANGED <<open, toWrapper>>
  /\ UNCHANGED <<launcher, threads, hook, shutdown, code, flags, linked, toJvm,
                 supervision, history>>

-----------------------------------------------------------------------------
(* The wrapper: JvmRun of this invocation.                                 *)

Decide(kind, n) == outcome' = [kind |-> kind, code |-> n]

\* terminate_child; on Windows the killed process ends with code 1.
Kill ==
  /\ exited' = IF Alive THEN 1 ELSE exited
  /\ killed' = (killed \/ Alive)
  /\ open' = FALSE
  /\ wrapper' = "done"

\* The code the application asked for is forwarded to the JVM.
StopPacketZeroSlip(n) == Packet("STOP", 0)

StopPacket(n) == Packet("STOP", n)

\* shutdown_and_drain: an exited child needs nothing, a child that cannot be
\* told is terminated, and any other is given shutdown.timeout.
ShutdownAndDrain(n) ==
  \/ /\ ~Alive
     /\ wrapper' = "done"
     /\ UNCHANGED <<exited, killed, open, linked, toJvm>>
  \/ /\ Alive                              \* no connection, or the write fails
     /\ Kill
     /\ linked' = FALSE
     /\ UNCHANGED toJvm
  \/ /\ Alive /\ linked /\ wrapper = "loop"
     /\ toJvm' = Append(toJvm, StopPacket(n))
     /\ wrapper' = "waiting"
     /\ UNCHANGED <<exited, killed, open, linked>>

\* tick authenticates the connection and sends START.
Authenticates ==
  /\ wrapper = "accepting" /\ open
  /\ wrapper' = "loop"
  /\ toJvm' = Append(toJvm, Packet("START", NoCode))
  /\ UNCHANGED <<launcher, threads, ending, flags, open, linked, toWrapper, outcome,
                 history>>

HandleProtocol ==
  /\ wrapper = "loop" /\ linked
  /\ toWrapper # <<>>
  /\ toWrapper' = Tail(toWrapper)
  /\ CASE Head(toWrapper).kind = "STOP" ->
            /\ ShutdownAndDrain(Head(toWrapper).code)
            /\ Decide("Exited", Head(toWrapper).code)
       [] Head(toWrapper).kind = "RESTART" ->
            ShutdownAndDrain(0) /\ Decide("Restart", 0)
       [] OTHER ->
            UNCHANGED <<exited, killed, open, linked, toJvm, supervision>>
  /\ UNCHANGED <<launcher, threads, hook, shutdown, code, flags, asked, asks, cause, broken>>

\* Disconnected is queued behind the last packet.
HandleDisconnected ==
  /\ wrapper = "loop" /\ linked /\ ~open
  /\ toWrapper = <<>>
  /\ linked' = FALSE
  /\ UNCHANGED <<launcher, threads, ending, flags, open, toWrapper, toJvm,
                 supervision, history>>

\* mark_disconnected after a failed write: the queue goes with the connection.
WriteFails ==
  /\ wrapper = "loop" /\ linked
  /\ linked' = FALSE
  /\ toWrapper' = <<>>
  /\ broken' = TRUE
  /\ UNCHANGED <<launcher, threads, ending, flags, open, toJvm, supervision, asked,
                 asks, cause, killed>>

\* PAUSE, RESUME and SERVICE_CONTROL (at most one under way: a bound).
SendControl ==
  /\ wrapper = "loop" /\ linked
  /\ \A i \in DOMAIN toJvm : toJvm[i].kind # "CONTROL"
  /\ toJvm' = Append(toJvm, Packet("CONTROL", NoCode))
  /\ UNCHANGED <<launcher, threads, ending, flags, open, linked, toWrapper,
                 supervision, history>>

\* tick finds that the child has exited.
NoticeExit ==
  /\ wrapper \in {"accepting", "loop"} /\ ~Alive
  /\ Decide("Exited", exited)
  /\ wrapper' = "done"
  /\ UNCHANGED <<launcher, threads, ending, flags, socket, history>>

\* A control, a filter action or a deadline ends the invocation.
EndInvocation ==
  /\ wrapper \in {"accepting", "loop"}
  /\ \E n \in {0, 1} : ShutdownAndDrain(n) /\ Decide("Decided", n)
  /\ UNCHANGED <<launcher, threads, hook, shutdown, code, flags, toWrapper, asked,
                 asks, cause, broken>>

\* wait_for_exit reads output only, no packets.
WaitEnds ==
  /\ wrapper = "waiting" /\ ~Alive
  /\ wrapper' = "done"
  /\ UNCHANGED <<launcher, threads, ending, flags, socket, outcome, history>>

ShutdownTimeout ==
  /\ wrapper = "waiting" /\ Alive
  /\ Kill
  /\ UNCHANGED <<launcher, threads, hook, shutdown, code, flags, linked, toWrapper,
                 toJvm, outcome, asked, asks, cause, broken>>

-----------------------------------------------------------------------------
Init ==
  /\ launcher \in Launchers
  /\ main = "boot" /\ app = "none" /\ stopper = "none"
  /\ control = Control("none", NoCode)
  /\ hook = "none" /\ shutdown = "no" /\ code = NoCode /\ exited = NoCode
  /\ flags = {}
  /\ open = FALSE /\ linked = TRUE /\ toWrapper = <<>> /\ toJvm = <<>>
  /\ wrapper = "accepting" /\ outcome = Undecided
  /\ asked = <<>> /\ asks = 0 /\ cause = "none" /\ killed = FALSE
  /\ broken = FALSE

MainThread == BootFails \/ ConnectOrExit \/ ListenerStarts

ControlThread ==
  \/ HandleStart \/ ReportStarted \/ HandleControlEvent \/ HandleStop
  \/ ListenerStops \/ Joined \/ ThreadsGone \/ ReportStopped
  \/ ControlExits \/ ReadFails

Application == AppAsks \/ AppExits \/ AppReturns \/ AppThrows

JvmEnds == DestroyJavaVM \/ HookSends \/ HookCloses \/ Halt

Wrapper ==
  \/ Authenticates \/ HandleProtocol \/ HandleDisconnected \/ WriteFails
  \/ SendControl \/ NoticeExit \/ EndInvocation \/ WaitEnds \/ ShutdownTimeout

\* The supervisor has returned from run_once.
Finished == wrapper = "done" /\ UNCHANGED vars

Next ==
  \/ MainThread \/ ControlThread \/ PingTimesOut \/ StopMainEnds \/ Application \/ JvmEnds
  \/ Wrapper \/ Finished

Spec == Init /\ [][Next]_vars

\* Threads that are not blocked go on; what the wrapper's event loop is given
\* it takes.  The callbacks listener.stop and stopMain return or throw, and where
\* waitForStopThreads is set the application's thread ends.  Nothing is assumed
\* of the rest of the application, of the wrapper's decisions and of its kills.
Fairness ==
  /\ WF_vars(ControlThread) /\ WF_vars(StopMainEnds) /\ WF_vars(JvmEnds)
  /\ WF_vars(control.at = "waiting" /\ AppReturns)
  /\ WF_vars(Authenticates) /\ WF_vars(HandleProtocol) /\ WF_vars(NoticeExit)

LiveSpec == Spec /\ Fairness

-----------------------------------------------------------------------------
(* Properties.                                                             *)

\* The variables that are true or false.
Booleans ==
  /\ open \in BOOLEAN /\ linked \in BOOLEAN
  /\ killed \in BOOLEAN /\ broken \in BOOLEAN

\* Every thread is at one of its places, every code and every packet is one that
\* can occur, and the channel stays within its room.
TypeOK ==
  /\ launcher \in Launchers
  /\ main \in {"boot", "awaiting", "starting", "blocked", "end", "failed"}
  /\ app \in {"none", "running", "blocked", "ended"}
  /\ control \in [at : {"none", "reading", "launching", "callback", "joining",
                        "waiting", "reporting", "exiting", "end", "died"},
                  code : Codes \cup {NoCode}]
  /\ stopper \in {"none", "running", "blocked", "ended"}
  /\ hook \in {"none", "armed", "sent", "done"}
  /\ shutdown \in {"no", "exit", "destroy"}
  /\ code \in Codes \cup {NoCode} /\ exited \in Codes \cup {NoCode}
  /\ flags \subseteq {"wrapperRequestedStop", "abnormalExit", "jvmShuttingDown",
                      "stoppedSent"}
  /\ toWrapper \in Seq([kind : {"STARTED", "STOPPED", "STOP", "RESTART", "LOG"},
                        code : Codes \cup {NoCode}])
  /\ Len(toWrapper) <= Room
  /\ toJvm \in Seq([kind : {"START", "CONTROL", "STOP"}, code : Codes \cup {NoCode}])
  /\ wrapper \in {"accepting", "loop", "waiting", "done"}
  /\ outcome \in [kind : {"None", "Exited", "Restart", "Decided"},
                  code : Codes \cup {NoCode}]
  /\ asked \in Seq(AppCodes) /\ asks \in 0..MaxAsks
  /\ cause \in {"none", "boot", "crash", "exit", "lost", "stop", "return", "error"}
  /\ Booleans

Asked == {asked[i] : i \in DOMAIN asked}
Verdict(n) == wrapper = "done" /\ outcome = [kind |-> "Exited", code |-> n]

\* The on_exit policy is given code 0 only for an application that returned,
\* called System.exit (whose code the bridge cannot see), asked for 0, or threw
\* an Error out of listener.start: never for one whose main threw, for a lost
\* channel or for a JVM that could not connect, in whatever order the hook's
\* packet and the exit of the process are noticed.
CleanVerdictIsEarned ==
  Verdict(0) => cause \in {"return", "exit", "error"} \/ 0 \in Asked

\* As long as threads of the application keep the JVM alive, a stop it asks for
\* is decided with the first code it asked for, and the process ends with it
\* where no listener chooses another.
AskedCodeIsForwarded ==
  wrapper = "done" /\ outcome.kind = "Exited" /\ asked # <<>>
    /\ cause \in {"none", "stop"} /\ ~broken
    => /\ outcome.code = asked[1]
       /\ launcher # "Listener" /\ ~killed => exited = asked[1]

\* An application that returns ends its JVM with code 0: the control thread does
\* not take the socket its own shutdown hook closed for a lost channel.
NormalExitIsClean ==
  cause = "return" /\ ~broken /\ ~killed /\ "wrapperRequestedStop" \notin flags
    => exited \in {NoCode, 0}

\* An Error out of a callback of the listener has ended the control thread.
ControlDied == control.at = "died"

\* A JVM that was sent STOP ends of its own accord, without being terminated,
\* unless it has filled the channel that wait_for_exit does not empty: then
\* BackendClient.send blocks with the monitor reportStopped needs.  Nor does it
\* when listener.stop or controlEvent threw an Error, which nothing catches: it
\* is then left to shutdown.timeout.
StopIsHonoured ==
  (wrapper = "waiting") ~> (~Alive \/ Len(toWrapper) = Room \/ ControlDied)

\* A JVM whose connection the wrapper has dropped ends, as long as the control
\* thread, which is to see that, has not died of an Error out of controlEvent:
\* then the comment of startControlThread, "Protocol failures terminate the JVM",
\* does not hold, and only the watchdog of the wrapper, if it is on, ends it.
LostChannelEndsJvm == (~linked /\ main # "boot") ~> (~Alive \/ ControlDied)
=============================================================================
