------------------------------- MODULE Watchdog -------------------------------
(***************************************************************************)
(* One JVM invocation with its clocks: the startup deadline, the pings and *)
(* the ping watchdog of JvmRun::tick (src/src/supervisor.rs), the thread   *)
(* dumps and heap dumps that get in their way, the waits of a shutdown,    *)
(* and the bridge in the JVM, which answers the pings and watches the      *)
(* wrapper in turn (BackendClient.java).                                   *)
(*                                                                         *)
(* Instants of the code become clocks that Elapse advances: age is the     *)
(* time since last_ping_response, ping_left the time until next_ping, and  *)
(* so on.  A unit of time is long against TICK_INTERVAL (50 ms), so a unit *)
(* does not pass before every source that is ready in the event loop has   *)
(* been served; which of them is served first is select!'s random choice.  *)
(***************************************************************************)
EXTENDS Integers

CONSTANTS
  PingInterval,     \* wrapper.ping.interval
  PingTimeout,      \* wrapper.ping.timeout, 0 disables the watchdog
  StartupTimeout,   \* wrapper.startup.timeout, 0 disables the deadline
  Hints,            \* wait hints of START_PENDING packets
  HeapTimeout,      \* jss.heapdump.timeout
  Jcmd,             \* thread dumps are taken with jcmd
  DumpTimeout,      \* jss.threaddump.timeout
  MaxDumps,         \* thread dumps requested in one behaviour (a bound)
  ShutdownTimeout,  \* wrapper.shutdown.timeout
  DumpOnExit,       \* wrapper.request_thread_dump_on_failed_jvm_exit
  DumpDelay,        \* ... .delay
  DrainTime,        \* longest drain_remaining_output
  StopMargin,       \* STOP_WAIT_MARGIN
  Latency,          \* longest time a healthy JVM takes to answer a ping
  ClockMax          \* where clocks that nothing reads any more stop (a bound)

ASSUME TimesAssumption ==
  /\ {PingTimeout, StartupTimeout, ShutdownTimeout, DumpDelay, DrainTime,
      StopMargin, Latency, MaxDumps, ClockMax} \subseteq Nat
  /\ {PingInterval, HeapTimeout, DumpTimeout} \subseteq Nat \ {0}
  /\ Hints \subseteq Nat \ {0}
  /\ Jcmd \in BOOLEAN /\ DumpOnExit \in BOOLEAN

VARIABLES
  loc,           \* where the supervisor thread is
  reason,        \* why the invocation ends
  link,          \* the control channel
  started,       \* STARTED was handled
  ever,          \* ever_connected
  age,           \* time since last_ping_response
  ping_left,     \* time until next_ping
  startup_left,  \* time until startup_deadline, Never when there is none
  heap,          \* the heap-dump task
  heap_left,     \* time left to its worker
  waited,        \* time spent in the wait loc stands for
  ticked,        \* tick ran in this unit of time
  health,        \* of the JVM: "well", "frozen" by a heap dump, or "hung"
  owed,          \* pings the JVM has not answered
  late,          \* history: for how long it has owed the oldest of them
  worst,         \* history: the largest value of late
  pongs,         \* PING packets in the connection's queue
  hello,         \* time the STARTED packet is queued, Never when it is not
  reported,      \* the JVM has sent STARTED
  silence,       \* bridge: time since lastWrapperPacketMillis
  lost,          \* history: time since the JVM hung or lost its channel
  stop_age,      \* time since Stop was posted, Never before
  dumps          \* thread dumps still to be requested

thread == <<loc, reason, waited>>
clocks == <<age, ping_left, startup_left>>
heapVars == <<heap, heap_left>>
jvmVars == <<health, owed, late, worst, reported, silence, lost>>
queue == <<pongs, hello>>
requests == <<stop_age, dumps>>
vars == <<thread, link, started, ever, clocks, heapVars, ticked, jvmVars, queue,
          requests>>

\* Variants named ...Slip are wrong on purpose: each is what a definition would
\* be after a plausible mistake in the code, and breaks a property.
Never == -1
Blocked == {"stopping", "stop_dump", "grace", "draining"}
Allowed == PingTimeout + PingInterval
Larger(a, b) == IF a >= b THEN a ELSE b
Connection == link \in {"up", "broken"}   \* self.connection.is_some()

-----------------------------------------------------------------------------
(* shutdown_and_drain: the invocation ends for reason r.                   *)

Wait(place) == loc' = place /\ waited' = 0

\* STOP is written if there is a connection; without one, or when the write
\* fails, the child is terminated at once.
EndWith(r, l) ==
  /\ reason' = r
  /\ \/ l \in {"up", "broken"} /\ Wait("stopping")
     \/ l # "up" /\ Wait("draining")

\* The child exits while the thread waits for it.
ChildExits ==
  /\ loc \in {"stopping", "grace"}
  /\ Wait("draining")
  /\ UNCHANGED <<reason, link, started, ever, clocks, heapVars, ticked, jvmVars,
                 queue, requests>>

\* The shutdown timeout: a thread dump if configured, then terminate_child.
ShutdownExpires ==
  /\ loc = "stopping"
  /\ waited = ShutdownTimeout
  /\ \/ ~DumpOnExit /\ Wait("draining")
     \/ DumpOnExit /\ Jcmd /\ Wait("stop_dump")
     \/ DumpOnExit /\ ~Jcmd /\ Wait("grace")
  /\ UNCHANGED <<reason, link, started, ever, clocks, heapVars, ticked, jvmVars,
                 queue, requests>>

StopDumpWaitsAgainSlip ==
  /\ loc = "stop_dump"
  /\ Wait("stopping") \/ Wait("draining")
  /\ UNCHANGED <<reason, link, started, ever, clocks, heapVars, ticked, jvmVars,
                 queue, requests>>

\* The blocking jcmd of a shutdown succeeds (grace period) or fails.
StopDumpDone ==
  /\ loc = "stop_dump"
  /\ Wait("grace") \/ Wait("draining")
  /\ UNCHANGED <<reason, link, started, ever, clocks, heapVars, ticked, jvmVars,
                 queue, requests>>

Grace == Larger(DumpDelay, 1)

GraceExpires ==
  /\ loc = "grace"
  /\ waited = Grace
  /\ Wait("draining")
  /\ UNCHANGED <<reason, link, started, ever, clocks, heapVars, ticked, jvmVars,
                 queue, requests>>

Drained ==
  /\ loc = "draining"
  /\ loc' = "ended"
  /\ UNCHANGED <<reason, waited, link, started, ever, clocks, heapVars, ticked,
                 jvmVars, queue, requests>>

-----------------------------------------------------------------------------
(* The event loop: tick.                                                   *)

\* poll_authentication at the start of a tick, and the START packet.
Authenticated == link = "dialled"

\* A ping is due and there is a connection to write it to.
PingDue(l) == l \in {"up", "broken"} /\ ping_left = 0

\* ever_connected, as this tick leaves it.
WatchedOnlineSlip(l) == l = "up"

Watched(l) == ever \/ l = "up"

ExtraNoneSlip(h) == 0

\* The watchdog waits longer while a heap dump runs.
Extra(h) == IF h = "running" THEN HeapTimeout ELSE 0

\* A child still running: connection, startup deadline, ping, watchdog, in
\* the order of the code.  h is the heap-dump task after poll_heap_dump, l
\* the channel after poll_authentication, l2 the channel after the ping.
Tick ==
  LET h == IF heap = "finished" THEN "none" ELSE heap
      l == IF Authenticated THEN "up" ELSE link
      since == IF Authenticated THEN 0 ELSE age
  IN /\ loc = "running"
     /\ ticked' = TRUE
     /\ heap' = h
     /\ ever' = Watched(l)
     /\ age' = since
     /\ silence' = IF Authenticated THEN 0 ELSE silence
     /\ IF ~started /\ startup_left = 0
          THEN /\ EndWith("startup", l)
               /\ link' = l
               /\ UNCHANGED <<ping_left, owed, queue>>
          ELSE \E l2 \in IF PingDue(l) /\ l = "broken" THEN {l, "gone"} ELSE {l} :
                 /\ link' = l2
                 /\ ping_left' = IF PingDue(l) THEN PingInterval ELSE ping_left
                 /\ owed' = IF PingDue(l) /\ l2 = "up" THEN owed + 1 ELSE owed
                 /\ IF l2 = "gone" /\ l # "gone"
                      THEN pongs' = 0 /\ hello' = Never
                      ELSE UNCHANGED queue
                 /\ IF PingTimeout > 0 /\ ever' /\ since > Allowed + Extra(h)
                      THEN EndWith("watchdog", l2)
                      ELSE UNCHANGED thread
     /\ UNCHANGED <<started, startup_left, heap_left, health, late, worst,
                    reported, lost, requests>>

-----------------------------------------------------------------------------
(* The event loop: packets and controls.                                   *)

HandlePongForgetfulSlip ==
  /\ loc = "running"
  /\ Connection /\ pongs > 0
  /\ pongs' = pongs - 1
  /\ UNCHANGED <<thread, link, started, ever, clocks, heapVars, ticked, jvmVars,
                 hello, requests>>

\* handle_protocol resets last_ping_response for every packet.
HandlePong ==
  /\ loc = "running"
  /\ Connection /\ pongs > 0
  /\ pongs' = pongs - 1
  /\ age' = 0
  /\ UNCHANGED <<thread, link, started, ever, ping_left, startup_left, heapVars,
                 ticked, jvmVars, hello, requests>>

HandleStartedKeepsDeadlineSlip ==
  /\ loc = "running"
  /\ Connection /\ hello # Never
  /\ hello' = Never
  /\ age' = 0
  /\ UNCHANGED <<thread, link, started, ever, ping_left, startup_left, heapVars,
                 ticked, jvmVars, pongs, requests>>

HandleStarted ==
  /\ loc = "running"
  /\ Connection /\ hello # Never
  /\ hello' = Never
  /\ age' = 0
  /\ started' = TRUE
  /\ startup_left' = Never
  /\ UNCHANGED <<thread, link, ever, ping_left, heapVars, ticked, jvmVars, pongs,
                 requests>>

\* START_PENDING moves the startup deadline to now + its wait hint; like every
\* packet it counts as a sign of life.  It is handled in the unit it is sent.
HandleStartPending(hint) ==
  /\ loc = "running"
  /\ link = "up" /\ health = "well" /\ ~reported
  /\ age' = 0
  /\ startup_left' = IF StartupTimeout > 0 THEN hint ELSE startup_left
  /\ UNCHANGED <<thread, link, started, ever, ping_left, heapVars, ticked, jvmVars,
                 queue, requests>>

\* Disconnected is the last item of the queue.
HandleDisconnected ==
  /\ loc = "running"
  /\ link = "broken" /\ pongs = 0 /\ hello = Never
  /\ link' = "gone"
  /\ UNCHANGED <<thread, started, ever, clocks, heapVars, ticked, jvmVars, queue,
                 requests>>

HandleStop ==
  /\ loc = "running"
  /\ stop_age # Never
  /\ EndWith("stop", link)
  /\ UNCHANGED <<link, started, ever, clocks, heapVars, ticked, jvmVars, queue,
                 requests>>

\* request_thread_dump with jcmd blocks the thread.
HandleThreadDump ==
  /\ loc = "running"
  /\ Jcmd /\ dumps > 0
  /\ dumps' = dumps - 1
  /\ Wait("dumping")
  /\ UNCHANGED <<reason, link, started, ever, clocks, heapVars, ticked, jvmVars,
                 queue, stop_age>>

DumpDone ==
  /\ loc = "dumping"
  /\ Wait("running")
  /\ UNCHANGED <<reason, link, started, ever, clocks, heapVars, ticked, jvmVars,
                 queue, requests>>

\* start_heap_dump: refused before STARTED and while a task is there.
HandleHeapDump ==
  /\ loc = "running"
  /\ started /\ heap = "none"
  /\ heap' = "running"
  /\ heap_left' = HeapTimeout
  /\ UNCHANGED <<thread, link, started, ever, clocks, ticked, jvmVars, queue,
                 requests>>

-----------------------------------------------------------------------------
(* The JVM, the heap-dump worker, the service control handler.             *)

\* The child exits on its own; the next tick would see it.
JvmLeaves(r) ==
  /\ reason' = r
  /\ Wait("draining")
  /\ UNCHANGED <<link, started, ever, clocks, heapVars, ticked, jvmVars, queue,
                 requests>>

JvmDials ==
  /\ link = "none" /\ health = "well" /\ loc \in {"running", "dumping"}
  /\ link' = "dialled"
  /\ UNCHANGED <<thread, started, ever, clocks, heapVars, ticked, jvmVars, queue,
                 requests>>

JvmReports ==
  /\ link = "up" /\ health = "well" /\ ~reported
  /\ reported' = TRUE
  /\ hello' = 0
  /\ UNCHANGED <<thread, link, started, ever, clocks, heapVars, ticked, health,
                 owed, late, worst, silence, lost, pongs, requests>>

\* controlLoop answers the pings that have arrived.
JvmAnswers ==
  /\ link = "up" /\ health = "well" /\ owed > 0
  /\ pongs' = pongs + owed
  /\ owed' = 0
  /\ late' = 0
  /\ silence' = 0
  /\ UNCHANGED <<thread, link, started, ever, clocks, heapVars, ticked, health,
                 worst, reported, lost, hello, requests>>

\* pingTimedOut: the bridge ends a JVM whose wrapper has gone silent.
\* It looks at the clock only when no packet is there to be read.
PingTimedOut ==
  /\ link = "up" /\ health = "well" /\ owed = 0
  /\ PingTimeout > 0 /\ silence > Allowed

BridgeGivesUp ==
  /\ loc \in {"running", "dumping"}
  /\ PingTimedOut
  /\ JvmLeaves("bridge")

\* The application ends by itself.
JvmDies ==
  /\ loc = "running"
  /\ JvmLeaves("exit")

JvmBreaks ==
  /\ link = "up" /\ lost = Never
  /\ \/ health' = "hung" /\ UNCHANGED link
     \/ health' = health /\ link' = "broken"
  /\ lost' = 0
  /\ UNCHANGED <<thread, started, ever, clocks, heapVars, ticked, owed, late, worst,
                 reported, silence, queue, requests>>

\* GC.heap_dump stops the application's threads, the control thread included,
\* for some of the time the worker runs.
Freeze ==
  /\ heap = "running" /\ health = "well"
  /\ health' = "frozen"
  /\ UNCHANGED <<thread, link, started, ever, clocks, heapVars, ticked, owed, late,
                 worst, reported, silence, lost, queue, requests>>

Thaw ==
  /\ health = "frozen"
  /\ health' = "well"
  /\ UNCHANGED <<thread, link, started, ever, clocks, heapVars, ticked, owed, late,
                 worst, reported, silence, lost, queue, requests>>

\* The worker is done, has failed, or kills jcmd at its deadline, which does
\* not thaw the JVM.
WorkerDone ==
  /\ loc \in {"running", "dumping"} /\ heap = "running"
  /\ heap' = "finished"
  /\ UNCHANGED <<thread, link, started, ever, clocks, heap_left, ticked, jvmVars,
                 queue, requests>>

PostStop ==
  /\ loc \in {"running", "dumping"} /\ stop_age = Never
  /\ stop_age' = 0
  /\ UNCHANGED <<thread, link, started, ever, clocks, heapVars, ticked, jvmVars,
                 queue, dumps>>

-----------------------------------------------------------------------------
(* Time.                                                                   *)

Up(clock) == IF clock < ClockMax THEN clock + 1 ELSE clock
UpIfSet(clock) == IF clock = Never THEN Never ELSE Up(clock)
Down(clock) == IF clock > 0 THEN clock - 1 ELSE clock

WaitLimit ==
  CASE loc = "dumping" -> DumpTimeout
    [] loc = "stop_dump" -> DumpTimeout
    [] loc = "stopping" -> ShutdownTimeout
    [] loc = "grace" -> Grace
    [] loc = "draining" -> DrainTime
    [] OTHER -> ClockMax

\* Nothing is due: the event loop has served its sources, no wait has reached
\* its limit, the healthy JVM has answered in time, the worker has time left.
NothingDue ==
  /\ loc = "running" =>
       /\ ticked /\ stop_age = Never
       /\ Connection => pongs = 0 /\ hello = Never
       /\ link # "broken"
  /\ loc # "running" => waited < WaitLimit
  /\ health = "well" /\ link = "up" /\ owed > 0 /\ loc \notin Blocked =>
       late < Latency
  /\ heap = "running" /\ loc \notin Blocked => heap_left > 0
  /\ loc \in {"running", "dumping"} => ~PingTimedOut

\* While a JVM is supervised all clocks run; once its invocation is ending,
\* only the wait and the patience of the service control manager.
Elapse ==
  /\ loc # "ended"
  /\ NothingDue
  /\ waited' = IF loc = "running" THEN waited ELSE waited + 1
  /\ stop_age' = UpIfSet(stop_age)
  /\ IF loc \in Blocked
       THEN UNCHANGED <<clocks, heap_left, ticked, late, worst, hello, silence, lost>>
       ELSE /\ age' = Up(age)
            /\ ping_left' = Down(ping_left)
            /\ startup_left' = Down(startup_left)
            /\ heap_left' = IF heap = "running" THEN Down(heap_left) ELSE heap_left
            /\ ticked' = FALSE
            /\ late' = IF owed > 0 THEN Up(late) ELSE late
            /\ worst' = Larger(worst, late')
            /\ hello' = UpIfSet(hello)
            /\ silence' = Up(silence)
            /\ lost' = UpIfSet(lost)
  /\ UNCHANGED <<loc, reason, link, started, ever, heap, health, owed, reported,
                 pongs, dumps>>

-----------------------------------------------------------------------------
\* run_once has spawned the child and enters the event loop.
Init ==
  /\ loc = "running" /\ reason = "none" /\ waited = 0
  /\ link = "none" /\ started = FALSE /\ ever = FALSE
  /\ age = 0
  /\ ping_left = PingInterval
  /\ startup_left = IF StartupTimeout > 0 THEN StartupTimeout ELSE Never
  /\ heap = "none" /\ heap_left = 0
  /\ ticked = FALSE
  /\ health = "well" /\ owed = 0 /\ late = 0 /\ worst = 0
  /\ reported = FALSE /\ silence = 0 /\ lost = Never
  /\ pongs = 0 /\ hello = Never
  /\ stop_age = Never /\ dumps = MaxDumps

Ended == loc = "ended" /\ UNCHANGED vars

JvmStep ==
  /\ loc \in {"running", "dumping"}
  /\ \/ JvmDials \/ JvmReports \/ JvmAnswers \/ JvmBreaks \/ Freeze \/ Thaw
     \/ BridgeGivesUp \/ JvmDies

Next ==
  \/ Tick \/ HandlePong \/ HandleStarted \/ HandleDisconnected
  \/ \E hint \in Hints : HandleStartPending(hint)
  \/ HandleStop \/ HandleThreadDump \/ HandleHeapDump
  \/ DumpDone
  \/ ChildExits \/ ShutdownExpires \/ StopDumpDone \/ GraceExpires \/ Drained
  \/ JvmStep \/ WorkerDone \/ PostStop
  \/ Elapse \/ Ended

Spec == Init /\ [][Next]_vars

-----------------------------------------------------------------------------
(* Properties.                                                             *)

\* The longest time thread dumps can keep the thread from its event loop.
Blocking == IF Jcmd THEN MaxDumps * DumpTimeout ELSE 0

\* Every clock is a natural number or unset; loc, link, heap and health have
\* one of their values.
TypeOK ==
  /\ loc \in {"running", "dumping", "ended"} \cup Blocked
  /\ reason \in {"none", "startup", "watchdog", "stop", "exit", "bridge"}
  /\ link \in {"none", "dialled", "up", "broken", "gone"}
  /\ heap \in {"none", "running", "finished"}
  /\ health \in {"well", "frozen", "hung"}
  /\ {started, ever, ticked, reported} \subseteq BOOLEAN
  /\ {age, ping_left, heap_left, waited, owed, late, worst, pongs, silence, dumps}
       \subseteq Nat
  /\ {startup_left, hello, lost, stop_age} \subseteq Nat \cup {Never}

\* The longest time the thread dumps requested so far have taken.
DumpedFor == IF Jcmd THEN (MaxDumps - dumps) * DumpTimeout ELSE 0

\* The watchdog is patient: it restarts only a JVM that lost its channel or
\* left a ping unanswered for more than wrapper.ping.timeout, less the time the
\* thread itself was blocked by the thread dumps requested before.  A JVM that answers in time is kept,
\* whatever the order in which select! serves ticks and answers.
WatchdogIsPatient ==
  reason = "watchdog" =>
    link \in {"broken", "gone"} \/ worst + DumpedFor > PingTimeout

\* The watchdog is thorough: a JVM that hangs or loses its channel is found
\* within ping.timeout + ping.interval, plus the extension for one heap dump
\* (however many are requested), the thread dumps, and the unit in which the
\* clocks are read.
LostJvmIsFound ==
  lost # Never /\ PingTimeout > 0 /\ loc \in {"running", "dumping"} =>
    lost <= Allowed + HeapTimeout + Blocking + 1

\* help.txt: "The ping watchdog is extended by the heap-dump timeout while a dump
\* is running."  A JVM that has its channel and is frozen by its heap dump is not
\* restarted for it before it has left a ping unanswered for both timeouts
\* together, less the time the thread did not listen; and only thread dumps
\* longer than the ping timeout make the bridge give up its wrapper.  (Both default
\* to 30 seconds: such a dump does cost a JVM that answers every ping its life,
\* although docs/diagnostics.md says that only the diagnostic request fails.)
HeapDumpIsWaitedFor ==
  /\ reason = "watchdog" /\ heap = "running" =>
       link \in {"broken", "gone"} \/ worst + DumpedFor > PingTimeout + HeapTimeout
  /\ reason = "bridge" => DumpedFor > PingTimeout

\* "The application did not report started within N seconds; restarting." is
\* said of an application that did report and has its channel only while the
\* STARTED packet waits behind thread dumps, never once it was handled: a
\* START_PENDING or a heap dump after it brings no deadline back.
StartupVerdictIsTrue ==
  reason = "startup" /\ reported /\ lost = Never => hello # Never /\ hello <= Blocking

\* stop_wait_hint: "Worst-case time the service may need to stop: the graceful
\* JVM shutdown, an optional thread dump grace period, and a margin."
StopWaitHint == ShutdownTimeout + (IF DumpOnExit THEN DumpDelay ELSE 0) + StopMargin

\* The jcmd runs that the hint leaves out: a thread dump under way when the stop
\* arrives, and the one of the shutdown itself.
DumpsLeftOut ==
  Blocking + (IF Jcmd /\ DumpOnExit THEN DumpTimeout ELSE 0)

\* The service stops within the hint it gives the SCM, as long as no jcmd runs
\* on the way; a dump adds at most jss.threaddump.timeout.  Whatever the JVM
\* does, no wait of shutdown_and_drain begins again.
StopsWithinHint ==
  loc # "ended" => stop_age <= StopWaitHint + DumpsLeftOut

=============================================================================
