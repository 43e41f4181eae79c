---------------------------- MODULE WatchdogProofs ----------------------------
(***************************************************************************)
(* Proofs about the deadlines of one JVM invocation, for every timeout,    *)
(* interval and number of thread dumps.  Everything rests on one account:  *)
(* the supervisor thread is kept from its event loop only by thread dumps, *)
(* so each clock runs ahead of the tick by no more than they have spent.   *)
(***************************************************************************)
EXTENDS Watchdog, TLAPS

-----------------------------------------------------------------------------
(* The inductive invariant, in named parts.                                *)

\* The event loop is alive: the JVM is supervised.
Alive == loc \in {"running", "dumping"}

\* What the thread dumps that are still to come may cost.
Left == IF Jcmd THEN dumps * DumpTimeout ELSE 0

\* What the thread dumps have cost so far.
Spent == IF loc = "dumping" THEN Blocking - Left - DumpTimeout + waited ELSE Blocking - Left

\* TypeOK, variable by variable.
Types ==
  /\ loc \in {"running", "dumping", "ended", "stopping", "stop_dump", "grace", "draining"}
  /\ reason \in {"none", "startup", "watchdog", "stop", "exit", "bridge"}
  /\ link \in {"none", "dialled", "up", "broken", "gone"}
  /\ heap \in {"none", "running", "finished"}
  /\ health \in {"well", "frozen", "hung"}
  /\ age \in Nat /\ ping_left \in Nat /\ heap_left \in Nat /\ waited \in Nat
  /\ owed \in Nat /\ late \in Nat /\ worst \in Nat /\ pongs \in Nat
  /\ silence \in Nat /\ dumps \in Nat
  /\ startup_left \in Nat \cup {Never} /\ hello \in Nat \cup {Never}
  /\ lost \in Nat \cup {Never} /\ stop_age \in Nat \cup {Never}

Flags ==
  /\ started \in BOOLEAN /\ ever \in BOOLEAN
  /\ ticked \in BOOLEAN /\ reported \in BOOLEAN

\* The dumps stay within their number; an invocation under way has no verdict.
Budget ==
  /\ Left <= Blocking
  /\ loc = "dumping" => waited <= DumpTimeout /\ Left + DumpTimeout <= Blocking
  /\ Alive => reason = "none"

\* What the channel tells of its past.
Channel ==
  /\ ever <=> link \in {"up", "broken", "gone"}
  /\ link \in {"broken", "gone"} => lost # Never
  /\ lost # Never => ever /\ (link = "up" => health = "hung")
  /\ pongs > 0 \/ hello # Never => Connection
  /\ reported /\ lost = Never => started \/ hello # Never

\* A ping leaves in time: the tick of this unit has sent the one that was due.
Pings ==
  /\ ping_left <= PingInterval
  /\ owed = 0 => late = 0
  /\ late <= worst
  /\ Alive /\ ticked /\ link = "up" => ping_left > 0

\* The wrapper has waited for an answer for no longer than the interval, the
\* JVM's own delay and the dumps explain; so has the bridge for a ping.
Ages ==
  Alive /\ link = "up" =>
    /\ age <= PingInterval + worst + Spent
    /\ pongs = 0 /\ owed = 0 => age <= PingInterval - ping_left + Spent
    /\ pongs = 0 /\ owed > 0 => age <= PingInterval + late + Spent
    /\ owed = 0 => silence <= PingInterval - ping_left + Spent

\* A lost JVM sends nothing any more, so the wrapper's clock runs with its loss
\* once the queue is empty, and the next tick sees it.
Loss ==
  Alive /\ lost # Never =>
    /\ lost <= age + Spent
    /\ pongs > 0 \/ hello # Never => lost <= Spent
    /\ PingTimeout > 0 =>
         /\ lost <= Allowed + HeapTimeout + 1 + Spent
         /\ ticked => lost <= Allowed + HeapTimeout + Spent

\* STARTED waits only behind dumps.
Startup ==
  /\ Alive => hello <= Spent
  /\ reason = "startup" /\ reported /\ lost = Never => hello # Never /\ hello <= Blocking

\* What a verdict was based on.
Verdicts ==
  /\ reason \in {"watchdog", "bridge"} => PingTimeout > 0
  /\ reason = "watchdog" => link \in {"broken", "gone"} \/ worst + Blocking - Left > PingTimeout
  /\ reason = "watchdog" /\ heap = "running" =>
       \/ link \in {"broken", "gone"}
       \/ worst + Blocking - Left > PingTimeout + HeapTimeout
  /\ reason = "bridge" => Blocking - Left > PingTimeout

\* Each wait begins after the ones before it, and ends at its limit.
AtShutdown == Blocking + ShutdownTimeout
AfterDump == AtShutdown + (IF Jcmd THEN DumpTimeout ELSE 0)
AtDrain == IF DumpOnExit THEN AfterDump + Grace ELSE AtShutdown

Stops ==
  /\ Alive => stop_age <= Spent
  /\ loc = "stopping" => waited <= ShutdownTimeout /\ stop_age <= Blocking + waited
  /\ loc = "stop_dump" =>
       DumpOnExit /\ Jcmd /\ waited <= DumpTimeout /\ stop_age <= AtShutdown + waited
  /\ loc = "grace" => DumpOnExit /\ waited <= Grace /\ stop_age <= AfterDump + waited
  /\ loc = "draining" => waited <= DrainTime /\ stop_age <= AtDrain + waited

WatchdogInv ==
  /\ Types /\ Flags /\ Budget /\ Channel /\ Pings /\ Ages /\ Loss /\ Startup
  /\ Verdicts /\ Stops

-----------------------------------------------------------------------------
(* The account of the thread dumps.                                        *)

\* The account is in natural numbers, and never overdrawn while it is kept.
LEMMA Accounts ==
  ASSUME Types, Budget
  PROVE  /\ Blocking \in Nat /\ Left \in Nat
         /\ Alive => Spent \in Nat /\ Spent <= Blocking /\ Spent <= Blocking - Left
<1>1. /\ Jcmd \in BOOLEAN /\ DumpTimeout \in Nat /\ MaxDumps \in Nat
      /\ dumps \in Nat /\ waited \in Nat
  BY TimesAssumption DEF Types
<1>2. dumps * DumpTimeout \in Nat /\ MaxDumps * DumpTimeout \in Nat
  BY <1>1
<1>3. Blocking \in Nat /\ Left \in Nat
  BY <1>2 DEF Blocking, Left
<1>4. Alive => Spent \in Nat /\ Spent <= Blocking /\ Spent <= Blocking - Left
  <2> HIDE DEF Blocking, Left
  <2> QED
    BY <1>1, <1>3 DEF Budget, Alive, Spent
<1> QED
  BY <1>3, <1>4

\* A step that neither begins, advances nor ends a dump leaves it as it is.
LEMMA SameAccount ==
  ASSUME UNCHANGED <<loc, waited, dumps>>
  PROVE  Left' = Left /\ Spent' = Spent /\ (Alive' <=> Alive)
BY DEF Left, Spent, Alive

\* The constants are what the clocks are compared with.
LEMMA Times ==
  /\ PingTimeout \in Nat /\ StartupTimeout \in Nat /\ ShutdownTimeout \in Nat
  /\ DumpDelay \in Nat /\ DrainTime \in Nat /\ StopMargin \in Nat
  /\ Latency \in Nat /\ MaxDumps \in Nat /\ ClockMax \in Nat
  /\ PingInterval \in Nat \ {0} /\ HeapTimeout \in Nat \ {0} /\ DumpTimeout \in Nat \ {0}
  /\ Allowed \in Nat /\ Allowed = PingTimeout + PingInterval /\ Grace \in Nat
BY TimesAssumption DEF Allowed, Grace, Larger

-----------------------------------------------------------------------------
(* The end of the invocation: only the thread moves.                       *)

\* What every step of the shutdown leaves alone.
Rest == <<link, started, ever, clocks, heapVars, ticked, jvmVars, queue, requests>>

\* A step of the thread alone that ends in a wait of the shutdown.
LEMMA ThreadStep ==
  ASSUME WatchdogInv, UNCHANGED Rest,
         loc' \in {"ended", "stopping", "stop_dump", "grace", "draining"},
         reason' \in {"none", "startup", "watchdog", "stop", "exit", "bridge"},
         waited' \in Nat, Startup', Verdicts', Stops'
  PROVE  WatchdogInv'
<1>1. /\ link' = link /\ started' = started /\ ever' = ever /\ age' = age
      /\ ping_left' = ping_left /\ startup_left' = startup_left /\ heap' = heap
      /\ heap_left' = heap_left /\ ticked' = ticked /\ health' = health
      /\ owed' = owed /\ late' = late /\ worst' = worst /\ reported' = reported
      /\ silence' = silence /\ lost' = lost /\ pongs' = pongs /\ hello' = hello
      /\ stop_age' = stop_age /\ dumps' = dumps
  BY DEF Rest, clocks, heapVars, jvmVars, queue, requests
<1>2. Types' /\ Flags'
  BY <1>1 DEF WatchdogInv, Types, Flags
<1>3. ~Alive'
  BY DEF Alive
<1>4. Budget'
  BY <1>1, <1>3 DEF WatchdogInv, Budget, Left
<1>5. Channel' /\ Pings'
  BY <1>1, <1>3 DEF WatchdogInv, Channel, Pings, Connection
<1>6. Ages' /\ Loss'
  BY <1>3 DEF Ages, Loss
<1> QED
  BY <1>2, <1>4, <1>5, <1>6 DEF WatchdogInv

\* The waits of a shutdown follow each other; the verdict stands.
LEMMA WaitStep ==
  ASSUME WatchdogInv, ChildExits \/ ShutdownExpires \/ StopDumpDone \/ GraceExpires \/ Drained
  PROVE  WatchdogInv'
<1>1. /\ UNCHANGED Rest /\ reason' = reason
      /\ loc' \in {"ended", "stopping", "stop_dump", "grace", "draining"}
      /\ loc' # "ended" => waited' = 0
      /\ waited' \in Nat
      /\ stop_age' = stop_age
  BY DEF ChildExits, ShutdownExpires, StopDumpDone, GraceExpires, Drained, Wait, Rest,
         WatchdogInv, Types, requests
<1>2. /\ link' = link /\ worst' = worst /\ reported' = reported /\ lost' = lost /\ hello' = hello
      /\ heap' = heap /\ dumps' = dumps /\ Left' = Left
  BY <1>1 DEF Rest, jvmVars, queue, heapVars, requests, Left
<1>3. Startup' /\ Verdicts'
  BY <1>1, <1>2 DEF WatchdogInv, Startup, Verdicts, Alive, Blocking
<1>4. Stops'
  <2>1. /\ Blocking \in Nat /\ AtShutdown \in Nat /\ AfterDump \in Nat /\ AtDrain \in Nat
        /\ Blocking <= AtShutdown /\ AtShutdown <= AfterDump /\ AtShutdown <= AtDrain
        /\ DumpOnExit => AfterDump + Grace = AtDrain
        /\ Jcmd => AfterDump = AtShutdown + DumpTimeout
        /\ ShutdownTimeout \in Nat /\ AtShutdown = Blocking + ShutdownTimeout
        /\ DumpTimeout \in Nat /\ Grace \in Nat /\ DrainTime \in Nat
        /\ stop_age \in Int /\ waited \in Nat
    <3>1. Blocking \in Nat
      BY Accounts DEF WatchdogInv
    <3>2. stop_age \in Int /\ waited \in Nat
      BY DEF WatchdogInv, Types, Never
    <3> QED
      BY <3>1, <3>2, Times DEF AtShutdown, AfterDump, AtDrain
  <2>2. ~Alive'
    BY <1>1 DEF Alive
  <2>3. CASE ChildExits
    <3>1. loc' = "draining" /\ loc \in {"stopping", "grace"} /\ waited' = 0
      BY <2>3 DEF ChildExits, Wait
    <3>2. stop_age <= AtDrain
      BY <2>1, <3>1 DEF WatchdogInv, Stops
    <3> QED
      BY <1>1, <2>1, <2>2, <3>1, <3>2 DEF Stops, AtDrain, AfterDump, AtShutdown, Blocking
  <2>4. CASE ShutdownExpires
    <3>1. /\ loc = "stopping" /\ waited = ShutdownTimeout /\ waited' = 0
          /\ \/ loc' = "draining"
             \/ (loc' = "stop_dump" /\ DumpOnExit /\ Jcmd)
             \/ (loc' = "grace" /\ DumpOnExit)
      BY <2>4 DEF ShutdownExpires, Wait
    <3>2. stop_age <= AtShutdown
      BY <2>1, <3>1 DEF WatchdogInv, Stops
    <3> QED
      BY <1>1, <2>1, <2>2, <3>1, <3>2 DEF Stops, AtDrain, AfterDump, AtShutdown, Blocking
  <2>5. CASE StopDumpDone
    <3>1. loc = "stop_dump" /\ loc' \in {"grace", "draining"} /\ waited' = 0
      BY <2>5 DEF StopDumpDone, Wait
    <3>2. stop_age <= AfterDump /\ DumpOnExit /\ AfterDump <= AtDrain
      BY <2>1, <3>1 DEF WatchdogInv, Stops
    <3> QED
      BY <1>1, <2>1, <2>2, <3>1, <3>2 DEF Stops, AtDrain, AfterDump, AtShutdown, Blocking
  <2>6. CASE GraceExpires
    <3>1. loc = "grace" /\ loc' = "draining" /\ waited' = 0
      BY <2>6 DEF GraceExpires, Wait
    <3>2. stop_age <= AtDrain
      BY <2>1, <3>1 DEF WatchdogInv, Stops
    <3> QED
      BY <1>1, <2>1, <2>2, <3>1, <3>2 DEF Stops, AtDrain, AfterDump, AtShutdown, Blocking
  <2>7. CASE Drained
    <3>1. loc' = "ended"
      BY <2>7 DEF Drained
    <3> QED
      BY <2>2, <3>1 DEF Stops
  <2> QED
    BY <2>3, <2>4, <2>5, <2>6, <2>7
<1> QED
  BY <1>1, <1>3, <1>4, ThreadStep DEF WatchdogInv, Types


-----------------------------------------------------------------------------
(* The verdicts.                                                           *)

\* However the event loop is left, the stop has waited only for dumps.
LEMMA LeaveStops ==
  ASSUME WatchdogInv, Alive, loc' \in {"stopping", "draining"}, waited' = 0,
         stop_age' = stop_age
  PROVE  Stops'
<1>1. /\ Blocking \in Nat /\ stop_age \in Int /\ stop_age <= Blocking
  <2>1. Blocking \in Nat /\ Spent \in Nat /\ Spent <= Blocking
    BY Accounts DEF WatchdogInv
  <2>2. stop_age \in Int /\ stop_age <= Spent
    BY DEF WatchdogInv, Types, Stops, Never
  <2> QED
    BY <2>1, <2>2
<1>2. AtDrain \in Nat /\ Blocking <= AtDrain /\ AtDrain' = AtDrain /\ Blocking' = Blocking
  BY <1>1, Times DEF AtDrain, AfterDump, AtShutdown, Blocking, Grace
<1>3. ~Alive'
  BY DEF Alive
<1> QED
  BY <1>1, <1>2, <1>3, Times DEF Stops

\* A stop, the end of the application, and the bridge's own watchdog, which
\* waits for a ping as long as the dumps hold it back.
LEMMA LeaveStep ==
  ASSUME WatchdogInv, HandleStop \/ (Alive /\ (BridgeGivesUp \/ JvmDies))
  PROVE  WatchdogInv'
<1>1. /\ Alive /\ UNCHANGED Rest
      /\ loc' \in {"stopping", "draining"} /\ waited' = 0
      /\ reason' \in {"stop", "exit", "bridge"}
      /\ reason' = "bridge" => BridgeGivesUp
  BY DEF HandleStop, BridgeGivesUp, JvmDies, JvmLeaves, EndWith, Wait, Alive, Rest
<1>2. stop_age' = stop_age /\ dumps' = dumps
  BY <1>1 DEF Rest, requests
<1>3. Stops'
  BY <1>1, <1>2, LeaveStops
<1>4. Startup'
  BY <1>1 DEF Startup, Alive
<1>5. Verdicts'
  <2>1. ASSUME BridgeGivesUp
        PROVE  PingTimeout > 0 /\ Blocking - Left > PingTimeout
    <3>1. link = "up" /\ owed = 0 /\ silence > Allowed /\ PingTimeout > 0
      BY <2>1 DEF BridgeGivesUp, PingTimedOut
    <3>2. silence <= PingInterval - ping_left + Spent
      BY <1>1, <3>1 DEF WatchdogInv, Ages
    <3>3. Spent \in Nat /\ Spent <= Blocking - Left /\ Blocking \in Nat /\ Left \in Nat
      BY <1>1, Accounts DEF WatchdogInv
    <3>4. silence \in Nat /\ ping_left \in Nat
      BY DEF WatchdogInv, Types
    <3> QED
      BY <3>1, <3>2, <3>3, <3>4, Times
  <2> QED
    BY <1>1, <1>2, <2>1 DEF Verdicts, Blocking, Left
<1> QED
  BY <1>1, <1>3, <1>4, <1>5, ThreadStep

\* What a tick does, whatever it finds: h, l and since are the heap-dump task,
\* the channel and the age of the last response as its first calls leave them.
TickLink == IF Authenticated THEN "up" ELSE link
TickSince == IF Authenticated THEN 0 ELSE age
TickHeap == IF heap = "finished" THEN "none" ELSE heap

\* The part common to all ends of a tick.
LEMMA TickAlways ==
  ASSUME WatchdogInv, Tick
  PROVE  /\ loc = "running" /\ Alive
         /\ ticked' = TRUE /\ heap' = TickHeap /\ (ever' <=> ever \/ TickLink = "up")
         /\ ever' \in BOOLEAN
         /\ age' = TickSince /\ silence' = IF Authenticated THEN 0 ELSE silence
         /\ UNCHANGED <<started, startup_left, heap_left, health, late, worst,
                        reported, lost, stop_age, dumps>>
         /\ TickLink \in {"none", "up", "broken", "gone"}
         /\ Authenticated => link = "dialled" /\ ~ever /\ lost = Never
         /\ ~Authenticated => TickLink = link /\ TickSince = age
         /\ age' \in Nat /\ silence' \in Nat /\ heap' \in {"none", "running", "finished"}
<1>1. /\ loc = "running" /\ Alive
      /\ ticked' = TRUE /\ heap' = TickHeap
      /\ age' = TickSince /\ silence' = IF Authenticated THEN 0 ELSE silence
      /\ UNCHANGED <<started, startup_left, heap_left, health, late, worst,
                     reported, lost, stop_age, dumps>>
  BY DEF Tick, TickHeap, TickSince, Alive, requests
<1>2. (ever' <=> ever \/ TickLink = "up") /\ ever' \in BOOLEAN
  <2>1. ever' = (ever \/ TickLink = "up")
    BY DEF Tick, Watched, TickLink
  <2> QED
    BY <2>1, Zenon
<1>3. link \in {"none", "dialled", "up", "broken", "gone"} /\ age \in Nat /\ silence \in Nat
      /\ heap \in {"none", "running", "finished"}
  BY DEF WatchdogInv, Types
<1>4. /\ TickLink \in {"none", "up", "broken", "gone"}
      /\ ~Authenticated => TickLink = link /\ TickSince = age
  BY <1>3 DEF TickLink, TickSince, Authenticated
<1>5. Authenticated => link = "dialled" /\ ~ever /\ lost = Never
  BY DEF Authenticated, WatchdogInv, Channel
<1>6. age' \in Nat /\ silence' \in Nat /\ heap' \in {"none", "running", "finished"}
  BY <1>1, <1>3 DEF TickSince, TickHeap
<1> QED
  BY <1>1, <1>2, <1>4, <1>5, <1>6

\* A tick that does not lose the connection.
LEMMA TickChannel ==
  ASSUME WatchdogInv, Tick, link' = TickLink, UNCHANGED <<pongs, hello>>
  PROVE  Channel'
<1>1. Channel /\ Types
  BY DEF WatchdogInv
<1>2. /\ UNCHANGED <<started, health, reported, lost>>
      /\ TickLink \in {"none", "up", "broken", "gone"}
      /\ ever' <=> ever \/ TickLink = "up"
  BY TickAlways
<1>3. CASE Authenticated
  <2>1. TickLink = "up" /\ link = "dialled" /\ lost = Never /\ ~ever
    BY <1>3, TickAlways DEF TickLink
  <2> QED
    BY <1>1, <1>2, <2>1 DEF Channel, Connection
<1>4. CASE ~Authenticated
  <2>1. TickLink = link
    BY <1>4, TickAlways
  <2>2. ever' <=> ever
    BY <1>1, <1>2, <2>1 DEF Channel
  <2> QED
    BY <1>1, <1>2, <2>1, <2>2 DEF Channel, Connection
<1> QED
  BY <1>3, <1>4

\* A tick that finds the startup deadline passed.
LEMMA TickStartup ==
  ASSUME WatchdogInv, Tick, ~started, startup_left = 0
  PROVE  WatchdogInv'
<1>1. /\ EndWith("startup", TickLink) /\ link' = TickLink
      /\ UNCHANGED <<ping_left, owed, pongs, hello>>
  BY DEF Tick, TickLink, queue
<1>2. /\ reason' = "startup" /\ loc' \in {"stopping", "draining"} /\ waited' = 0
  BY <1>1 DEF EndWith, Wait
<1>3. ~Alive'
  BY <1>2 DEF Alive
<1>4. Types'
  BY <1>1, <1>2, TickAlways DEF WatchdogInv, Types
<1>5. Flags'
  BY TickAlways, Zenon DEF WatchdogInv, Flags
<1>6. Budget'
  BY <1>2, <1>3, TickAlways DEF WatchdogInv, Budget, Left
<1>7. Channel'
  BY <1>1, TickChannel
<1>8. Pings' /\ Ages' /\ Loss'
  BY <1>1, <1>3, TickAlways DEF WatchdogInv, Pings, Ages, Loss
<1>9. Startup'
  <2>1. Spent \in Nat /\ Spent <= Blocking /\ Blocking \in Nat
    BY TickAlways, Accounts DEF WatchdogInv
  <2>2. hello \in Int /\ hello <= Spent
    <3>1. Alive
      BY TickAlways
    <3> QED
      BY <3>1 DEF WatchdogInv, Types, Startup, Never
  <2>3. (reported /\ lost = Never) => hello # Never
    BY DEF WatchdogInv, Channel
  <2>4. hello <= Blocking
    BY <2>1, <2>2
  <2> QED
    BY <1>1, <1>3, <2>3, <2>4, TickAlways DEF Startup, Blocking
<1>10. Verdicts'
  BY <1>2 DEF Verdicts
<1>11. Stops'
  BY <1>2, TickAlways, LeaveStops
<1> QED
  BY <1>4, <1>5, <1>6, <1>7, <1>8, <1>9, <1>10, <1>11 DEF WatchdogInv

\* A tick before the deadline sends the ping that is due; a write that fails
\* loses the connection with its queue.
LEMMA TickPing ==
  ASSUME WatchdogInv, Tick, ~(~started /\ startup_left = 0)
  PROVE  /\ \/ link' = TickLink /\ UNCHANGED <<pongs, hello>>
            \/ TickLink = "broken" /\ link' = "gone" /\ pongs' = 0 /\ hello' = Never
         /\ ping_left' = IF TickLink \in {"up", "broken"} /\ ping_left = 0
                           THEN PingInterval ELSE ping_left
         /\ owed' = owed \/ (owed' = owed + 1 /\ link' = "up" /\ ping_left = 0)
         /\ link' = "up" /\ ping_left = 0 => owed' = owed + 1
         /\ \/ UNCHANGED thread /\ ~(PingTimeout > 0 /\ ever' /\ age' > Allowed + Extra(heap'))
            \/ /\ EndWith("watchdog", link')
               /\ PingTimeout > 0 /\ ever' /\ age' > Allowed + Extra(heap')
<1> DEFINE P(l2) ==
      /\ link' = l2
      /\ ping_left' = IF PingDue(TickLink) THEN PingInterval ELSE ping_left
      /\ owed' = IF PingDue(TickLink) /\ l2 = "up" THEN owed + 1 ELSE owed
      /\ IF l2 = "gone" /\ TickLink # "gone"
           THEN pongs' = 0 /\ hello' = Never
           ELSE UNCHANGED queue
      /\ IF PingTimeout > 0 /\ ever' /\ TickSince > Allowed + Extra(TickHeap)
           THEN EndWith("watchdog", l2)
           ELSE UNCHANGED thread
<1>1. \E l2 \in IF PingDue(TickLink) /\ TickLink = "broken" THEN {TickLink, "gone"} ELSE {TickLink} : P(l2)
  BY DEF Tick, TickLink, TickSince, TickHeap
<1>2. PICK l2 \in IF PingDue(TickLink) /\ TickLink = "broken" THEN {TickLink, "gone"} ELSE {TickLink} : P(l2)
  BY <1>1
<1>3. age' = TickSince /\ heap' = TickHeap /\ TickLink \in {"none", "up", "broken", "gone"}
  BY TickAlways
<1>4. l2 = TickLink \/ (TickLink = "broken" /\ l2 = "gone")
  BY <1>2
<1>5. /\ \/ link' = TickLink /\ UNCHANGED <<pongs, hello>>
         \/ TickLink = "broken" /\ link' = "gone" /\ pongs' = 0 /\ hello' = Never
      /\ link' = l2
  BY <1>2, <1>4 DEF queue
<1>6. /\ ping_left' = IF TickLink \in {"up", "broken"} /\ ping_left = 0
                        THEN PingInterval ELSE ping_left
      /\ owed' = owed \/ (owed' = owed + 1 /\ link' = "up" /\ ping_left = 0)
      /\ link' = "up" /\ ping_left = 0 => owed' = owed + 1
  BY <1>2, <1>4, <1>5 DEF PingDue
<1>7. IF PingTimeout > 0 /\ ever' /\ age' > Allowed + Extra(heap')
        THEN EndWith("watchdog", link')
        ELSE UNCHANGED thread
  BY <1>2, <1>3, <1>5
<1> QED
  BY <1>5, <1>6, <1>7

\* What such a tick leaves of channel and pings, with or without a verdict.
LEMMA TickKeeps ==
  ASSUME WatchdogInv, Tick, ~(~started /\ startup_left = 0)
  PROVE  /\ Channel' /\ Pings' /\ Flags'
         /\ link' \in {"none", "up", "broken", "gone"}
         /\ owed' \in Nat /\ pongs' \in Nat /\ hello' \in Nat \cup {Never} /\ ping_left' \in Nat
<1>1. Channel /\ Types /\ Pings /\ Flags
  BY DEF WatchdogInv
<1>2. Channel'
  <2>1. CASE link' = TickLink /\ UNCHANGED <<pongs, hello>>
    BY <2>1, TickChannel
  <2>2. CASE TickLink = "broken" /\ link' = "gone" /\ pongs' = 0 /\ hello' = Never
    <3>1. link = "broken"
      BY <2>2, TickAlways DEF TickLink
    <3>2. lost # Never /\ ever
      BY <1>1, <3>1 DEF Channel
    <3>3. lost' = lost /\ ever'
      BY <3>2, TickAlways
    <3> QED
      BY <2>2, <3>2, <3>3 DEF Channel, Connection
  <2> QED
    BY <2>1, <2>2, TickPing
<1>3. /\ link' \in {"none", "up", "broken", "gone"}
      /\ owed' \in Nat /\ pongs' \in Nat /\ hello' \in Nat \cup {Never} /\ ping_left' \in Nat
  BY <1>1, TickPing, TickAlways, Times DEF Types
<1>4. Pings'
  <2>1. late' = late /\ worst' = worst
    BY TickAlways
  <2>2. link' = "up" => TickLink = "up"
    BY TickPing
  <2>3. ping_left' <= PingInterval /\ (link' = "up" => ping_left' > 0)
    BY <1>1, <2>2, TickPing, Times DEF Types, Pings
  <2>4. owed' = 0 => owed = 0
    BY <1>1, TickPing DEF Types
  <2> QED
    BY <1>1, <2>1, <2>3, <2>4 DEF Pings
<1>5. Flags'
  BY <1>1, TickAlways, Zenon DEF Flags
<1> QED
  BY <1>2, <1>3, <1>4, <1>5

\* A tick that gives up the JVM: with the channel up, answers were missing for
\* longer than the dumps explain.
LEMMA TickWatchdog ==
  ASSUME WatchdogInv, Tick, ~(~started /\ startup_left = 0), EndWith("watchdog", link'),
         PingTimeout > 0, ever', age' > Allowed + Extra(heap')
  PROVE  WatchdogInv'
<1>1. reason' = "watchdog" /\ loc' \in {"stopping", "draining"} /\ waited' = 0
  BY DEF EndWith, Wait
<1>2. ~Alive'
  BY <1>1 DEF Alive
<1>3. Types'
  BY <1>1, TickAlways, TickKeeps DEF WatchdogInv, Types
<1>4. Budget'
  BY <1>1, <1>2, TickAlways DEF WatchdogInv, Budget, Left
<1>5. Ages' /\ Loss'
  BY <1>2 DEF Ages, Loss
<1>6. Startup'
  BY <1>1, <1>2 DEF Startup
<1>7. Verdicts'
  <2>1. link' \in {"up", "broken", "gone"}
    BY TickKeeps DEF Channel
  <2>2. ASSUME link' = "up"
        PROVE  /\ worst + Blocking - Left > PingTimeout
               /\ heap' = "running" => worst + Blocking - Left > PingTimeout + HeapTimeout
    <3>1. Extra(heap') \in Nat /\ (heap' = "running" => Extra(heap') = HeapTimeout)
      BY Times DEF Extra
    <3>2. ~Authenticated
      BY <3>1, TickAlways, Times DEF TickSince
    <3>3. link = "up" /\ age' = age
      BY <2>2, <3>2, TickAlways, TickPing
    <3>4. age <= PingInterval + worst + Spent
      BY <3>3, TickAlways DEF WatchdogInv, Ages
    <3>5. /\ Spent \in Nat /\ Spent <= Blocking /\ Spent <= Blocking - Left
          /\ Blocking \in Nat /\ Left \in Nat /\ worst \in Nat /\ age \in Nat
      BY TickAlways, Accounts DEF WatchdogInv, Types
    <3> QED
      BY <3>1, <3>3, <3>4, <3>5, Times
  <2>3. worst' = worst /\ Blocking' = Blocking /\ Left' = Left
    BY TickAlways DEF Blocking, Left
  <2> QED
    BY <1>1, <2>1, <2>2, <2>3 DEF Verdicts
<1>8. Stops'
  BY <1>1, TickAlways, LeaveStops
<1> QED
  BY <1>3, <1>4, <1>5, <1>6, <1>7, <1>8, TickKeeps DEF WatchdogInv

\* A tick that finds nothing amiss.
LEMMA TickGoesOn ==
  ASSUME WatchdogInv, Tick, ~(~started /\ startup_left = 0), UNCHANGED thread,
         ~(PingTimeout > 0 /\ ever' /\ age' > Allowed + Extra(heap'))
  PROVE  WatchdogInv'
<1>1. /\ loc' = loc /\ reason' = reason /\ waited' = waited /\ dumps' = dumps
      /\ Alive /\ reason = "none" /\ stop_age' = stop_age /\ lost' = lost
      /\ late' = late /\ worst' = worst
  BY TickAlways DEF thread, WatchdogInv, Budget
<1>2. Left' = Left /\ Spent' = Spent /\ Alive' /\ Blocking' = Blocking
  BY <1>1, SameAccount DEF Blocking
<1>3. /\ Spent \in Nat /\ age \in Nat /\ age' \in Nat /\ silence \in Nat /\ late \in Nat
      /\ worst \in Nat /\ owed \in Nat /\ pongs \in Nat /\ ping_left \in Nat
      /\ hello \in Nat \cup {Never} /\ lost \in Nat \cup {Never}
  BY <1>1, Accounts, TickAlways DEF WatchdogInv, Types
<1>4. Types'
  BY <1>1, TickAlways, TickKeeps DEF WatchdogInv, Types
<1>5. Budget'
  BY <1>1, <1>2 DEF WatchdogInv, Budget
<1>6. Ages'
  <2> SUFFICES ASSUME link' = "up"
               PROVE  /\ age' <= PingInterval + worst + Spent
                      /\ pongs' = 0 /\ owed' = 0 => age' <= PingInterval - ping_left' + Spent
                      /\ pongs' = 0 /\ owed' > 0 => age' <= PingInterval + late + Spent
                      /\ owed' = 0 => silence' <= PingInterval - ping_left' + Spent
    BY <1>1, <1>2 DEF Ages
  <2>1. TickLink = "up" /\ pongs' = pongs /\ (ping_left = 0 => owed' = owed + 1)
        /\ (ping_left # 0 => ping_left' = ping_left /\ owed' = owed)
    BY TickPing
  <2>2. ping_left <= PingInterval /\ (owed = 0 => late = 0) /\ ping_left' <= PingInterval
    BY TickKeeps DEF WatchdogInv, Pings
  <2>3. ping_left' \in Nat
    BY TickKeeps
  <2>4. CASE Authenticated
    <3>1. age' = 0 /\ silence' = 0
      BY <2>4, TickAlways DEF TickSince
    <3>2. /\ 0 <= PingInterval + worst + Spent /\ 0 <= PingInterval + late + Spent
          /\ 0 <= PingInterval - ping_left' + Spent
      <4>1. PingInterval \in Nat /\ worst \in Nat /\ late \in Nat /\ Spent \in Nat
        BY <1>3, Times
      <4>2. ping_left' \in 0..PingInterval
        BY <2>2, <2>3, <4>1
      <4>3. \A p \in 0..PingInterval, s \in Nat : 0 <= PingInterval - p + s
        BY <4>1
      <4>4. \A n \in Nat : 0 <= PingInterval + n + Spent
        BY <4>1
      <4> QED
        BY <4>1, <4>2, <4>3, <4>4
    <3> QED
      BY <3>1, <3>2
  <2>5. CASE ~Authenticated
    <3>1. age' = age /\ silence' = silence /\ link = "up"
      BY <2>1, <2>5, TickAlways
    <3>2. /\ age <= PingInterval + worst + Spent
          /\ pongs = 0 /\ owed = 0 => age <= PingInterval - ping_left + Spent
          /\ pongs = 0 /\ owed > 0 => age <= PingInterval + late + Spent
          /\ owed = 0 => silence <= PingInterval - ping_left + Spent
      BY <1>1, <3>1 DEF WatchdogInv, Ages
    <3> QED
      BY <1>3, <2>1, <2>2, <3>1, <3>2, Times
  <2> QED
    BY <2>4, <2>5
<1>7. Loss'
  <2> SUFFICES ASSUME lost # Never
               PROVE  /\ lost <= age' + Spent
                      /\ pongs' > 0 \/ hello' # Never => lost <= Spent
                      /\ PingTimeout > 0 =>
                           /\ lost <= Allowed + HeapTimeout + 1 + Spent
                           /\ lost <= Allowed + HeapTimeout + Spent
    BY <1>1, <1>2 DEF Loss
  <2>1. ~Authenticated /\ ever /\ age' = age
    BY TickAlways DEF WatchdogInv, Channel
  <2>2. /\ lost <= age + Spent
        /\ pongs > 0 \/ hello # Never => lost <= Spent
    BY <1>1 DEF WatchdogInv, Loss
  <2>3. (pongs' > 0 \/ hello' # Never) => (pongs > 0 \/ hello # Never)
    BY TickPing
  <2>4. ever'
    BY <2>1, TickAlways
  <2>5. PingTimeout > 0 => age <= Allowed + HeapTimeout
    BY <1>3, <2>1, <2>4, Times DEF Extra
  <2>6. lost \in Nat
    BY <1>3
  <2> QED
    BY <1>3, <2>1, <2>2, <2>3, <2>5, <2>6, Times
<1>8. Startup'
  <2>1. hello' = hello \/ hello' = Never
    BY TickPing
  <2>2. hello <= Spent
    BY <1>1 DEF WatchdogInv, Startup
  <2> QED
    BY <1>1, <1>2, <1>3, <2>1, <2>2 DEF Startup, Never
<1>9. Verdicts'
  BY <1>1 DEF Verdicts
<1>10. Stops'
  BY <1>1, <1>2, TickAlways DEF WatchdogInv, Stops
<1> QED
  BY <1>4, <1>5, <1>6, <1>7, <1>8, <1>9, <1>10, TickKeeps DEF WatchdogInv

\* Every tick.
LEMMA TickStep == ASSUME WatchdogInv, Tick PROVE WatchdogInv'
<1>1. CASE ~started /\ startup_left = 0
  BY <1>1, TickStartup
<1>2. CASE ~(~started /\ startup_left = 0)
  BY <1>2, TickPing, TickWatchdog, TickGoesOn
<1> QED
  BY <1>1, <1>2

-----------------------------------------------------------------------------
(* Steps between two ticks.                                                *)

\* Between two ticks, without a dump: what remains to be shown of a step.
LEMMA BetweenTicks ==
  ASSUME WatchdogInv, Alive, UNCHANGED <<thread, dumps>>,
         Types', Flags', Channel', Pings', Ages', Loss', hello' <= Spent, stop_age' <= Spent
  PROVE  WatchdogInv'
<1>1. /\ loc' = loc /\ reason' = "none" /\ waited' = waited /\ dumps' = dumps
  BY DEF thread, WatchdogInv, Budget
<1>2. Left' = Left /\ Spent' = Spent /\ Alive' /\ Blocking' = Blocking
  BY <1>1, SameAccount DEF Blocking
<1>3. Budget'
  BY <1>1, <1>2 DEF WatchdogInv, Budget
<1>4. Startup' /\ Verdicts'
  BY <1>1, <1>2 DEF Startup, Verdicts
<1>5. Stops'
  BY <1>1, <1>2 DEF Stops, Alive
<1> QED
  BY <1>3, <1>4, <1>5 DEF WatchdogInv

\* What a supervised JVM's clocks are, for the steps below.
LEMMA AliveFacts ==
  ASSUME WatchdogInv, Alive
  PROVE  /\ Spent \in Nat /\ hello <= Spent /\ stop_age <= Spent
         /\ hello \in Nat \cup {Never} /\ stop_age \in Nat \cup {Never}
         /\ lost \in Nat \cup {Never}
         /\ age \in Nat /\ ping_left \in Nat /\ silence \in Nat /\ late \in Nat
         /\ worst \in Nat /\ owed \in Nat /\ pongs \in Nat
         /\ PingInterval \in Nat /\ ping_left <= PingInterval
BY Accounts, Times DEF WatchdogInv, Types, Startup, Stops, Pings

\* Every packet that is handled resets last_ping_response.
LEMMA Heard ==
  ASSUME WatchdogInv, Alive, age' = 0, lost # Never => lost <= Spent,
         UNCHANGED <<thread, dumps, link, ping_left, owed, late, worst, silence, lost,
                     ticked, stop_age>>,
         pongs' = pongs \/ pongs' = pongs - 1, hello' = hello \/ hello' = Never,
         Types', Flags', Channel'
  PROVE  WatchdogInv'
<1>1. loc' = loc /\ waited' = waited
  BY DEF thread
<1>2. Spent' = Spent /\ Alive'
  BY <1>1, SameAccount
<1>3. Pings'
  BY <1>2 DEF WatchdogInv, Pings
<1>4. Ages'
  <2>1. /\ 0 <= PingInterval + worst + Spent /\ 0 <= PingInterval + late + Spent
        /\ 0 <= PingInterval - ping_left + Spent
    BY AliveFacts
  <2>2. link = "up" /\ owed = 0 => silence <= PingInterval - ping_left + Spent
    BY DEF WatchdogInv, Ages
  <2> QED
    BY <1>2, <2>1, <2>2 DEF Ages
<1>5. Loss'
  <2> SUFFICES ASSUME lost # Never
               PROVE  /\ lost <= 0 + Spent
                      /\ lost <= Spent
                      /\ PingTimeout > 0 =>
                           /\ lost <= Allowed + HeapTimeout + 1 + Spent
                           /\ ticked => lost <= Allowed + HeapTimeout + Spent
    BY <1>2 DEF Loss
  <2>1. /\ lost <= Allowed + HeapTimeout + 1 + Spent
        /\ lost <= Allowed + HeapTimeout + Spent
    BY AliveFacts, Times
  <2> QED
    BY <2>1, AliveFacts
<1>6. hello' <= Spent /\ stop_age' <= Spent
  BY AliveFacts DEF Never
<1> QED
  BY <1>3, <1>4, <1>5, <1>6, BetweenTicks

\* handle_protocol.
LEMMA HandlePongStep == ASSUME WatchdogInv, HandlePong PROVE WatchdogInv'
<1>1. /\ Alive /\ pongs > 0 /\ age' = 0 /\ pongs' = pongs - 1
      /\ UNCHANGED <<thread, dumps, link, ping_left, owed, late, worst, silence, lost,
                     ticked, stop_age, hello, started, ever, reported, health,
                     startup_left, heap, heap_left>>
  BY DEF HandlePong, Alive, heapVars, jvmVars, requests
<1>2. lost # Never => lost <= Spent
  BY <1>1 DEF WatchdogInv, Loss
<1>3. Types'
  BY <1>1 DEF WatchdogInv, Types, thread
<1>4. Flags'
  BY <1>1, Zenon DEF WatchdogInv, Flags
<1>5. Channel'
  <2>1. pongs \in Nat
    BY DEF WatchdogInv, Types
  <2> QED
    BY <1>1, <2>1 DEF WatchdogInv, Channel, Connection
<1> QED
  BY <1>1, <1>2, <1>3, <1>4, <1>5, Heard

\* The same for STARTED, after which there is no startup deadline.
LEMMA HandleStartedStep == ASSUME WatchdogInv, HandleStarted PROVE WatchdogInv'
<1>1. /\ Alive /\ hello # Never /\ age' = 0 /\ hello' = Never
      /\ started' = TRUE /\ startup_left' = Never
      /\ UNCHANGED <<thread, dumps, link, ping_left, owed, late, worst, silence, lost,
                     ticked, stop_age, pongs, ever, reported, health, heap, heap_left>>
  BY DEF HandleStarted, Alive, heapVars, jvmVars, requests
<1>2. lost # Never => lost <= Spent
  BY <1>1 DEF WatchdogInv, Loss
<1>3. Types'
  BY <1>1 DEF WatchdogInv, Types, thread
<1>4. Flags'
  BY <1>1, Zenon DEF WatchdogInv, Flags
<1>5. Channel'
  <2>1. started'
    BY <1>1, Zenon
  <2> QED
    BY <1>1, <2>1 DEF WatchdogInv, Channel, Connection
<1> QED
  BY <1>1, <1>2, <1>3, <1>4, <1>5, Heard

\* The same for START_PENDING, which only a JVM sends that is not lost.
LEMMA HandleStartPendingStep ==
  ASSUME WatchdogInv, NEW hint \in Hints, HandleStartPending(hint)
  PROVE  WatchdogInv'
<1>1. /\ Alive /\ link = "up" /\ health = "well" /\ age' = 0
      /\ startup_left' = hint \/ startup_left' = startup_left
      /\ UNCHANGED <<thread, dumps, link, ping_left, owed, late, worst, silence, lost,
                     ticked, stop_age, pongs, hello, started, ever, reported, health,
                     heap, heap_left>>
  BY DEF HandleStartPending, Alive, heapVars, jvmVars, requests, queue
<1>2. lost = Never
  BY <1>1 DEF WatchdogInv, Channel
<1>3. Types'
  <2>1. hint \in Nat
    BY TimesAssumption
  <2> QED
    BY <1>1, <2>1 DEF WatchdogInv, Types, thread
<1>4. Flags'
  BY <1>1, Zenon DEF WatchdogInv, Flags
<1>5. Channel'
  BY <1>1 DEF WatchdogInv, Channel, Connection
<1> QED
  BY <1>1, <1>2, <1>3, <1>4, <1>5, Heard

\* A step that moves no clock and brings no connection.
LEMMA ClocksStand ==
  ASSUME WatchdogInv, Alive,
         UNCHANGED <<thread, dumps, age, ping_left, owed, late, worst, silence, lost,
                     ticked, pongs, hello, started, ever, reported>>,
         link' = link \/ link' # "up", Types', Channel', stop_age' <= Spent
  PROVE  WatchdogInv'
<1>1. loc' = loc /\ waited' = waited
  BY DEF thread
<1>2. Spent' = Spent /\ Alive'
  BY <1>1, SameAccount
<1>3. Pings'
  BY <1>2 DEF WatchdogInv, Pings
<1>4. Ages'
  BY <1>2 DEF WatchdogInv, Ages
<1>5. Loss'
  BY <1>2 DEF WatchdogInv, Loss
<1>6. Flags'
  BY Zenon DEF WatchdogInv, Flags
<1> QED
  BY <1>3, <1>4, <1>5, <1>6, AliveFacts, BetweenTicks

\* The queue has been emptied before Disconnected is handled.
LEMMA HandleDisconnectedStep == ASSUME WatchdogInv, HandleDisconnected PROVE WatchdogInv'
<1>1. /\ Alive /\ link = "broken" /\ link' = "gone" /\ pongs = 0 /\ hello = Never
      /\ UNCHANGED <<thread, dumps, age, ping_left, owed, late, worst, silence, lost,
                     ticked, pongs, hello, started, ever, reported, stop_age, health,
                     startup_left, heap, heap_left>>
  BY DEF HandleDisconnected, Alive, clocks, heapVars, jvmVars, requests, queue
<1>2. Types'
  BY <1>1 DEF WatchdogInv, Types, thread
<1>3. Channel'
  BY <1>1 DEF WatchdogInv, Channel, Connection
<1>4. stop_age' <= Spent
  BY <1>1, AliveFacts
<1> QED
  BY <1>1, <1>2, <1>3, <1>4, ClocksStand

\* Heap dumps start, freeze the JVM or leave it, and end; a JVM dials.
LEMMA HeapAndDialSteps ==
  ASSUME WatchdogInv, Alive, HandleHeapDump \/ WorkerDone \/ Freeze \/ Thaw \/ JvmDials
  PROVE  WatchdogInv'
<1>1. UNCHANGED <<thread, dumps, age, ping_left, owed, late, worst, silence, lost,
                  ticked, pongs, hello, started, ever, reported, stop_age, startup_left>>
  BY DEF HandleHeapDump, WorkerDone, Freeze, Thaw, JvmDials, clocks, heapVars, jvmVars,
         requests, queue
<1>2. /\ heap' \in {"none", "running", "finished"} /\ heap_left' \in Nat
      /\ health' \in {"well", "frozen", "hung"}
      /\ link' = link \/ (link = "none" /\ link' = "dialled")
      /\ health = "hung" => health' = "hung"
  BY Times DEF WatchdogInv, Types, HandleHeapDump, WorkerDone, Freeze, Thaw, JvmDials, heapVars, jvmVars
<1>3. Types'
  BY <1>1, <1>2 DEF WatchdogInv, Types, thread
<1>4. Channel'
  BY <1>1, <1>2 DEF WatchdogInv, Channel, Connection
<1>5. stop_age' <= Spent
  BY <1>1, AliveFacts
<1> QED
  BY <1>1, <1>2, <1>3, <1>4, <1>5, ClocksStand

\* The service control handler posts Stop.
LEMMA PostStopStep == ASSUME WatchdogInv, PostStop PROVE WatchdogInv'
<1>1. /\ Alive /\ stop_age' = 0
      /\ UNCHANGED <<thread, dumps, age, ping_left, owed, late, worst, silence, lost,
                     ticked, pongs, hello, started, ever, reported, link, health,
                     startup_left, heap, heap_left>>
  BY DEF PostStop, Alive, clocks, heapVars, jvmVars, queue
<1>2. Types'
  BY <1>1 DEF WatchdogInv, Types, thread
<1>3. Channel'
  BY <1>1 DEF WatchdogInv, Channel, Connection
<1>4. stop_age' <= Spent
  BY <1>1, AliveFacts
<1> QED
  BY <1>1, <1>2, <1>3, <1>4, ClocksStand

\* The JVM writes STARTED.
LEMMA JvmReportsStep == ASSUME WatchdogInv, Alive, JvmReports PROVE WatchdogInv'
<1>1. /\ link = "up" /\ health = "well" /\ reported' = TRUE /\ hello' = 0
      /\ UNCHANGED <<thread, dumps, age, ping_left, owed, late, worst, silence, lost,
                     ticked, pongs, started, ever, link, health, stop_age,
                     startup_left, heap, heap_left>>
  BY DEF JvmReports, clocks, heapVars, requests
<1>2. lost = Never
  BY <1>1 DEF WatchdogInv, Channel
<1>3. loc' = loc /\ waited' = waited
  BY <1>1 DEF thread
<1>4. Spent' = Spent /\ Alive'
  BY <1>1, <1>3, SameAccount
<1>5. Types'
  BY <1>1 DEF WatchdogInv, Types, thread
<1>6. Flags'
  BY <1>1, Zenon DEF WatchdogInv, Flags
<1>7. Channel'
  BY <1>1, <1>2 DEF WatchdogInv, Channel, Connection, Never
<1>8. Pings' /\ Ages' /\ Loss'
  BY <1>1, <1>2, <1>4 DEF WatchdogInv, Pings, Ages, Loss
<1>9. hello' <= Spent /\ stop_age' <= Spent
  BY <1>1, AliveFacts
<1> QED
  BY <1>1, <1>5, <1>6, <1>7, <1>8, <1>9, BetweenTicks

\* The JVM answers its pings: what the wrapper has waited is on record in worst.
LEMMA JvmAnswersStep == ASSUME WatchdogInv, Alive, JvmAnswers PROVE WatchdogInv'
<1>1. /\ link = "up" /\ health = "well" /\ owed > 0
      /\ pongs' = pongs + owed /\ owed' = 0 /\ late' = 0 /\ silence' = 0
      /\ UNCHANGED <<thread, dumps, age, ping_left, worst, lost,
                     ticked, hello, started, ever, reported, link, health, stop_age,
                     startup_left, heap, heap_left>>
  BY DEF JvmAnswers, clocks, heapVars, requests
<1>2. lost = Never
  BY <1>1 DEF WatchdogInv, Channel
<1>3. loc' = loc /\ waited' = waited
  BY <1>1 DEF thread
<1>4. Spent' = Spent /\ Alive'
  BY <1>1, <1>3, SameAccount
<1>5. pongs' \in Nat /\ pongs' > 0
  BY <1>1, AliveFacts
<1>6. Types'
  BY <1>1, <1>5 DEF WatchdogInv, Types, thread
<1>7. Flags'
  BY <1>1, Zenon DEF WatchdogInv, Flags
<1>8. Channel'
  BY <1>1, <1>2 DEF WatchdogInv, Channel, Connection
<1>9. Pings'
  BY <1>1, <1>4, AliveFacts DEF WatchdogInv, Pings
<1>10. Ages'
  <2>1. 0 <= PingInterval - ping_left + Spent
    BY AliveFacts
  <2>2. age <= PingInterval + worst + Spent
    BY <1>1 DEF WatchdogInv, Ages
  <2> QED
    BY <1>1, <1>4, <1>5, <2>1, <2>2 DEF Ages
<1>11. Loss'
  BY <1>1, <1>2 DEF Loss
<1>12. hello' <= Spent /\ stop_age' <= Spent
  BY <1>1, AliveFacts
<1> QED
  BY <1>1, <1>6, <1>7, <1>8, <1>9, <1>10, <1>11, <1>12, BetweenTicks

\* The JVM hangs or loses its channel: its loss begins now.
LEMMA JvmBreaksStep == ASSUME WatchdogInv, Alive, JvmBreaks PROVE WatchdogInv'
<1>1. /\ link = "up" /\ lost = Never /\ lost' = 0
      /\ \/ health' = "hung" /\ link' = link
         \/ health' = health /\ link' = "broken"
      /\ UNCHANGED <<thread, dumps, age, ping_left, owed, late, worst, silence,
                     ticked, pongs, hello, started, ever, reported, stop_age,
                     startup_left, heap, heap_left>>
  BY DEF JvmBreaks, clocks, heapVars, requests, queue
<1>2. loc' = loc /\ waited' = waited
  BY <1>1 DEF thread
<1>3. Spent' = Spent /\ Alive'
  BY <1>1, <1>2, SameAccount
<1>4. Types'
  BY <1>1 DEF WatchdogInv, Types, thread
<1>5. Flags'
  BY <1>1, Zenon DEF WatchdogInv, Flags
<1>6. Channel'
  BY <1>1 DEF WatchdogInv, Channel, Connection, Never
<1>7. Pings' /\ Ages'
  BY <1>1, <1>3 DEF WatchdogInv, Pings, Ages
<1>8. Loss'
  <2>1. /\ 0 <= age + Spent /\ 0 <= Spent
        /\ 0 <= Allowed + HeapTimeout + 1 + Spent
        /\ 0 <= Allowed + HeapTimeout + Spent
    BY AliveFacts, Times
  <2> QED
    BY <1>1, <1>3, <2>1 DEF Loss
<1>9. hello' <= Spent /\ stop_age' <= Spent
  BY <1>1, AliveFacts
<1> QED
  BY <1>1, <1>4, <1>5, <1>6, <1>7, <1>8, <1>9, BetweenTicks

-----------------------------------------------------------------------------
(* Thread dumps.                                                           *)

\* A bound may be taken with a later account.
LEMMA Longer ==
  \A s, t \in Nat : s <= t => \A x, y \in Int : x <= y + s => x <= y + t
OBVIOUS

\* A dump begins or ends: its time moves from what may come to what was spent,
\* and no clock notices.
LEMMA DumpSteps ==
  ASSUME WatchdogInv, HandleThreadDump \/ DumpDone
  PROVE  WatchdogInv'
<1>1. /\ Alive /\ Alive' /\ waited' = 0 /\ reason' = reason
      /\ UNCHANGED <<age, ping_left, owed, late, worst, silence, lost,
                     ticked, pongs, hello, started, ever, reported, link, health, stop_age,
                     startup_left, heap, heap_left>>
  BY DEF HandleThreadDump, DumpDone, Wait, Alive, clocks, heapVars, jvmVars, requests, queue
<1>2. /\ loc' \in {"running", "dumping"} /\ dumps' \in Nat
      /\ Spent \in Nat /\ Spent' \in Nat /\ Spent <= Spent' /\ Blocking' = Blocking
      /\ Budget'
  <2>1. /\ dumps \in Nat /\ DumpTimeout \in Nat \ {0} /\ waited \in Nat
        /\ Blocking \in Nat /\ Left \in Nat /\ Left <= Blocking
        /\ reason = "none"
    BY <1>1, Accounts, Times DEF WatchdogInv, Types, Budget
  <2>2. Blocking' = Blocking
    BY DEF Blocking
  <2>3. CASE HandleThreadDump
    <3>1. loc = "running" /\ loc' = "dumping" /\ Jcmd /\ dumps > 0 /\ dumps' = dumps - 1
      BY <2>3 DEF HandleThreadDump, Wait
    <3>2. Left = dumps * DumpTimeout /\ Left' = (dumps - 1) * DumpTimeout
      BY <3>1 DEF Left
    <3>3. (dumps - 1) * DumpTimeout = dumps * DumpTimeout - DumpTimeout
      BY <2>1
    <3>4. (dumps - 1) * DumpTimeout \in Nat
      BY <2>1, <3>1
    <3>5. Left' = Left - DumpTimeout /\ Left' \in Nat
      BY <3>2, <3>3, <3>4
    <3>6. Spent = Blocking - Left /\ Spent' = Blocking - Left' - DumpTimeout + 0
      BY <1>1, <2>2, <3>1 DEF Spent
    <3>7. Left' + DumpTimeout = Left
      BY <2>1, <3>5
    <3>8. Spent' = Spent /\ Spent \in Nat
      BY <2>1, <3>5, <3>6
    <3>9. Budget'
      BY <1>1, <2>1, <2>2, <3>5, <3>7 DEF Budget
    <3> QED
      BY <2>1, <2>2, <3>1, <3>8, <3>9
  <2>4. CASE DumpDone
    <3>1. loc = "dumping" /\ loc' = "running" /\ dumps' = dumps
      BY <2>4 DEF DumpDone, Wait, requests
    <3>2. Left' = Left
      BY <3>1 DEF Left
    <3>3. /\ Spent = Blocking - Left - DumpTimeout + waited /\ Spent' = Blocking - Left
          /\ waited <= DumpTimeout
      BY <2>2, <3>1, <3>2 DEF Spent, WatchdogInv, Budget
    <3>4. Spent \in Nat
      BY <1>1, Accounts DEF WatchdogInv
    <3>5. Spent <= Blocking - Left /\ Blocking - Left \in Nat
      BY <2>1, <3>3, <3>4
    <3>6. Budget'
      BY <1>1, <2>1, <2>2, <3>1, <3>2 DEF Budget
    <3> QED
      BY <2>1, <2>2, <3>1, <3>3, <3>4, <3>5, <3>6
  <2> QED
    BY <2>3, <2>4
<1>3. \A x \in Int : x <= Spent => x <= Spent'
  BY <1>2
<1>4. Types'
  BY <1>1, <1>2 DEF WatchdogInv, Types
<1>5. Flags'
  BY <1>1, Zenon DEF WatchdogInv, Flags
<1>6. Channel'
  BY <1>1 DEF WatchdogInv, Channel, Connection
<1>7. Pings'
  BY <1>1 DEF WatchdogInv, Pings
<1>8. Ages'
  <2>1. \A x, y \in Int : x <= y + Spent => x <= y + Spent'
    BY <1>2, Longer
  <2>2. /\ age \in Int /\ silence \in Int /\ PingInterval + worst \in Int
        /\ PingInterval - ping_left \in Int /\ PingInterval + late \in Int
    BY <1>1, AliveFacts
  <2> QED
    BY <1>1, <2>1, <2>2 DEF WatchdogInv, Ages
<1>9. Loss'
  <2> SUFFICES ASSUME lost # Never
               PROVE  /\ lost <= age + Spent'
                      /\ pongs > 0 \/ hello # Never => lost <= Spent'
                      /\ PingTimeout > 0 =>
                           /\ lost <= Allowed + HeapTimeout + 1 + Spent'
                           /\ ticked => lost <= Allowed + HeapTimeout + Spent'
    BY <1>1 DEF Loss
  <2>1. \A x, y \in Int : x <= y + Spent => x <= y + Spent'
    BY <1>2, Longer
  <2>2. lost \in Int /\ age \in Int /\ Allowed + HeapTimeout + 1 \in Int /\ Allowed + HeapTimeout \in Int
    BY <1>1, AliveFacts, Times
  <2> QED
    BY <1>1, <1>3, <2>1, <2>2 DEF WatchdogInv, Loss
<1>10. Startup'
  <2>1. hello \in Int /\ reason' = "none"
    BY <1>1, AliveFacts DEF Never, WatchdogInv, Budget
  <2> QED
    BY <1>1, <1>3, <2>1 DEF WatchdogInv, Startup
<1>11. Verdicts'
  BY <1>1 DEF Verdicts, WatchdogInv, Budget
<1>12. Stops'
  <2>1. stop_age \in Int
    BY <1>1, AliveFacts DEF Never
  <2> QED
    BY <1>1, <1>2, <1>3, <2>1 DEF WatchdogInv, Stops
<1> QED
  BY <1>2, <1>4, <1>5, <1>6, <1>7, <1>8, <1>9, <1>10, <1>11, <1>12 DEF WatchdogInv

-----------------------------------------------------------------------------
(* Time.                                                                   *)

\* A clock that runs up moves by at most one, and a bound between two of them
\* lasts, also where they stop.
LEMMA ClocksUp ==
  /\ \A c \in Nat : Up(c) \in Nat /\ c <= Up(c) /\ Up(c) <= c + 1
  /\ \A a, b, c \in Nat : a <= b + c => Up(a) <= Up(b) + c
BY Times DEF Up

\* The same for a clock that may not be set.
LEMMA ClocksUpIfSet ==
  \A c \in Nat \cup {Never} :
    /\ UpIfSet(c) \in Nat \cup {Never} /\ (UpIfSet(c) = Never <=> c = Never)
    /\ UpIfSet(c) \in Int /\ UpIfSet(c) <= c + 1
    /\ c # Never => c \in Nat /\ UpIfSet(c) = Up(c)
<1> SUFFICES ASSUME NEW c \in Nat \cup {Never}
             PROVE  /\ UpIfSet(c) \in Nat \cup {Never} /\ (UpIfSet(c) = Never <=> c = Never)
                    /\ UpIfSet(c) \in Int /\ UpIfSet(c) <= c + 1
                    /\ c # Never => c \in Nat /\ UpIfSet(c) = Up(c)
  OBVIOUS
<1>1. CASE c = Never
  BY <1>1 DEF UpIfSet, Never
<1>2. CASE c # Never
  <2>1. c \in Nat /\ UpIfSet(c) = Up(c)
    BY <1>2 DEF UpIfSet
  <2>2. Up(c) \in Nat /\ Up(c) <= c + 1
    BY <2>1, ClocksUp
  <2> QED
    BY <1>2, <2>1, <2>2 DEF Never
<1> QED
  BY <1>1, <1>2

\* The same for a clock that runs down.
LEMMA ClocksDown ==
  /\ \A c \in Nat : Down(c) \in Nat /\ Down(c) <= c /\ (c > 0 => Down(c) = c - 1)
  /\ \A c \in Nat \cup {Never} : Down(c) \in Nat \cup {Never}
BY DEF Down, Never

\* What a unit of time does to a JVM that is supervised.
LEMMA ElapseAlive ==
  ASSUME WatchdogInv, Elapse, Alive
  PROVE  /\ NothingDue
         /\ waited' = IF loc = "running" THEN waited ELSE waited + 1
         /\ stop_age' = UpIfSet(stop_age) /\ age' = Up(age) /\ ping_left' = Down(ping_left)
         /\ startup_left' = Down(startup_left) /\ ticked' = FALSE
         /\ late' = IF owed > 0 THEN Up(late) ELSE late
         /\ hello' = UpIfSet(hello) /\ silence' = Up(silence) /\ lost' = UpIfSet(lost)
         /\ UNCHANGED <<loc, reason, link, started, ever, heap, health, owed, reported,
                        pongs, dumps>>
         /\ late \in Nat /\ late' \in Nat /\ late <= late' /\ worst \in Nat /\ worst' \in Nat
         /\ worst <= worst' /\ late' <= worst'
         /\ Types' /\ Flags' /\ Channel' /\ Pings'
<1>1. /\ NothingDue
      /\ waited' = IF loc = "running" THEN waited ELSE waited + 1
      /\ stop_age' = UpIfSet(stop_age) /\ age' = Up(age) /\ ping_left' = Down(ping_left)
      /\ startup_left' = Down(startup_left) /\ ticked' = FALSE
      /\ heap_left' = IF heap = "running" THEN Down(heap_left) ELSE heap_left
      /\ late' = IF owed > 0 THEN Up(late) ELSE late
      /\ worst' = Larger(worst, late')
      /\ hello' = UpIfSet(hello) /\ silence' = Up(silence) /\ lost' = UpIfSet(lost)
      /\ UNCHANGED <<loc, reason, link, started, ever, heap, health, owed, reported,
                     pongs, dumps>>
  BY DEF Elapse, Alive, Blocked
<1>2. Types
  BY DEF WatchdogInv
<1>3. late \in Nat /\ late' \in Nat /\ late <= late'
  BY <1>1, <1>2, ClocksUp DEF Types
<1>4. worst \in Nat /\ worst' \in Nat /\ worst <= worst' /\ late' <= worst'
  <2>1. worst \in Nat
    BY <1>2 DEF Types
  <2>2. \A a, b \in Nat : Larger(a, b) \in Nat /\ a <= Larger(a, b) /\ b <= Larger(a, b)
    BY DEF Larger
  <2> QED
    BY <1>1, <1>3, <2>1, <2>2
<1>5. /\ waited' \in Nat /\ age' \in Nat /\ ping_left' \in Nat /\ heap_left' \in Nat
      /\ silence' \in Nat /\ startup_left' \in Nat \cup {Never}
      /\ hello' \in Nat \cup {Never} /\ lost' \in Nat \cup {Never}
      /\ stop_age' \in Nat \cup {Never}
  <2>1. waited' \in Nat /\ age' \in Nat /\ silence' \in Nat
    BY <1>1, <1>2, ClocksUp DEF Types
  <2>2. ping_left' \in Nat /\ heap_left' \in Nat /\ startup_left' \in Nat \cup {Never}
    BY <1>1, <1>2, ClocksDown DEF Types
  <2>3. /\ hello' \in Nat \cup {Never} /\ lost' \in Nat \cup {Never}
        /\ stop_age' \in Nat \cup {Never}
    BY <1>1, <1>2, ClocksUpIfSet DEF Types
  <2> QED
    BY <2>1, <2>2, <2>3
<1>6. Types'
  BY <1>1, <1>2, <1>3, <1>4, <1>5 DEF Types
<1>7. Flags'
  BY <1>1, Zenon DEF WatchdogInv, Flags
<1>8. Channel'
  <2>1. (hello' = Never <=> hello = Never) /\ (lost' = Never <=> lost = Never)
    BY <1>1, <1>2, ClocksUpIfSet DEF Types
  <2> QED
    BY <1>1, <2>1 DEF WatchdogInv, Channel, Connection
<1>9. Pings'
  <2>1. ping_left \in Nat /\ ping_left <= PingInterval /\ (owed = 0 => late = 0)
    BY <1>2 DEF WatchdogInv, Pings, Types
  <2>2. Down(ping_left) <= PingInterval
    BY <2>1, ClocksDown, Times
  <2>3. ~ticked'
    BY <1>1, Zenon
  <2>4. owed = 0 => late' = 0
    BY <1>1, <2>1
  <2> QED
    BY <1>1, <1>4, <2>2, <2>3, <2>4 DEF Pings
<1> QED
  BY <1>1, <1>3, <1>4, <1>6, <1>7, <1>8, <1>9

\* In the event loop time passes only when the queue is empty and this unit's
\* tick has come.
LEMMA ElapseRunning ==
  ASSUME WatchdogInv, Elapse, loc = "running"
  PROVE  WatchdogInv'
<1>1. Alive
  BY DEF Alive
<1>2. /\ ticked /\ stop_age = Never /\ (Connection => pongs = 0 /\ hello = Never)
      /\ link # "broken"
  BY <1>1, ElapseAlive DEF NothingDue
<1>3. pongs = 0 /\ hello = Never
  BY <1>1, <1>2, AliveFacts DEF WatchdogInv, Channel
<1>4. stop_age' = Never /\ hello' = Never
  BY <1>1, <1>2, <1>3, ElapseAlive DEF UpIfSet
<1>5. UNCHANGED thread /\ dumps' = dumps
  BY <1>1, ElapseAlive DEF thread
<1>6. Spent' = Spent /\ Alive'
  BY <1>1, <1>5, SameAccount DEF thread
<1>7. ~ticked'
  BY <1>1, ElapseAlive, Zenon
<1>8. Ages'
  <2> SUFFICES ASSUME link = "up"
               PROVE  /\ Up(age) <= PingInterval + worst' + Spent
                      /\ owed = 0 => Up(age) <= PingInterval - Down(ping_left) + Spent
                      /\ owed > 0 => Up(age) <= PingInterval + late' + Spent
                      /\ owed = 0 => Up(silence) <= PingInterval - Down(ping_left) + Spent
    BY <1>1, <1>6, ElapseAlive DEF Ages
  <2>1. ping_left > 0 /\ Down(ping_left) = ping_left - 1
    BY <1>1, <1>2, AliveFacts, ClocksDown DEF WatchdogInv, Pings
  <2>2. /\ owed = 0 => age <= PingInterval - ping_left + Spent
        /\ owed > 0 => age <= PingInterval + late + Spent
        /\ owed = 0 => silence <= PingInterval - ping_left + Spent
    BY <1>1, <1>3 DEF WatchdogInv, Ages
  <2>3. /\ Up(age) \in Nat /\ Up(age) <= age + 1
        /\ Up(silence) \in Nat /\ Up(silence) <= silence + 1
    BY <1>1, AliveFacts, ClocksUp
  <2>4. owed = 0 =>
          /\ Up(age) <= PingInterval - Down(ping_left) + Spent
          /\ Up(silence) <= PingInterval - Down(ping_left) + Spent
          /\ Up(age) <= PingInterval + 0 + Spent
    BY <1>1, <2>1, <2>2, <2>3, AliveFacts
  <2>5. owed > 0 => Up(age) <= PingInterval + Up(late) + Spent
    <3>1. PingInterval + Spent \in Nat /\ age \in Nat /\ late \in Nat
      BY <1>1, AliveFacts
    <3>2. age <= late + (PingInterval + Spent) => Up(age) <= Up(late) + (PingInterval + Spent)
      BY <3>1, ClocksUp
    <3>3. Up(late) \in Nat /\ PingInterval \in Nat /\ Spent \in Nat
      BY <1>1, <3>1, AliveFacts, ClocksUp
    <3> QED
      BY <2>2, <2>3, <3>1, <3>2, <3>3
  <2>6. \A a, b \in Nat : a <= b =>
          \A x \in Nat : x <= PingInterval + a + Spent => x <= PingInterval + b + Spent
    BY <1>1, AliveFacts
  <2>7. /\ worst' \in Nat /\ 0 <= worst' /\ late' \in Nat /\ late' <= worst'
        /\ owed > 0 => late' = Up(late)
    BY <1>1, ElapseAlive
  <2>8. owed = 0 \/ owed > 0
    BY <1>1, AliveFacts
  <2>9. owed > 0 => Up(age) <= PingInterval + late' + Spent
    BY <2>5, <2>7
  <2>10. Up(age) <= PingInterval + worst' + Spent
    BY <2>3, <2>4, <2>6, <2>7, <2>8, <2>9
  <2> QED
    BY <2>4, <2>9, <2>10
<1>9. Loss'
  <2> SUFFICES ASSUME lost # Never
               PROVE  /\ Up(lost) <= Up(age) + Spent
                      /\ PingTimeout > 0 => Up(lost) <= Allowed + HeapTimeout + 1 + Spent
    <3>1. lost' # Never => lost # Never /\ lost' = Up(lost)
      BY <1>1, AliveFacts, ElapseAlive, ClocksUpIfSet
    <3>2. pongs' = 0 /\ hello' = Never /\ age' = Up(age)
      BY <1>1, <1>3, <1>4, ElapseAlive
    <3> QED
      BY <1>6, <1>7, <3>1, <3>2 DEF Loss
  <2>1. lost \in Nat /\ age \in Nat /\ Spent \in Nat
    BY <1>1, AliveFacts
  <2>2. lost <= age + Spent /\ (PingTimeout > 0 => lost <= Allowed + HeapTimeout + Spent)
    BY <1>1, <1>2 DEF WatchdogInv, Loss
  <2>3. Up(lost) <= Up(age) + Spent /\ Up(lost) \in Nat /\ Up(lost) <= lost + 1
    BY <2>1, <2>2, ClocksUp
  <2>4. PingTimeout > 0 => Up(lost) <= Allowed + HeapTimeout + 1 + Spent
    BY <2>1, <2>2, <2>3, Times
  <2> QED
    BY <2>3, <2>4
<1>10. hello' <= Spent /\ stop_age' <= Spent
  BY <1>1, <1>4, AliveFacts DEF Never
<1> QED
  BY <1>1, <1>5, <1>8, <1>9, <1>10, ElapseAlive, BetweenTicks

\* During a dump the account pays for every unit.
LEMMA ElapseDumping ==
  ASSUME WatchdogInv, Elapse, loc = "dumping"
  PROVE  WatchdogInv'
<1>1. Alive
  BY DEF Alive
<1>2. /\ loc' = "dumping" /\ Alive' /\ reason' = "none" /\ waited' = waited + 1
      /\ waited < DumpTimeout /\ waited \in Nat /\ Left' = Left /\ Blocking' = Blocking
      /\ dumps' = dumps
  BY <1>1, ElapseAlive DEF Alive, WatchdogInv, Types, Budget, NothingDue, WaitLimit, Left, Blocking
<1>3. Spent \in Nat /\ Spent' = Spent + 1
  <2>1. Blocking \in Nat /\ Left \in Nat /\ Spent \in Nat /\ DumpTimeout \in Nat
    BY <1>1, Accounts, Times DEF WatchdogInv
  <2>2. Spent = Blocking - Left - DumpTimeout + waited
    BY DEF Spent
  <2>3. Spent' = Blocking - Left - DumpTimeout + (waited + 1)
    BY <1>2 DEF Spent
  <2> QED
    BY <1>2, <2>1, <2>2, <2>3
<1>4. Budget'
  <2>1. waited + 1 <= DumpTimeout
    BY <1>2, Times
  <2> QED
    BY <1>2, <2>1 DEF WatchdogInv, Budget
<1>5. ~ticked'
  BY <1>1, ElapseAlive, Zenon
<1>6. \A x, y, u, v \in Int : x <= y + Spent /\ u <= x + 1 /\ y <= v => u <= v + (Spent + 1)
  BY <1>3
<1>7. /\ Up(age) \in Nat /\ Up(age) <= age + 1 /\ age <= Up(age)
      /\ Up(silence) \in Nat /\ Up(silence) <= silence + 1
      /\ Down(ping_left) \in Nat /\ Down(ping_left) <= ping_left
  BY <1>1, AliveFacts, ClocksUp, ClocksDown
<1>8. Ages'
  <2> SUFFICES ASSUME link = "up"
               PROVE  /\ Up(age) <= PingInterval + worst' + (Spent + 1)
                      /\ pongs = 0 /\ owed = 0 => Up(age) <= PingInterval - Down(ping_left) + (Spent + 1)
                      /\ pongs = 0 /\ owed > 0 => Up(age) <= PingInterval + late' + (Spent + 1)
                      /\ owed = 0 => Up(silence) <= PingInterval - Down(ping_left) + (Spent + 1)
    BY <1>1, <1>2, <1>3, ElapseAlive DEF Ages
  <2>1. /\ age <= PingInterval + worst + Spent
        /\ pongs = 0 /\ owed = 0 => age <= PingInterval - ping_left + Spent
        /\ pongs = 0 /\ owed > 0 => age <= PingInterval + late + Spent
        /\ owed = 0 => silence <= PingInterval - ping_left + Spent
    BY <1>1 DEF WatchdogInv, Ages
  <2>2. /\ worst \in Nat /\ worst' \in Nat /\ worst <= worst'
        /\ late \in Nat /\ late' \in Nat /\ late <= late'
    BY <1>1, ElapseAlive
  <2>3. \A a, b \in Nat : a <= b =>
          PingInterval + a \in Int /\ PingInterval + b \in Int /\ PingInterval + a <= PingInterval + b
    BY Times
  <2>4. /\ PingInterval + worst \in Int /\ PingInterval + worst' \in Int
        /\ PingInterval + worst <= PingInterval + worst'
        /\ PingInterval + late \in Int /\ PingInterval + late' \in Int
        /\ PingInterval + late <= PingInterval + late'
    BY <2>2, <2>3
  <2>5. /\ PingInterval - ping_left \in Int /\ PingInterval - Down(ping_left) \in Int
        /\ PingInterval - ping_left <= PingInterval - Down(ping_left)
        /\ age \in Int /\ silence \in Int /\ Up(age) \in Int /\ Up(silence) \in Int
    BY <1>1, <1>7, AliveFacts
  <2> QED
    BY <1>6, <1>7, <2>1, <2>4, <2>5
<1>9. Loss'
  <2> SUFFICES ASSUME lost # Never
               PROVE  /\ Up(lost) <= Up(age) + (Spent + 1)
                      /\ pongs > 0 \/ hello # Never => Up(lost) <= Spent + 1
                      /\ PingTimeout > 0 => Up(lost) <= Allowed + HeapTimeout + 1 + (Spent + 1)
    <3>1. /\ lost' # Never => lost # Never /\ lost' = Up(lost)
          /\ hello' # Never => hello # Never
      BY <1>1, AliveFacts, ElapseAlive, ClocksUpIfSet
    <3>2. pongs' = pongs /\ age' = Up(age)
      BY <1>1, ElapseAlive
    <3> QED
      BY <1>3, <1>5, <3>1, <3>2 DEF Loss
  <2>1. lost \in Nat /\ age \in Nat /\ Spent \in Nat
    BY <1>1, AliveFacts
  <2>2. /\ lost <= age + Spent
        /\ pongs > 0 \/ hello # Never => lost <= Spent
        /\ PingTimeout > 0 => lost <= Allowed + HeapTimeout + 1 + Spent
    BY <1>1 DEF WatchdogInv, Loss
  <2>3. Up(lost) \in Nat /\ Up(lost) <= lost + 1
    BY <2>1, ClocksUp
  <2> QED
    BY <1>7, <2>1, <2>2, <2>3, Times
<1>10. Startup'
  <2>1. hello \in Nat \cup {Never} /\ hello <= Spent /\ hello' = UpIfSet(hello)
    BY <1>1, AliveFacts, ElapseAlive
  <2>2. UpIfSet(hello) \in Int /\ UpIfSet(hello) <= hello + 1
    BY <2>1, ClocksUpIfSet
  <2>3. UpIfSet(hello) <= Spent + 1
    BY <1>3, <2>1, <2>2 DEF Never
  <2> QED
    BY <1>2, <1>3, <2>1, <2>3 DEF Startup
<1>11. Verdicts'
  BY <1>2 DEF Verdicts
<1>12. Stops'
  <2>1. stop_age \in Nat \cup {Never} /\ stop_age <= Spent /\ stop_age' = UpIfSet(stop_age)
    BY <1>1, AliveFacts, ElapseAlive
  <2>2. UpIfSet(stop_age) \in Int /\ UpIfSet(stop_age) <= stop_age + 1
    BY <2>1, ClocksUpIfSet
  <2>3. UpIfSet(stop_age) <= Spent + 1
    BY <1>3, <2>1, <2>2 DEF Never
  <2> QED
    BY <1>2, <1>3, <2>1, <2>3 DEF Stops
<1> QED
  BY <1>1, <1>4, <1>8, <1>9, <1>10, <1>11, <1>12, ElapseAlive DEF WatchdogInv

\* During a shutdown only the wait and the patience of the SCM advance.
LEMMA ElapseBlocked ==
  ASSUME WatchdogInv, Elapse, ~Alive
  PROVE  WatchdogInv'
<1>1. /\ loc \in Blocked /\ loc' = loc /\ reason' = reason /\ waited' = waited + 1
      /\ waited < WaitLimit /\ stop_age' = UpIfSet(stop_age)
      /\ UNCHANGED <<age, ping_left, owed, late, worst, silence, lost,
                     ticked, pongs, hello, started, ever, reported, link, health,
                     startup_left, heap, heap_left, dumps>>
  BY DEF Elapse, NothingDue, Alive, Blocked, WatchdogInv, Types, clocks
<1>2. ~Alive' /\ Left' = Left /\ Blocking' = Blocking
  BY <1>1 DEF Alive, Left, Blocking
<1>3. /\ stop_age \in Nat \cup {Never} /\ stop_age \in Int /\ waited \in Nat
      /\ UpIfSet(stop_age) \in Nat \cup {Never} /\ UpIfSet(stop_age) \in Int
      /\ UpIfSet(stop_age) <= stop_age + 1
  <2>1. stop_age \in Nat \cup {Never} /\ waited \in Nat
    BY DEF WatchdogInv, Types
  <2> QED
    BY <2>1, ClocksUpIfSet DEF Never
<1>4. Types'
  BY <1>1, <1>3 DEF WatchdogInv, Types
<1>5. Flags'
  BY <1>1, Zenon DEF WatchdogInv, Flags
<1>6. Budget' /\ Startup' /\ Verdicts'
  BY <1>1, <1>2 DEF WatchdogInv, Budget, Startup, Verdicts, Alive, Blocked
<1>7. Channel' /\ Pings' /\ Ages' /\ Loss'
  BY <1>1, <1>2 DEF WatchdogInv, Channel, Connection, Pings, Ages, Loss
<1>8. Stops'
  <2>1. \A b \in Nat : stop_age <= b + waited => UpIfSet(stop_age) <= b + (waited + 1)
    BY <1>3
  <2>2. /\ Blocking \in Nat /\ AtShutdown \in Nat /\ AfterDump \in Nat /\ AtDrain \in Nat
    <3>1. Blocking \in Nat
      BY Accounts DEF WatchdogInv
    <3> QED
      BY <3>1, Times DEF AtShutdown, AfterDump, AtDrain
  <2>3. /\ loc = "stopping" => waited + 1 <= ShutdownTimeout
        /\ loc = "stop_dump" => waited + 1 <= DumpTimeout
        /\ loc = "grace" => waited + 1 <= Grace
        /\ loc = "draining" => waited + 1 <= DrainTime
    BY <1>1, <1>3, Times DEF WaitLimit
  <2>4. AtShutdown' = AtShutdown /\ AfterDump' = AfterDump /\ AtDrain' = AtDrain
    BY DEF AtShutdown, AfterDump, AtDrain, Blocking, Grace
  <2> QED
    BY <1>1, <1>2, <2>1, <2>2, <2>3, <2>4 DEF WatchdogInv, Stops
<1> QED
  BY <1>4, <1>5, <1>6, <1>7, <1>8 DEF WatchdogInv

-----------------------------------------------------------------------------
(* The theorems.                                                           *)

\* run_once has just spawned the child.
LEMMA WatchdogInit == ASSUME Init PROVE WatchdogInv
<1>1. /\ loc = "running" /\ reason = "none" /\ waited = 0 /\ link = "none"
      /\ age = 0 /\ ping_left = PingInterval /\ heap = "none" /\ heap_left = 0
      /\ health = "well" /\ owed = 0 /\ late = 0 /\ worst = 0 /\ silence = 0
      /\ lost = Never /\ pongs = 0 /\ hello = Never /\ stop_age = Never
      /\ dumps = MaxDumps /\ startup_left \in Nat \cup {Never}
  BY Times DEF Init
<1>2. /\ started = FALSE /\ ever = FALSE /\ ticked = FALSE /\ reported = FALSE
  BY DEF Init
<1>3. ~started /\ ~ever /\ ~ticked /\ ~reported /\ Flags
  BY <1>2, Zenon DEF Flags
<1>4. Types
  BY <1>1, Times DEF Types
<1>5. /\ Alive /\ Left = Blocking /\ Blocking \in Nat /\ Spent = 0
  <2>1. MaxDumps * DumpTimeout \in Nat
    BY Times
  <2>2. Left = Blocking /\ Blocking \in Nat
    BY <1>1, <2>1 DEF Left, Blocking
  <2> QED
    BY <1>1, <2>2 DEF Alive, Spent
<1>6. Budget
  BY <1>1, <1>5 DEF Budget
<1>7. Channel
  BY <1>1, <1>3 DEF Channel
<1>8. Pings /\ Ages /\ Loss
  BY <1>1, <1>3, Times DEF Pings, Ages, Loss
<1>9. Startup /\ Verdicts /\ Stops
  BY <1>1, <1>5 DEF Startup, Verdicts, Stops, Never
<1> QED
  BY <1>3, <1>4, <1>6, <1>7, <1>8, <1>9 DEF WatchdogInv

\* Every step keeps the invariant.
LEMMA WatchdogStep == ASSUME WatchdogInv, [Next]_vars PROVE WatchdogInv'
<1>1. CASE JvmStep
  <2>1. Alive
    BY <1>1 DEF JvmStep, Alive
  <2> QED
    BY <1>1, <2>1, HeapAndDialSteps, JvmReportsStep, JvmAnswersStep, JvmBreaksStep,
       LeaveStep DEF JvmStep
<1>2. CASE HandleHeapDump \/ WorkerDone
  <2>1. Alive
    BY <1>2 DEF HandleHeapDump, WorkerDone, Alive
  <2> QED
    BY <1>2, <2>1, HeapAndDialSteps
<1>3. CASE Elapse
  <2>1. Alive => loc \in {"running", "dumping"}
    BY DEF Alive
  <2> QED
    BY <1>3, <2>1, ElapseRunning, ElapseDumping, ElapseBlocked
<1>4. CASE UNCHANGED vars
  <2>1. /\ UNCHANGED <<loc, reason, waited, age, ping_left, owed, late, worst, silence, lost,
                       ticked, pongs, hello, started, ever, reported, link, health,
                       startup_left, heap, heap_left, dumps, stop_age>>
    BY <1>4 DEF vars, thread, clocks, heapVars, jvmVars, queue, requests
  <2>2. Types' /\ Channel' /\ Pings'
    BY <2>1 DEF WatchdogInv, Types, Channel, Pings, Connection, Alive
  <2>3. Flags'
    BY <2>1, Zenon DEF WatchdogInv, Flags
  <2>4. Left' = Left /\ Spent' = Spent /\ (Alive' <=> Alive) /\ Blocking' = Blocking
    BY <2>1, SameAccount DEF Blocking
  <2>5. Budget' /\ Startup' /\ Verdicts'
    BY <2>1, <2>4 DEF WatchdogInv, Budget, Startup, Verdicts
  <2>6. Ages' /\ Loss'
    BY <2>1, <2>4 DEF WatchdogInv, Ages, Loss
  <2>7. Stops'
    BY <2>1, <2>4 DEF WatchdogInv, Stops, AtDrain, AfterDump, AtShutdown
  <2> QED
    BY <2>2, <2>3, <2>5, <2>6, <2>7 DEF WatchdogInv
<1>5. CASE Ended
  BY <1>4, <1>5 DEF Ended
<1>6. CASE HandleStop
  BY <1>6, LeaveStep
<1>7. CASE \E hint \in Hints : HandleStartPending(hint)
  BY <1>7, HandleStartPendingStep
<1>8. CASE HandleThreadDump \/ DumpDone
  BY <1>8, DumpSteps
<1>9. CASE ChildExits \/ ShutdownExpires \/ StopDumpDone \/ GraceExpires \/ Drained
  BY <1>9, WaitStep
<1> QED
  BY <1>1, <1>2, <1>3, <1>4, <1>5, <1>6, <1>7, <1>8, <1>9, TickStep, HandlePongStep,
     HandleStartedStep, HandleDisconnectedStep, PostStopStep DEF Next

\* The invariant holds of every behaviour.
LEMMA WatchdogInvariance == Spec => []WatchdogInv
<1>1. WatchdogInv /\ [Next]_vars => WatchdogInv'
  BY WatchdogStep
<1> QED
  BY <1>1, WatchdogInit, PTL DEF Spec

\* The clocks keep their types.
THEOREM WatchdogTypeCorrect == Spec => []TypeOK
<1>1. WatchdogInv => TypeOK
  BY Zenon DEF WatchdogInv, Types, Flags, TypeOK, Blocked
<1> QED
  BY <1>1, WatchdogInvariance, PTL

\* What the dumps requested so far may have taken is the rest of the account.
LEMMA DumpedForAccount == ASSUME Types PROVE DumpedFor = Blocking - Left
<1>1. MaxDumps \in Int /\ DumpTimeout \in Int /\ dumps \in Int
  BY Times DEF Types
<1>2. (MaxDumps - dumps) * DumpTimeout = MaxDumps * DumpTimeout - dumps * DumpTimeout
  BY <1>1
<1>3. CASE Jcmd
  BY <1>2, <1>3 DEF DumpedFor, Blocking, Left
<1>4. CASE ~Jcmd
  BY <1>4 DEF DumpedFor, Blocking, Left
<1> QED
  BY <1>3, <1>4

\* The watchdog restarts no JVM that has its channel and left no ping unanswered
\* for longer than ping.timeout, less what the thread dumps requested until then
\* took of the thread's time.
THEOREM WatchdogKeepsPatience == Spec => []WatchdogIsPatient
<1>1. WatchdogInv => WatchdogIsPatient
  <2> SUFFICES ASSUME WatchdogInv PROVE WatchdogIsPatient
    OBVIOUS
  <2>1. DumpedFor = Blocking - Left
    BY DumpedForAccount DEF WatchdogInv
  <2>2. Blocking \in Nat /\ Left \in Nat /\ worst \in Nat
    BY Accounts DEF WatchdogInv, Types
  <2> QED
    BY <2>1, <2>2, Times DEF WatchdogInv, Verdicts, WatchdogIsPatient
<1> QED
  BY <1>1, WatchdogInvariance, PTL

\* A JVM that hangs or loses its channel is found in time.
THEOREM LostJvmsAreFound == Spec => []LostJvmIsFound
<1>1. WatchdogInv => LostJvmIsFound
  <2> SUFFICES ASSUME WatchdogInv, lost # Never, PingTimeout > 0, Alive
               PROVE  lost <= Allowed + HeapTimeout + Blocking + 1
    BY DEF LostJvmIsFound, Alive
  <2>1. lost <= Allowed + HeapTimeout + 1 + Spent /\ lost \in Nat
    BY AliveFacts DEF WatchdogInv, Loss
  <2>2. Spent \in Nat /\ Spent <= Blocking /\ Blocking \in Nat
    BY Accounts DEF WatchdogInv
  <2> QED
    BY <2>1, <2>2, Times
<1> QED
  BY <1>1, WatchdogInvariance, PTL

\* While a heap dump runs, a JVM that has its channel is given the ping timeout and
\* the heap-dump timeout, less what the thread dumps took of the thread's time, and
\* the bridge gives up its wrapper only when they took more than the ping timeout;
\* for all timeouts, whatever their order.
THEOREM HeapDumpsAreWaitedFor == Spec => []HeapDumpIsWaitedFor
<1>1. WatchdogInv => HeapDumpIsWaitedFor
  <2> SUFFICES ASSUME WatchdogInv PROVE HeapDumpIsWaitedFor
    OBVIOUS
  <2>1. DumpedFor = Blocking - Left
    BY DumpedForAccount DEF WatchdogInv
  <2>2. Blocking \in Nat /\ Left \in Nat /\ worst \in Nat
    BY Accounts DEF WatchdogInv, Types
  <2> QED
    BY <2>1, <2>2, Times DEF WatchdogInv, Verdicts, HeapDumpIsWaitedFor
<1> QED
  BY <1>1, WatchdogInvariance, PTL

\* An application that did report is restarted for its startup deadline only
\* while STARTED waits behind thread dumps.
THEOREM StartupVerdictsAreTrue == Spec => []StartupVerdictIsTrue
<1>1. WatchdogInv => StartupVerdictIsTrue
  BY DEF WatchdogInv, Startup, StartupVerdictIsTrue
<1> QED
  BY <1>1, WatchdogInvariance, PTL

\* A service stops within its wait hint and the time of the jcmd runs it leaves
\* out, where the margin covers the drain and the part of the grace period that
\* the hint does not count (it is at least a second).
THEOREM StopsInTime ==
  ASSUME DrainTime + (IF DumpOnExit THEN Grace - DumpDelay ELSE 0) <= StopMargin
  PROVE  Spec => []StopsWithinHint
<1>1. WatchdogInv => StopsWithinHint
  <2> SUFFICES ASSUME WatchdogInv, loc # "ended"
               PROVE  stop_age <= StopWaitHint + DumpsLeftOut
    BY DEF StopsWithinHint
  <2>1. Blocking \in Nat /\ stop_age \in Int /\ waited \in Nat
    BY Accounts DEF WatchdogInv, Types, Never
  <2>2. Grace \in Nat /\ DumpDelay <= Grace
    BY Times DEF Grace, Larger
  <2>3. /\ StopWaitHint + DumpsLeftOut \in Nat
        /\ AtDrain + DrainTime <= StopWaitHint + DumpsLeftOut
        /\ Blocking <= AtDrain /\ AtDrain \in Nat
        /\ AtShutdown \in Nat /\ AfterDump \in Nat
        /\ Blocking + ShutdownTimeout <= AtDrain
        /\ DumpOnExit => AfterDump + Grace <= AtDrain
        /\ DumpOnExit /\ Jcmd => AtShutdown + DumpTimeout <= AtDrain
    BY <2>1, <2>2, Times DEF StopWaitHint, DumpsLeftOut, AtDrain, AfterDump, AtShutdown
  <2>4. CASE Alive
    <3>1. stop_age <= Spent /\ Spent <= Blocking /\ Spent \in Nat
      BY <2>4, Accounts DEF WatchdogInv, Stops
    <3> QED
      BY <2>1, <2>3, <3>1, Times
  <2>5. CASE ~Alive
    <3>1. loc \in {"stopping", "stop_dump", "grace", "draining"}
      BY <2>5 DEF Alive, WatchdogInv, Types
    <3>2. loc = "stopping" => stop_age <= AtDrain
      BY <2>1, <2>3, Times DEF WatchdogInv, Stops
    <3>3. loc = "stop_dump" => stop_age <= AtDrain
      BY <2>1, <2>3, Times DEF WatchdogInv, Stops
    <3>4. loc = "grace" => stop_age <= AtDrain
      BY <2>1, <2>2, <2>3, Times DEF WatchdogInv, Stops
    <3>5. loc = "draining" => stop_age <= AtDrain + DrainTime
      BY <2>1, <2>3, Times DEF WatchdogInv, Stops
    <3> QED
      BY <2>1, <2>3, <3>1, <3>2, <3>3, <3>4, <3>5, Times
  <2> QED
    BY <2>4, <2>5
<1> QED
  BY <1>1, WatchdogInvariance, PTL
=============================================================================
