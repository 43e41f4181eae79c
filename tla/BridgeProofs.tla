----------------------------- MODULE BridgeProofs -----------------------------
(***************************************************************************)
(* Proofs about the end of a JVM and the verdict of the wrapper on it, for *)
(* every launcher, with or without the shutdown hook, for any exit codes,  *)
(* any room in the channel and any number of requests.                     *)
(***************************************************************************)
EXTENDS Bridge, TLAPS

Stopping == "wrapperRequestedStop" \in flags
Listening == wrapper \in {"accepting", "loop"}

\* The exit codes of the bridge itself are codes, and no code is none.
LEMMA CodesTyped ==
  /\ 0 \in Codes /\ 1 \in Codes /\ AppCodes \subseteq Codes /\ NoCode \notin Codes
  /\ Room \in Nat \ {0} /\ MaxAsks \in Nat
  /\ Launchers \subseteq AllLaunchers /\ Hooks \subseteq {"none", "armed"}
<1>1. NoCode \notin Codes
  <2>1. Codes \subseteq Int
    BY BridgeAssumption DEF Codes
  <2> QED
    BY <2>1, BridgeAssumption
<1>2. 0 \in Codes /\ 1 \in Codes /\ AppCodes \subseteq Codes
  BY DEF Codes
<1> QED
  BY <1>1, <1>2, BridgeAssumption, Zenon

-----------------------------------------------------------------------------
(* The inductive invariant, in named parts.                                *)

\* What began the shutdown decides how its code may change afterwards.
Causes ==
  /\ cause = "none" <=> shutdown = "no"
  /\ cause \in {"return", "error"} <=> shutdown = "destroy"
  /\ cause = "none" <=> code = NoCode
  /\ cause \in {"boot", "crash", "lost"} => code = 1
  /\ cause \in {"crash", "lost"} => "abnormalExit" \in flags
  /\ cause = "stop" => Stopping
  /\ cause = "boot" => hook = "none" /\ control.at = "none"

\* What brought the control thread to its place.
Places ==
  /\ control.at = "none" <=> main = "boot" \/ cause = "boot"
  /\ control.at = "none" =>
       hook = "none" /\ app = "none" /\ stopper = "none" /\ main \in {"boot", "blocked"}
  /\ main = "boot" => cause = "none"
  /\ control.at \in {"callback", "joining", "waiting", "reporting", "exiting"} =>
       control.code \in Codes
  /\ control.at \in {"callback", "joining", "waiting", "reporting"} => Stopping
  /\ control.at = "callback" => launcher = "Listener"
  /\ Stopping => control.at \notin {"none", "reading", "launching"}
  /\ control.at = "exiting" /\ ~Stopping =>
       broken /\ control.code = 1 /\ "abnormalExit" \in flags

\* The process and its socket.
Process ==
  /\ killed => wrapper = "done"
  /\ wrapper = "done" => ~Alive
  /\ wrapper = "accepting" => linked
  /\ ~Alive /\ ~killed => exited = code /\ cause # "none"
  /\ Alive => ~killed
  /\ hook \in {"sent", "done"} => "jvmShuttingDown" \in flags
  /\ "jvmShuttingDown" \in flags => cause # "none"
  /\ Alive /\ control.at # "none" /\ ~broken /\ "jvmShuttingDown" \notin flags =>
       open /\ linked

\* Nothing of the application runs before START is read, and nothing of it is
\* left when the JVM shuts down because its threads have ended.
NotStarted ==
  /\ main \in {"boot", "awaiting", "blocked"}
  /\ app = "none" /\ stopper = "none" /\ control.at # "launching"
  /\ cause \in {"none", "boot", "lost"} /\ ~Stopping

Starts ==
  /\ wrapper = "accepting" => toJvm = <<>> /\ NotStarted
  /\ \A i \in DOMAIN toJvm : toJvm[i].kind = "START" => i = 1 /\ NotStarted
  /\ shutdown = "destroy" /\ ~Stopping => ~Busy

\* STOP is sent once the wrapper has decided.
Decided ==
  /\ Stopping => ~Listening
  /\ \A i \in DOMAIN toJvm : toJvm[i].kind = "STOP" =>
       ~Listening /\ toJvm[i].code \in Codes

\* A packet or a verdict with code 0 has its reason.
Earned ==
  /\ \A i \in DOMAIN toWrapper : toWrapper[i].kind = "STOP" =>
       \/ toWrapper[i].code \in Asked
       \/ toWrapper[i].code = 0 /\ cause \in {"return", "exit", "error"}
  /\ outcome = [kind |-> "Exited", code |-> 0] =>
       cause \in {"return", "exit", "error"} \/ 0 \in Asked

\* A shutdown for want of threads keeps code 0.
CleanReturn ==
  cause = "return" /\ ~broken /\ ~killed /\ ~Stopping =>
    code = 0

\* The first STOP in the channel is the first the application asked for.
FirstStop ==
  \/ asked = <<>> /\ \A i \in DOMAIN toWrapper : toWrapper[i].kind # "STOP"
  \/ /\ asked # <<>>
     /\ \E i \in DOMAIN toWrapper :
          /\ toWrapper[i] = Packet("STOP", asked[1])
          /\ \A j \in 1..(i - 1) : toWrapper[j].kind # "STOP"

Forwarded ==
  /\ cause = "none" /\ ~broken /\ Listening => FirstStop
  /\ outcome.kind = "Exited" /\ cause \in {"none", "stop"} /\ ~broken =>
       asked # <<>> /\ outcome.code = asked[1]
  /\ launcher # "Listener" =>
       /\ \A i \in DOMAIN toJvm :
            toJvm[i].kind = "STOP" => toJvm[i].code = outcome.code
       /\ Stopping /\ control.at \in {"joining", "waiting", "reporting", "exiting"} =>
            control.code = outcome.code
       /\ cause = "stop" => code = outcome.code

BridgeInv ==
  /\ TypeOK /\ Causes /\ Places /\ Process /\ Starts /\ Decided
  /\ Earned /\ CleanReturn /\ Forwarded

-----------------------------------------------------------------------------
(* The building blocks of the actions.                                     *)

USE DEF Stopping, Listening, Alive, Packet, Control, threads, ending, socket,
        supervision, history

ToWrapperPacket ==
  [kind : {"STARTED", "STOPPED", "STOP", "RESTART", "LOG"}, code : Codes \cup {NoCode}]

\* BackendClient.send adds the packet at the end, or nothing.
LEMMA SendEffect ==
  ASSUME TypeOK, NEW packet \in ToWrapperPacket, Send(packet)
  PROVE  /\ toWrapper' \in Seq(ToWrapperPacket) /\ Len(toWrapper') <= Room
         /\ toWrapper' = toWrapper \/ toWrapper' = Append(toWrapper, packet)
         /\ open /\ linked => toWrapper' = Append(toWrapper, packet)
<1>1. toWrapper \in Seq(ToWrapperPacket) /\ Len(toWrapper) <= Room
  BY DEF TypeOK, ToWrapperPacket
<1>2. \/ open /\ linked /\ Len(toWrapper) < Room /\ toWrapper' = Append(toWrapper, packet)
      \/ ~(open /\ linked) /\ toWrapper' = toWrapper
  BY Zenon DEF Send
<1> QED
  BY <1>1, <1>2, CodesTyped

\* Closing the socket leaves a prefix of what was under way.
LEMMA CloseEffect ==
  ASSUME TypeOK, CloseSocket
  PROVE  /\ toWrapper' \in Seq(ToWrapperPacket) /\ Len(toWrapper') <= Room
         /\ \A i \in DOMAIN toWrapper' :
              i \in DOMAIN toWrapper /\ toWrapper'[i] = toWrapper[i]
         /\ open' = FALSE
<1>1. PICK k \in 0..Len(toWrapper) : toWrapper' = SubSeq(toWrapper, 1, k)
  BY DEF CloseSocket
<1>2. toWrapper \in Seq(ToWrapperPacket) /\ Len(toWrapper) <= Room
  BY DEF TypeOK, ToWrapperPacket
<1> QED
  BY <1>1, <1>2, CodesTyped DEF CloseSocket

\* Sending another packet than STOP keeps the first STOP the first.
LEMMA AppendKeepsFirst ==
  ASSUME TypeOK, FirstStop, NEW packet \in ToWrapperPacket,
         toWrapper' = Append(toWrapper, packet), packet.kind # "STOP", asked' = asked
  PROVE  FirstStop'
<1>1. toWrapper \in Seq(ToWrapperPacket)
  BY DEF TypeOK, ToWrapperPacket
<1>2. /\ DOMAIN toWrapper' = 1..(Len(toWrapper) + 1)
      /\ \A i \in DOMAIN toWrapper : toWrapper'[i] = toWrapper[i]
      /\ toWrapper'[Len(toWrapper) + 1] = packet
      /\ DOMAIN toWrapper = 1..Len(toWrapper) /\ Len(toWrapper) \in Nat
  BY <1>1
<1> QED
  BY <1>2 DEF FirstStop

\* requestStop records the code it is given and sends it, in this order.
LEMMA AskKeepsFirst ==
  ASSUME TypeOK, FirstStop, NEW n \in AppCodes,
         toWrapper' = Append(toWrapper, Packet("STOP", n)), asked' = Append(asked, n)
  PROVE  FirstStop'
<1>1. toWrapper \in Seq(ToWrapperPacket) /\ Packet("STOP", n) \in ToWrapperPacket
      /\ asked \in Seq(AppCodes)
  BY CodesTyped DEF TypeOK, ToWrapperPacket
<1>2. /\ DOMAIN toWrapper' = 1..(Len(toWrapper) + 1)
      /\ \A i \in DOMAIN toWrapper : toWrapper'[i] = toWrapper[i]
      /\ toWrapper'[Len(toWrapper) + 1] = Packet("STOP", n)
      /\ DOMAIN toWrapper = 1..Len(toWrapper) /\ Len(toWrapper) \in Nat
  BY <1>1
<1>3. CASE asked = <<>>
  <2>1. asked' # <<>> /\ asked'[1] = n
    BY <1>1, <1>3
  <2> QED
    BY <1>2, <1>3, <2>1 DEF FirstStop
<1>4. CASE asked # <<>>
  <2>1. asked' # <<>> /\ asked'[1] = asked[1]
    BY <1>1, <1>4
  <2> QED
    BY <1>2, <1>4, <2>1 DEF FirstStop
<1> QED
  BY <1>3, <1>4

\* The codes asked for only grow.
LEMMA AskedGrows ==
  ASSUME TypeOK, NEW n \in AppCodes, asked' = Append(asked, n)
  PROVE  Asked \subseteq Asked' /\ n \in Asked'
<1>1. asked \in Seq(AppCodes)
  BY DEF TypeOK
<1>2. /\ \A i \in DOMAIN asked : i \in DOMAIN asked' /\ asked'[i] = asked[i]
      /\ Len(asked) + 1 \in DOMAIN asked' /\ asked'[Len(asked) + 1] = n
  BY <1>1
<1> QED
  BY <1>2 DEF Asked

Clean == {"return", "exit", "error"}

\* A packet that is sent leaves every STOP with its reason if it has one itself.
LEMMA SendKeepsEarned ==
  ASSUME TypeOK, Earned, NEW packet \in ToWrapperPacket,
         toWrapper' = toWrapper \/ toWrapper' = Append(toWrapper, packet),
         Asked \subseteq Asked', cause \in Clean => cause' \in Clean,
         packet.kind = "STOP" =>
           packet.code \in Asked' \/ (packet.code = 0 /\ cause' \in Clean),
         outcome' = outcome
  PROVE  Earned'
<1>1. toWrapper \in Seq(ToWrapperPacket)
  BY DEF TypeOK, ToWrapperPacket
<1>2. \A i \in DOMAIN toWrapper' :
        (i \in DOMAIN toWrapper /\ toWrapper'[i] = toWrapper[i]) \/ toWrapper'[i] = packet
  BY <1>1
<1> QED
  BY <1>2 DEF Earned, Clean

\* A stop the application asks for reaches the channel while nothing has begun
\* to end the JVM.
LEMMA AskForwards ==
  ASSUME BridgeInv, Alive, app = "running" \/ main = "starting",
         NEW n \in AppCodes, asked' = Append(asked, n),
         open /\ linked => toWrapper' = Append(toWrapper, Packet("STOP", n)),
         UNCHANGED <<launcher, control, flags, toJvm, supervision, code, cause, broken>>
  PROVE  Forwarded'
<1>1. asked' # <<>> /\ (asked # <<>> => asked'[1] = asked[1])
  <2>1. asked \in Seq(AppCodes)
    BY DEF BridgeInv, TypeOK
  <2> QED
    BY <2>1
<1>2. cause = "none" /\ ~broken => open /\ linked
  BY DEF BridgeInv, Places, Process
<1>3. cause = "none" /\ ~broken /\ FirstStop => FirstStop'
  BY <1>2, AskKeepsFirst DEF BridgeInv
<1> QED
  BY <1>1, <1>3 DEF BridgeInv, Forwarded

-----------------------------------------------------------------------------
(* Each action keeps the invariant.                                        *)

\* A launcher that cannot start has neither a hook nor a control thread, and its
\* JVM ends with code 1.
LEMMA BootFailsKeeps == ASSUME BridgeInv, BootFails PROVE BridgeInv'
<1> USE CodesTyped DEF BridgeInv, BootFails, SystemExit
<1>1. TypeOK'
  <2>1. Booleans'
    BY Zenon DEF TypeOK, Booleans
  <2> QED
    BY <2>1 DEF TypeOK, Places, Decided
<1>2. Causes' /\ Places' /\ Process' /\ CleanReturn'
  BY DEF TypeOK, Booleans, Causes, Places, Process, CleanReturn, Decided, Starts, NotStarted, Busy
<1>3. Starts' /\ Decided'
  BY DEF TypeOK, Booleans, Causes, Places, Process, Starts, NotStarted, Busy, Decided
<1>4. Earned' /\ Forwarded'
  BY DEF TypeOK, Booleans, Causes, Places, Process, Decided, Earned, Asked, Forwarded, FirstStop
<1> QED
  BY <1>1, <1>2, <1>3, <1>4

\* The connection opens the channel before anything of the application runs.
LEMMA ConnectOrExitKeeps == ASSUME BridgeInv, ConnectOrExit PROVE BridgeInv'
<1> USE CodesTyped DEF BridgeInv, ConnectOrExit
<1>1. TypeOK'
  <2>1. Booleans'
    BY Zenon DEF TypeOK, Booleans
  <2> QED
    BY <2>1 DEF TypeOK, Places, Decided
<1>2. Causes' /\ Places' /\ Process' /\ CleanReturn'
  BY DEF TypeOK, Booleans, Causes, Places, Process, CleanReturn, Decided, Starts, NotStarted, Busy
<1>3. Starts' /\ Decided'
  BY DEF TypeOK, Booleans, Causes, Places, Process, Starts, NotStarted, Busy, Decided
<1>4. Earned' /\ Forwarded'
  BY DEF TypeOK, Booleans, Causes, Places, Process, Decided, Earned, Asked, Forwarded, FirstStop
<1> QED
  BY <1>1, <1>2, <1>3, <1>4

\* START is read once: only then does the application run.
LEMMA HandleStartKeeps == ASSUME BridgeInv, HandleStart PROVE BridgeInv'
<1> USE CodesTyped DEF BridgeInv, HandleStart, TakesFrom, Reads
<1>1. TypeOK'
  <2>1. Booleans'
    BY Zenon DEF TypeOK, Booleans
  <2> QED
    BY <2>1 DEF TypeOK, Places, Decided
<1>2. Causes' /\ Places' /\ Process' /\ CleanReturn'
  BY DEF TypeOK, Booleans, Causes, Places, Process, CleanReturn, Decided, Starts, NotStarted, Busy
<1>3. Starts' /\ Decided'
  BY DEF TypeOK, Booleans, Causes, Places, Process, Starts, NotStarted, Busy, Decided
<1>4. Earned' /\ Forwarded'
  BY DEF TypeOK, Booleans, Causes, Places, Process, Decided, Earned, Asked, Forwarded, FirstStop
<1> QED
  BY <1>1, <1>2, <1>3, <1>4

\* A callback that throws marks the exit abnormal before System.exit is called.
LEMMA HandleControlEventKeeps == ASSUME BridgeInv, HandleControlEvent PROVE BridgeInv'
<1> USE CodesTyped DEF BridgeInv, HandleControlEvent, TakesFrom, Reads
<1>1. TypeOK'
  <2>1. Booleans'
    BY Zenon DEF TypeOK, Booleans
  <2>2. flags' \subseteq {"wrapperRequestedStop", "abnormalExit", "jvmShuttingDown",
                       "stoppedSent"}
    BY DEF TypeOK
  <2> QED
    BY <2>1, <2>2 DEF TypeOK
<1>2. Causes' /\ Places' /\ Process' /\ CleanReturn'
  BY DEF TypeOK, Booleans, Causes, Places, Process, CleanReturn, Decided, Starts, NotStarted, Busy
<1>3. Starts' /\ Decided'
  BY DEF TypeOK, Booleans, Causes, Places, Process, Starts, NotStarted, Busy, Decided
<1>4. Earned' /\ Forwarded'
  BY DEF TypeOK, Booleans, Causes, Places, Process, Decided, Earned, Asked, Forwarded, FirstStop
<1> QED
  BY <1>1, <1>2, <1>3, <1>4

\* The control thread takes STOP only after the wrapper has decided.
LEMMA HandleStopKeeps == ASSUME BridgeInv, HandleStop PROVE BridgeInv'
<1> USE CodesTyped DEF BridgeInv, HandleStop, TakesFrom, Reads
<1>1. TypeOK'
  <2>1. Booleans'
    BY Zenon DEF TypeOK, Booleans
  <2> QED
    BY <2>1 DEF TypeOK, Places, Decided
<1>2. Causes' /\ Places' /\ Process' /\ CleanReturn'
  BY DEF TypeOK, Booleans, Causes, Places, Process, CleanReturn, Decided, Starts, NotStarted, Busy
<1>3. Starts' /\ Decided'
  BY DEF TypeOK, Booleans, Causes, Places, Process, Starts, NotStarted, Busy, Decided
<1>4. Earned' /\ Forwarded'
  BY DEF TypeOK, Booleans, Causes, Places, Process, Decided, Earned, Asked, Forwarded, FirstStop
<1> QED
  BY <1>1, <1>2, <1>3, <1>4

\* listener.stop chooses a code of its own: only a listener does.
LEMMA ListenerStopsKeeps == ASSUME BridgeInv, ListenerStops PROVE BridgeInv'
<1> USE CodesTyped DEF BridgeInv, ListenerStops
<1>1. TypeOK'
  <2>1. Booleans'
    BY Zenon DEF TypeOK, Booleans
  <2> QED
    BY <2>1 DEF TypeOK, Places, Decided
<1>2. Causes' /\ Places' /\ Process' /\ CleanReturn'
  BY DEF TypeOK, Booleans, Causes, Places, Process, CleanReturn, Decided, Starts, NotStarted, Busy
<1>3. Starts' /\ Decided'
  BY DEF TypeOK, Booleans, Causes, Places, Process, Starts, NotStarted, Busy, Decided
<1>4. Earned' /\ Forwarded'
  BY DEF TypeOK, Booleans, Causes, Places, Process, Decided, Earned, Asked, Forwarded, FirstStop
<1> QED
  BY <1>1, <1>2, <1>3, <1>4

\* stopMain runs inside a stop the wrapper has decided, so its crash cannot make a
\* clean verdict.
LEMMA StopMainEndsKeeps == ASSUME BridgeInv, StopMainEnds PROVE BridgeInv'
<1> USE CodesTyped DEF BridgeInv
<1>0. /\ Alive /\ stopper = "running" /\ stopper' \in {"ended", "blocked"}
      /\ UNCHANGED <<launcher, main, app, control, socket, supervision, asked, asks,
                     killed, broken>>
  BY DEF StopMainEnds
<1>1. CASE UNCHANGED <<flags, hook, shutdown, code, exited, cause>> /\ stopper' = "ended"
  <2>1. TypeOK'
    BY <1>0, <1>1 DEF TypeOK, Booleans
  <2>2. Causes' /\ Places' /\ Process' /\ CleanReturn'
    BY <1>0, <1>1 DEF TypeOK, Booleans, Causes, Places, Process, CleanReturn
  <2>3. Starts' /\ Decided' /\ Earned' /\ Forwarded'
    BY <1>0, <1>1
       DEF Starts, NotStarted, Busy, Decided, Earned, Asked, Forwarded, FirstStop
  <2> QED
    BY <2>1, <2>2, <2>3
<1>2. CASE /\ stopper' = "blocked" /\ flags' = flags \cup {"abnormalExit"}
           /\ SystemExit(1, "crash")
  <2>1. TypeOK'
    <3>1. flags' \subseteq {"wrapperRequestedStop", "abnormalExit", "jvmShuttingDown",
                            "stoppedSent"}
      BY <1>2 DEF TypeOK
    <3> QED
      BY <1>0, <1>2, <3>1 DEF TypeOK, Booleans, SystemExit
  <2>2. Causes' /\ Places'
    BY <1>0, <1>2 DEF TypeOK, Causes, Places, SystemExit
  <2>5. Process'
    <3>1. /\ UNCHANGED <<exited, killed, broken, open, linked, wrapper, control, hook>>
          /\ cause # "none" => cause' # "none"
          /\ "jvmShuttingDown" \in flags' <=> "jvmShuttingDown" \in flags
      BY <1>0, <1>2 DEF TypeOK, Causes, SystemExit
    <3>2. ~Alive => code' = code
      BY <1>0
    <3> QED
      BY <1>0, <3>1, <3>2 DEF Process
  <2>3. Starts' /\ Decided' /\ CleanReturn'
    BY <1>0, <1>2
       DEF TypeOK, Causes, Places, CleanReturn, Starts, NotStarted, Busy, Decided, SystemExit
  <2>4. Earned' /\ Forwarded'
    BY <1>0, <1>2 DEF TypeOK, Causes, Earned, Asked, Forwarded, FirstStop, SystemExit
  <2> QED
    BY <2>1, <2>2, <2>3, <2>4, <2>5
<1> QED
  BY <1>1, <1>2 DEF StopMainEnds

\* The code of STOP is carried past the stop thread.
LEMMA JoinedKeeps == ASSUME BridgeInv, Joined PROVE BridgeInv'
<1> USE CodesTyped DEF BridgeInv, Joined
<1>1. TypeOK'
  <2>1. Booleans'
    BY Zenon DEF TypeOK, Booleans
  <2> QED
    BY <2>1 DEF TypeOK, Places, Decided
<1>2. Causes' /\ Places' /\ Process' /\ CleanReturn'
  BY DEF TypeOK, Booleans, Causes, Places, Process, CleanReturn, Decided, Starts, NotStarted, Busy
<1>3. Starts' /\ Decided'
  BY DEF TypeOK, Booleans, Causes, Places, Process, Starts, NotStarted, Busy, Decided
<1>4. Earned' /\ Forwarded'
  BY DEF TypeOK, Booleans, Causes, Places, Process, Decided, Earned, Asked, Forwarded, FirstStop
<1> QED
  BY <1>1, <1>2, <1>3, <1>4

\* The code of STOP is carried past the application's threads.
LEMMA ThreadsGoneKeeps == ASSUME BridgeInv, ThreadsGone PROVE BridgeInv'
<1> USE CodesTyped DEF BridgeInv, ThreadsGone
<1>1. TypeOK'
  <2>1. Booleans'
    BY Zenon DEF TypeOK, Booleans
  <2> QED
    BY <2>1 DEF TypeOK, Places, Decided
<1>2. Causes' /\ Places' /\ Process' /\ CleanReturn'
  BY DEF TypeOK, Booleans, Causes, Places, Process, CleanReturn, Decided, Starts, NotStarted, Busy
<1>3. Starts' /\ Decided'
  BY DEF TypeOK, Booleans, Causes, Places, Process, Starts, NotStarted, Busy, Decided
<1>4. Earned' /\ Forwarded'
  BY DEF TypeOK, Booleans, Causes, Places, Process, Decided, Earned, Asked, Forwarded, FirstStop
<1> QED
  BY <1>1, <1>2, <1>3, <1>4

\* The control thread exits with the code it was given, unless the channel is lost.
LEMMA ControlExitsKeeps == ASSUME BridgeInv, ControlExits PROVE BridgeInv'
<1> USE CodesTyped DEF BridgeInv, ControlExits, SystemExit
<1>1. TypeOK'
  <2>1. Booleans'
    BY Zenon DEF TypeOK, Booleans
  <2> QED
    BY <2>1 DEF TypeOK, Places, Decided
<1>2. Causes' /\ Places' /\ Process' /\ CleanReturn'
  BY DEF TypeOK, Booleans, Causes, Places, Process, CleanReturn, Decided, Starts, NotStarted, Busy
<1>3. Starts' /\ Decided'
  BY DEF TypeOK, Booleans, Causes, Places, Process, Starts, NotStarted, Busy, Decided
<1>4. Earned' /\ Forwarded'
  BY DEF TypeOK, Booleans, Causes, Places, Process, Decided, Earned, Asked, Forwarded, FirstStop
<1> QED
  BY <1>1, <1>2, <1>3, <1>4

\* While nothing ends the JVM the socket is open, so a failed read is excused or
\* the channel is broken.
LEMMA ReadFailsKeeps == ASSUME BridgeInv, ReadFails PROVE BridgeInv'
<1> USE CodesTyped DEF BridgeInv, ReadFails, Reads, FailedControl, Excused
<1>1. TypeOK'
  <2>1. Booleans'
    BY Zenon DEF TypeOK, Booleans
  <2>2. flags' \subseteq {"wrapperRequestedStop", "abnormalExit", "jvmShuttingDown",
                       "stoppedSent"}
    BY DEF TypeOK
  <2> QED
    BY <2>1, <2>2 DEF TypeOK
<1>2. Causes' /\ Places' /\ Process' /\ CleanReturn'
  BY DEF TypeOK, Booleans, Causes, Places, Process, CleanReturn, Decided, Starts, NotStarted, Busy
<1>3. Starts' /\ Decided'
  BY DEF TypeOK, Booleans, Causes, Places, Process, Starts, NotStarted, Busy, Decided
<1>4. Earned' /\ Forwarded'
  BY DEF TypeOK, Booleans, Causes, Places, Process, Decided, Earned, Asked, Forwarded, FirstStop
<1> QED
  BY <1>1, <1>2, <1>3, <1>4

\* A silent wrapper counts as a broken channel.
LEMMA PingTimesOutKeeps == ASSUME BridgeInv, PingTimesOut PROVE BridgeInv'
<1> USE CodesTyped DEF BridgeInv, PingTimesOut, Reads, FailedControl, Excused
<1>1. TypeOK'
  <2>1. Booleans'
    BY Zenon DEF TypeOK, Booleans
  <2>2. flags' \subseteq {"wrapperRequestedStop", "abnormalExit", "jvmShuttingDown",
                       "stoppedSent"}
    BY DEF TypeOK
  <2> QED
    BY <2>1, <2>2 DEF TypeOK
<1>2. Causes' /\ Places' /\ Process' /\ CleanReturn'
  BY DEF TypeOK, Booleans, Causes, Places, Process, CleanReturn, Decided, Starts, NotStarted, Busy
<1>3. Starts' /\ Decided'
  BY DEF TypeOK, Booleans, Causes, Places, Process, Starts, NotStarted, Busy, Decided
<1>4. Earned' /\ Forwarded'
  BY DEF TypeOK, Booleans, Causes, Places, Process, Decided, Earned, Asked, Forwarded, FirstStop
<1> QED
  BY <1>1, <1>2, <1>3, <1>4

\* The application's own System.exit is a reason for code 0.
LEMMA AppExitsKeeps == ASSUME BridgeInv, AppExits PROVE BridgeInv'
<1> USE CodesTyped DEF BridgeInv, AppExits, Runs, SystemExit
<1>1. TypeOK'
  <2>1. Booleans'
    BY Zenon DEF TypeOK, Booleans
  <2> QED
    BY <2>1 DEF TypeOK, Places, Decided
<1>2. Causes' /\ Places' /\ Process' /\ CleanReturn'
  BY DEF TypeOK, Booleans, Causes, Places, Process, CleanReturn, Decided, Starts, NotStarted, Busy
<1>3. Starts' /\ Decided'
  BY DEF TypeOK, Booleans, Causes, Places, Process, Starts, NotStarted, Busy, Decided
<1>4. Earned' /\ Forwarded'
  BY DEF TypeOK, Booleans, Causes, Places, Process, Decided, Earned, Asked, Forwarded, FirstStop
<1> QED
  BY <1>1, <1>2, <1>3, <1>4

\* The end of the application's thread decides nothing.
LEMMA AppReturnsKeeps == ASSUME BridgeInv, AppReturns PROVE BridgeInv'
<1> USE CodesTyped DEF BridgeInv, AppReturns
<1>1. TypeOK'
  <2>1. Booleans'
    BY Zenon DEF TypeOK, Booleans
  <2> QED
    BY <2>1 DEF TypeOK, Places, Decided
<1>2. Causes' /\ Places' /\ Process' /\ CleanReturn'
  BY DEF TypeOK, Booleans, Causes, Places, Process, CleanReturn, Decided, Starts, NotStarted, Busy
<1>3. Starts' /\ Decided'
  BY DEF TypeOK, Booleans, Causes, Places, Process, Starts, NotStarted, Busy, Decided
<1>4. Earned' /\ Forwarded'
  BY DEF TypeOK, Booleans, Causes, Places, Process, Decided, Earned, Asked, Forwarded, FirstStop
<1> QED
  BY <1>1, <1>2, <1>3, <1>4

\* A main that throws is marked abnormal before the JVM shuts down.
LEMMA AppThrowsKeeps == ASSUME BridgeInv, AppThrows PROVE BridgeInv'
<1> USE CodesTyped DEF BridgeInv, AppThrows, SystemExit
<1>1. TypeOK'
  <2>1. Booleans'
    BY Zenon DEF TypeOK, Booleans
  <2> QED
    BY <2>1 DEF TypeOK, Places, Decided
<1>2. Causes' /\ Places' /\ Process' /\ CleanReturn'
  BY DEF TypeOK, Booleans, Causes, Places, Process, CleanReturn, Decided, Starts, NotStarted, Busy
<1>3. Starts' /\ Decided'
  BY DEF TypeOK, Booleans, Causes, Places, Process, Starts, NotStarted, Busy, Decided
<1>4. Earned' /\ Forwarded'
  BY DEF TypeOK, Booleans, Causes, Places, Process, Decided, Earned, Asked, Forwarded, FirstStop
<1> QED
  BY <1>1, <1>2, <1>3, <1>4

\* The JVM shuts down of its own accord only when no thread is left.
LEMMA DestroyJavaVMKeeps == ASSUME BridgeInv, DestroyJavaVM PROVE BridgeInv'
<1> USE CodesTyped DEF BridgeInv, DestroyJavaVM
<1>1. TypeOK'
  <2>1. Booleans'
    BY Zenon DEF TypeOK, Booleans
  <2> QED
    BY <2>1 DEF TypeOK, Places, Decided
<1>2. Causes' /\ Places' /\ Process' /\ CleanReturn'
  BY DEF TypeOK, Booleans, Causes, Places, Process, CleanReturn, Decided, Starts, NotStarted, Busy
<1>3. Starts' /\ Decided'
  BY DEF TypeOK, Booleans, Causes, Places, Process, Starts, NotStarted, Busy, Decided
<1>4. Earned' /\ Forwarded'
  BY DEF TypeOK, Booleans, Causes, Places, Process, Decided, Earned, Asked, Forwarded, FirstStop
<1> QED
  BY <1>1, <1>2, <1>3, <1>4

\* START is the first packet the JVM is sent.
LEMMA AuthenticatesKeeps == ASSUME BridgeInv, Authenticates PROVE BridgeInv'
<1> USE CodesTyped DEF BridgeInv, Authenticates
<1>1. TypeOK'
  <2>1. Booleans'
    BY Zenon DEF TypeOK, Booleans
  <2> QED
    BY <2>1 DEF TypeOK, Places, Decided
<1>2. Causes' /\ Places' /\ Process' /\ CleanReturn'
  BY DEF TypeOK, Booleans, Causes, Places, Process, CleanReturn, Decided, Starts, NotStarted, Busy
<1>3. Starts' /\ Decided'
  BY DEF TypeOK, Booleans, Causes, Places, Process, Starts, NotStarted, Busy, Decided
<1>4. Earned' /\ Forwarded'
  BY DEF TypeOK, Booleans, Causes, Places, Process, Decided, Earned, Asked, Forwarded, FirstStop
<1> QED
  BY <1>1, <1>2, <1>3, <1>4

\* The wrapper drops its end of a channel that is closed and empty.
LEMMA HandleDisconnectedKeeps == ASSUME BridgeInv, HandleDisconnected PROVE BridgeInv'
<1> USE CodesTyped DEF BridgeInv, HandleDisconnected
<1>1. TypeOK'
  <2>1. Booleans'
    BY Zenon DEF TypeOK, Booleans
  <2> QED
    BY <2>1 DEF TypeOK, Places, Decided
<1>2. Causes' /\ Places' /\ Process' /\ CleanReturn'
  BY DEF TypeOK, Booleans, Causes, Places, Process, CleanReturn, Decided, Starts, NotStarted, Busy
<1>3. Starts' /\ Decided'
  BY DEF TypeOK, Booleans, Causes, Places, Process, Starts, NotStarted, Busy, Decided
<1>4. Earned' /\ Forwarded'
  BY DEF TypeOK, Booleans, Causes, Places, Process, Decided, Earned, Asked, Forwarded, FirstStop
<1> QED
  BY <1>1, <1>2, <1>3, <1>4

\* Packets may go with the connection: the channel counts as broken.
LEMMA WriteFailsKeeps == ASSUME BridgeInv, WriteFails PROVE BridgeInv'
<1> USE CodesTyped DEF BridgeInv, WriteFails
<1>1. TypeOK'
  <2>1. Booleans'
    BY Zenon DEF TypeOK, Booleans
  <2> QED
    BY <2>1 DEF TypeOK, Places, Decided
<1>2. Causes' /\ Places' /\ Process' /\ CleanReturn'
  BY DEF TypeOK, Booleans, Causes, Places, Process, CleanReturn, Decided, Starts, NotStarted, Busy
<1>3. Starts' /\ Decided'
  BY DEF TypeOK, Booleans, Causes, Places, Process, Starts, NotStarted, Busy, Decided
<1>4. Earned' /\ Forwarded'
  BY DEF TypeOK, Booleans, Causes, Places, Process, Decided, Earned, Asked, Forwarded, FirstStop
<1> QED
  BY <1>1, <1>2, <1>3, <1>4

\* A control event is neither START nor STOP.
LEMMA SendControlKeeps == ASSUME BridgeInv, SendControl PROVE BridgeInv'
<1> USE CodesTyped DEF BridgeInv, SendControl
<1>1. TypeOK'
  <2>1. Booleans'
    BY Zenon DEF TypeOK, Booleans
  <2> QED
    BY <2>1 DEF TypeOK, Places, Decided
<1>2. Causes' /\ Places' /\ Process' /\ CleanReturn'
  BY DEF TypeOK, Booleans, Causes, Places, Process, CleanReturn, Decided, Starts, NotStarted, Busy
<1>3. Starts' /\ Decided'
  BY DEF TypeOK, Booleans, Causes, Places, Process, Starts, NotStarted, Busy, Decided
<1>4. Earned' /\ Forwarded'
  BY DEF TypeOK, Booleans, Causes, Places, Process, Decided, Earned, Asked, Forwarded, FirstStop
<1> QED
  BY <1>1, <1>2, <1>3, <1>4

\* The exit code the wrapper finds is the one the JVM ended with.
LEMMA NoticeExitKeeps == ASSUME BridgeInv, NoticeExit PROVE BridgeInv'
<1> USE CodesTyped DEF BridgeInv, NoticeExit, Decide
<1>1. TypeOK'
  <2>1. Booleans'
    BY Zenon DEF TypeOK, Booleans
  <2> QED
    BY <2>1 DEF TypeOK, Places, Decided
<1>2. Causes' /\ Places' /\ Process' /\ CleanReturn'
  BY DEF TypeOK, Booleans, Causes, Places, Process, CleanReturn, Decided, Starts, NotStarted, Busy
<1>3. Starts' /\ Decided'
  BY DEF TypeOK, Booleans, Causes, Places, Process, Starts, NotStarted, Busy, Decided
<1>4. Earned' /\ Forwarded'
  BY DEF TypeOK, Booleans, Causes, Places, Process, Decided, Earned, Asked, Forwarded, FirstStop
<1> QED
  BY <1>1, <1>2, <1>3, <1>4

\* Waiting for the exit decides nothing.
LEMMA WaitEndsKeeps == ASSUME BridgeInv, WaitEnds PROVE BridgeInv'
<1> USE CodesTyped DEF BridgeInv, WaitEnds
<1>1. TypeOK'
  <2>1. Booleans'
    BY Zenon DEF TypeOK, Booleans
  <2> QED
    BY <2>1 DEF TypeOK, Places, Decided
<1>2. Causes' /\ Places' /\ Process' /\ CleanReturn'
  BY DEF TypeOK, Booleans, Causes, Places, Process, CleanReturn, Decided, Starts, NotStarted, Busy
<1>3. Starts' /\ Decided'
  BY DEF TypeOK, Booleans, Causes, Places, Process, Starts, NotStarted, Busy, Decided
<1>4. Earned' /\ Forwarded'
  BY DEF TypeOK, Booleans, Causes, Places, Process, Decided, Earned, Asked, Forwarded, FirstStop
<1> QED
  BY <1>1, <1>2, <1>3, <1>4

\* A JVM that outlives shutdown.timeout is terminated.
LEMMA ShutdownTimeoutKeeps == ASSUME BridgeInv, ShutdownTimeout PROVE BridgeInv'
<1> USE CodesTyped DEF BridgeInv, ShutdownTimeout, Kill
<1>1. TypeOK'
  <2>1. Booleans'
    BY Zenon DEF TypeOK, Booleans
  <2> QED
    BY <2>1 DEF TypeOK, Places, Decided
<1>2. Causes' /\ Places' /\ Process' /\ CleanReturn'
  BY ZenonT(30) DEF TypeOK, Booleans, Causes, Places, Process, CleanReturn, Decided, Starts, NotStarted, Busy
<1>3. Starts' /\ Decided'
  BY DEF TypeOK, Booleans, Causes, Places, Process, Starts, NotStarted, Busy, Decided
<1>4. Earned' /\ Forwarded'
  BY DEF TypeOK, Booleans, Causes, Places, Process, Decided, Earned, Asked, Forwarded, FirstStop
<1> QED
  BY <1>1, <1>2, <1>3, <1>4

\* The four ends of listener.start: it keeps running, asks for a stop, throws an
\* exception, throws an Error.
LEMMA ListenerStartsKeeps == ASSUME BridgeInv, ListenerStarts PROVE BridgeInv'
<1> USE CodesTyped DEF BridgeInv
<1>0. /\ Alive /\ main = "starting" /\ app' \in {"none", "running"}
      /\ UNCHANGED <<launcher, control, stopper, open, linked, toJvm, supervision, asks,
                     killed, broken>>
  BY DEF ListenerStarts
<1>1. CASE /\ Send(Packet("STARTED", NoCode)) /\ main' = "end"
           /\ UNCHANGED <<flags, hook, shutdown, code, exited, asked, cause>>
  <2>1. Packet("STARTED", NoCode) \in ToWrapperPacket
    BY DEF ToWrapperPacket
  <2>2. /\ toWrapper' \in Seq(ToWrapperPacket) /\ Len(toWrapper') <= Room
        /\ toWrapper' = toWrapper \/ toWrapper' = Append(toWrapper, Packet("STARTED", NoCode))
    BY <1>1, <2>1, SendEffect
  <2>3. TypeOK'
    BY <1>0, <1>1, <2>2 DEF TypeOK, Booleans, ToWrapperPacket
  <2>4. Causes' /\ Places' /\ Process' /\ CleanReturn'
    BY <1>0, <1>1 DEF TypeOK, Booleans, Causes, Places, Process, CleanReturn
  <2>5. Starts' /\ Decided'
    BY <1>0, <1>1 DEF TypeOK, Causes, Places, Starts, NotStarted, Busy, Decided
  <2>6. Earned'
    BY <1>0, <1>1, <2>1, <2>2, SendKeepsEarned DEF Asked, Clean
  <2>7. Forwarded'
    <3>1. FirstStop => FirstStop'
      BY <1>1, <2>1, <2>2, AppendKeepsFirst DEF FirstStop
    <3> QED
      BY <1>0, <1>1, <3>1 DEF Forwarded
  <2> QED
    BY <2>3, <2>4, <2>5, <2>6, <2>7
<1>2. ASSUME NEW n \in AppCodes, Send(Packet("STOP", n)), asked' = Append(asked, n),
             main' = "end", UNCHANGED <<flags, hook, shutdown, code, exited, cause>>
      PROVE  BridgeInv'
  <2>1. Packet("STOP", n) \in ToWrapperPacket
    BY DEF ToWrapperPacket
  <2>2. /\ toWrapper' \in Seq(ToWrapperPacket) /\ Len(toWrapper') <= Room
        /\ toWrapper' = toWrapper \/ toWrapper' = Append(toWrapper, Packet("STOP", n))
        /\ open /\ linked => toWrapper' = Append(toWrapper, Packet("STOP", n))
    BY <1>2, <2>1, SendEffect
  <2>3. TypeOK'
    BY <1>0, <1>2, <2>2 DEF TypeOK, Booleans, ToWrapperPacket
  <2>4. Causes' /\ Places' /\ Process' /\ CleanReturn'
    BY <1>0, <1>2 DEF TypeOK, Booleans, Causes, Places, Process, CleanReturn
  <2>5. Starts' /\ Decided'
    BY <1>0, <1>2 DEF TypeOK, Causes, Places, Starts, NotStarted, Busy, Decided
  <2>6. Earned'
    <3>1. Asked \subseteq Asked' /\ n \in Asked'
      BY <1>2, AskedGrows
    <3> DEFINE packet == Packet("STOP", n)
    <3>2. /\ packet \in ToWrapperPacket /\ packet.kind = "STOP" /\ packet.code \in Asked'
          /\ toWrapper' = toWrapper \/ toWrapper' = Append(toWrapper, packet)
      BY <2>1, <2>2, <3>1
    <3>3. UNCHANGED <<cause, outcome>>
      BY <1>0, <1>2
    <3>4. TypeOK /\ Earned
      OBVIOUS
    <3> HIDE DEF packet, BridgeInv
    <3> QED
      BY <3>1, <3>2, <3>3, <3>4, SendKeepsEarned
  <2>7. Forwarded'
    BY <1>0, <1>2, <2>2, AskForwards
  <2> QED
    BY <2>3, <2>4, <2>5, <2>6, <2>7
<1>3. CASE /\ flags' = flags \cup {"abnormalExit"} /\ SystemExit(1, "crash")
           /\ main' = "blocked" /\ UNCHANGED <<toWrapper, asked>>
  <2>1. TypeOK'
    BY <1>0, <1>3 DEF TypeOK, Booleans, SystemExit
  <2>2. Causes' /\ Places' /\ Process'
    BY <1>0, <1>3 DEF TypeOK, Booleans, Causes, Places, Process, SystemExit
  <2>3. Starts' /\ Decided' /\ CleanReturn'
    BY <1>0, <1>3
       DEF TypeOK, Causes, Places, CleanReturn, Starts, NotStarted, Busy, Decided, SystemExit
  <2>4. Earned' /\ Forwarded'
    BY <1>0, <1>3 DEF TypeOK, Causes, Earned, Asked, Forwarded, FirstStop, SystemExit
  <2> QED
    BY <2>1, <2>2, <2>3, <2>4
<1>4. CASE /\ main' = "failed"
           /\ UNCHANGED <<toWrapper, flags, hook, shutdown, code, exited, asked, cause>>
  <2>1. TypeOK'
    BY <1>0, <1>4 DEF TypeOK, Booleans
  <2>2. Causes' /\ Places' /\ Process'
    BY <1>0, <1>4 DEF TypeOK, Booleans, Causes, Places, Process
  <2>3. Starts' /\ Decided' /\ CleanReturn'
    BY <1>0, <1>4
       DEF TypeOK, Causes, Places, CleanReturn, Starts, NotStarted, Busy, Decided
  <2>4. Earned' /\ Forwarded'
    BY <1>0, <1>4 DEF Earned, Asked, Forwarded, FirstStop
  <2> QED
    BY <2>1, <2>2, <2>3, <2>4
<1> QED
  BY <1>1, <1>2, <1>3, <1>4 DEF ListenerStarts

\* STARTED is no STOP.
LEMMA ReportStartedKeeps == ASSUME BridgeInv, ReportStarted PROVE BridgeInv'
<1> USE CodesTyped DEF BridgeInv, ReportStarted
<1> DEFINE packet == Packet("STARTED", NoCode)
<1>1. packet \in ToWrapperPacket
  BY DEF ToWrapperPacket
<1>2. /\ toWrapper' \in Seq(ToWrapperPacket) /\ Len(toWrapper') <= Room
      /\ toWrapper' = toWrapper \/ toWrapper' = Append(toWrapper, packet)
  BY <1>1, SendEffect
<1>3. TypeOK'
  BY <1>2 DEF TypeOK, Booleans, ToWrapperPacket
<1>4. Causes' /\ Places' /\ Process' /\ CleanReturn'
  BY DEF TypeOK, Booleans, Causes, Places, Process, CleanReturn
<1>5. Starts' /\ Decided'
  BY DEF TypeOK, Causes, Places, Starts, NotStarted, Busy, Decided
<1>6. Earned'
  BY <1>1, <1>2, SendKeepsEarned DEF Asked, Clean
<1>7. Forwarded'
  <2>1. FirstStop => FirstStop'
    BY <1>1, <1>2, AppendKeepsFirst DEF FirstStop
  <2> QED
    BY <2>1 DEF Forwarded
<1> QED
  BY <1>3, <1>4, <1>5, <1>6, <1>7

\* STOPPED decides nothing: the wrapper that waits reads no packets.
LEMMA ReportStoppedKeeps == ASSUME BridgeInv, ReportStopped PROVE BridgeInv'
<1> USE CodesTyped DEF BridgeInv, ReportStopped
<1> DEFINE packet == Packet("STOPPED", control.code)
<1>1. packet \in ToWrapperPacket
  BY DEF ToWrapperPacket, TypeOK
<1>2. /\ toWrapper' \in Seq(ToWrapperPacket) /\ Len(toWrapper') <= Room
      /\ toWrapper' = toWrapper \/ toWrapper' = Append(toWrapper, packet)
  BY <1>1, SendEffect DEF TypeOK, ToWrapperPacket
<1>3. TypeOK'
  BY <1>2 DEF TypeOK, Booleans, ToWrapperPacket
<1>4. Causes' /\ Places' /\ Process' /\ CleanReturn'
  BY DEF TypeOK, Booleans, Causes, Places, Process, CleanReturn
<1>5. Starts' /\ Decided'
  BY DEF TypeOK, Causes, Places, Starts, NotStarted, Busy, Decided
<1>6. Earned'
  BY <1>1, <1>2, SendKeepsEarned DEF Asked, Clean
<1>7. Forwarded'
  BY DEF Forwarded, Places, Decided
<1> QED
  BY <1>3, <1>4, <1>5, <1>6, <1>7

\* A stop the application asks for reaches the channel in the order of asking.
LEMMA AppAsksKeeps == ASSUME BridgeInv, AppAsks PROVE BridgeInv'
<1> USE CodesTyped DEF BridgeInv
<1>0. /\ Runs /\ asks' \in 0..MaxAsks
      /\ UNCHANGED <<launcher, threads, ending, flags, open, linked, toJvm, supervision,
                     cause, killed, broken>>
  BY DEF AppAsks, TypeOK
<1>1. Causes' /\ Places' /\ Process' /\ CleanReturn'
  BY <1>0 DEF TypeOK, Booleans, Causes, Places, Process, CleanReturn
<1>2. Starts' /\ Decided'
  BY <1>0 DEF TypeOK, Starts, NotStarted, Busy, Decided
<1>3. ASSUME NEW n \in AppCodes, Send(Packet("STOP", n)), asked' = Append(asked, n)
      PROVE  BridgeInv'
  <2>1. Packet("STOP", n) \in ToWrapperPacket
    BY DEF ToWrapperPacket
  <2>2. /\ toWrapper' \in Seq(ToWrapperPacket) /\ Len(toWrapper') <= Room
        /\ toWrapper' = toWrapper \/ toWrapper' = Append(toWrapper, Packet("STOP", n))
        /\ open /\ linked => toWrapper' = Append(toWrapper, Packet("STOP", n))
    BY <1>3, <2>1, SendEffect
  <2>3. TypeOK'
    BY <1>0, <1>3, <2>2 DEF TypeOK, Booleans, ToWrapperPacket
  <2>4. Earned'
    <3>1. Asked \subseteq Asked' /\ n \in Asked'
      BY <1>3, AskedGrows
    <3> DEFINE packet == Packet("STOP", n)
    <3>2. /\ packet \in ToWrapperPacket /\ packet.kind = "STOP" /\ packet.code \in Asked'
          /\ toWrapper' = toWrapper \/ toWrapper' = Append(toWrapper, packet)
      BY <2>1, <2>2, <3>1
    <3>3. UNCHANGED <<cause, outcome>>
      BY <1>0, <1>3
    <3>4. TypeOK /\ Earned
      OBVIOUS
    <3> HIDE DEF packet, BridgeInv
    <3> QED
      BY <3>1, <3>2, <3>3, <3>4, SendKeepsEarned
  <2>5. Forwarded'
    BY <1>0, <1>3, <2>2, AskForwards DEF Runs
  <2> QED
    BY <1>1, <1>2, <2>3, <2>4, <2>5
<1>4. ASSUME NEW kind \in {"RESTART", "LOG"}, Send(Packet(kind, NoCode)), asked' = asked
      PROVE  BridgeInv'
  <2>1. Packet(kind, NoCode) \in ToWrapperPacket
    BY DEF ToWrapperPacket
  <2>2. /\ toWrapper' \in Seq(ToWrapperPacket) /\ Len(toWrapper') <= Room
        /\ toWrapper' = toWrapper \/ toWrapper' = Append(toWrapper, Packet(kind, NoCode))
    BY <1>4, <2>1, SendEffect
  <2>3. TypeOK'
    BY <1>0, <1>4, <2>2 DEF TypeOK, Booleans, ToWrapperPacket
  <2>4. Earned'
    BY <1>0, <1>4, <2>1, <2>2, SendKeepsEarned DEF Asked, Clean
  <2>5. Forwarded'
    <3>1. FirstStop => FirstStop'
      BY <1>4, <2>1, <2>2, AppendKeepsFirst DEF FirstStop
    <3> QED
      BY <1>0, <1>4, <3>1 DEF Forwarded
  <2> QED
    BY <1>1, <1>2, <2>3, <2>4, <2>5
<1> QED
  BY <1>3, <1>4 DEF AppAsks

\* The hook sends STOP 0 only for an exit that is neither abnormal nor asked for.
LEMMA HookSendsKeeps == ASSUME BridgeInv, HookSends PROVE BridgeInv'
<1> USE CodesTyped DEF BridgeInv, HookSends
<1> DEFINE packet == Packet("STOP", 0)
<1>1. packet \in ToWrapperPacket
  BY DEF ToWrapperPacket
<1>2. /\ toWrapper' \in Seq(ToWrapperPacket) /\ Len(toWrapper') <= Room
      /\ toWrapper' = toWrapper \/ toWrapper' = Append(toWrapper, packet)
      /\ toWrapper' = toWrapper \/ Tells
  BY <1>1, SendEffect DEF TypeOK, ToWrapperPacket
<1>3. TypeOK'
  BY <1>2 DEF TypeOK, Booleans, ToWrapperPacket
<1>4. Causes' /\ Places' /\ Process' /\ CleanReturn'
  BY DEF TypeOK, Booleans, Causes, Places, Process, CleanReturn
<1>5. Starts' /\ Decided'
  BY DEF TypeOK, Causes, Places, Starts, NotStarted, Busy, Decided
<1>6. Earned'
  <2>1. Tells => cause \in Clean
    BY DEF Tells, Causes, Places, TypeOK, Clean
  <2>2. CASE toWrapper' = toWrapper
    BY <2>2 DEF Earned, Asked
  <2>3. CASE Tells
    BY <1>1, <1>2, <2>1, <2>3, SendKeepsEarned DEF Asked, Clean
  <2> QED
    BY <1>2, <2>2, <2>3
<1>7. Forwarded'
  BY DEF Forwarded, Causes
<1> QED
  BY <1>3, <1>4, <1>5, <1>6, <1>7

\* The hook closes the socket after jvmShuttingDown is set.
LEMMA HookClosesKeeps == ASSUME BridgeInv, HookCloses PROVE BridgeInv'
<1> USE CodesTyped DEF BridgeInv, HookCloses
<1>1. /\ toWrapper' \in Seq(ToWrapperPacket) /\ Len(toWrapper') <= Room
      /\ \A i \in DOMAIN toWrapper' :
           i \in DOMAIN toWrapper /\ toWrapper'[i] = toWrapper[i]
      /\ open' = FALSE
  BY CloseEffect
<1>2. TypeOK'
  <2>1. Booleans'
    BY <1>1, Zenon DEF TypeOK, Booleans
  <2> QED
    BY <1>1, <2>1 DEF TypeOK, ToWrapperPacket
<1>3. Causes' /\ Places' /\ Process' /\ CleanReturn'
  BY <1>1 DEF TypeOK, Booleans, Causes, Places, Process, CleanReturn
<1>4. Starts' /\ Decided'
  BY DEF Starts, NotStarted, Busy, Decided
<1>5. Earned' /\ Forwarded'
  BY <1>1 DEF Causes, Process, Earned, Asked, Forwarded
<1> QED
  BY <1>2, <1>3, <1>4, <1>5

\* The process ends with the code of its shutdown.
LEMMA HaltKeeps == ASSUME BridgeInv, Halt PROVE BridgeInv'
<1> USE CodesTyped DEF BridgeInv, Halt
<1>1. /\ toWrapper' \in Seq(ToWrapperPacket) /\ Len(toWrapper') <= Room
      /\ \A i \in DOMAIN toWrapper' :
           i \in DOMAIN toWrapper /\ toWrapper'[i] = toWrapper[i]
      /\ open' = FALSE
  <2>1. CASE open /\ CloseSocket
    BY <2>1, CloseEffect
  <2>2. CASE ~open /\ UNCHANGED <<open, toWrapper>>
    <3>1. open' = FALSE
      BY <2>2, Zenon DEF TypeOK, Booleans
    <3> QED
      BY <2>2, <3>1 DEF TypeOK, ToWrapperPacket
  <2> QED
    BY <2>1, <2>2, Zenon
<1>2. TypeOK'
  <2>1. Booleans'
    BY <1>1, Zenon DEF TypeOK, Booleans
  <2> QED
    BY <1>1, <2>1 DEF TypeOK, ToWrapperPacket
<1>3. Causes' /\ Places' /\ Process' /\ CleanReturn'
  BY <1>1 DEF TypeOK, Booleans, Causes, Places, Process, CleanReturn
<1>4. Starts' /\ Decided'
  BY DEF Starts, NotStarted, Busy, Decided
<1>5. Earned' /\ Forwarded'
  BY <1>1 DEF Causes, Process, Earned, Asked, Forwarded
<1> QED
  BY <1>2, <1>3, <1>4, <1>5

\* shutdown_and_drain once the outcome is decided: the parts of the invariant that
\* are about the process, whatever packets are left.
LEMMA ShutdownKeeps ==
  ASSUME BridgeInv, Listening, NEW n \in Codes, ShutdownAndDrain(n),
         outcome' \in [kind : {"Exited", "Restart", "Decided"}, code : {n}],
         toWrapper' \in Seq(ToWrapperPacket), Len(toWrapper') <= Room,
         UNCHANGED <<launcher, threads, hook, shutdown, code, flags, asked, asks, cause,
                     broken>>
  PROVE  /\ TypeOK' /\ Causes' /\ Places' /\ Process' /\ Starts' /\ Decided'
         /\ CleanReturn'
         /\ launcher # "Listener" =>
              /\ \A i \in DOMAIN toJvm' :
                   toJvm'[i].kind = "STOP" => toJvm'[i].code = outcome'.code
              /\ ~Stopping' /\ cause' # "stop"
         /\ ~Listening'
<1> USE CodesTyped DEF BridgeInv
<1>1. ~Stopping /\ cause # "stop"
      /\ \A i \in DOMAIN toJvm : toJvm[i].kind # "STOP"
  BY DEF Decided, Causes
<1>2. toJvm' = toJvm \/ (wrapper = "loop" /\ toJvm' = Append(toJvm, Packet("STOP", n)))
  BY DEF ShutdownAndDrain, StopPacket
<1>3. toJvm \in Seq([kind : {"START", "CONTROL", "STOP"}, code : Codes \cup {NoCode}])
  BY DEF TypeOK
<1>4. /\ toJvm' \in Seq([kind : {"START", "CONTROL", "STOP"}, code : Codes \cup {NoCode}])
      /\ \A i \in DOMAIN toJvm' :
           (i \in DOMAIN toJvm /\ toJvm'[i] = toJvm[i]) \/ toJvm'[i] = Packet("STOP", n)
  <2>1. CASE toJvm' = toJvm
    BY <1>3, <2>1
  <2>2. CASE toJvm' = Append(toJvm, Packet("STOP", n))
    <3>1. Packet("STOP", n) \in [kind : {"START", "CONTROL", "STOP"}, code : Codes \cup {NoCode}]
      OBVIOUS
    <3> QED
      BY <1>3, <2>2, <3>1
  <2> QED
    BY <1>2, <2>1, <2>2
<1>5. Booleans'
  BY Zenon DEF TypeOK, Booleans, ShutdownAndDrain, Kill
<1>6. /\ wrapper' \in {"waiting", "done"}
      /\ exited' = exited \/ (Alive /\ exited' = 1 /\ wrapper' = "done")
  <2>1. CASE Alive /\ Kill
    BY <2>1, Zenon DEF Kill
  <2>2. CASE UNCHANGED exited /\ wrapper' \in {"waiting", "done"}
    BY <2>2
  <2> QED
    BY <2>1, <2>2 DEF ShutdownAndDrain
<1>7. TypeOK'
  BY <1>4, <1>5, <1>6 DEF TypeOK, ToWrapperPacket
<1>8. Causes' /\ Places' /\ CleanReturn'
  <2>1. killed' = FALSE => killed = FALSE
    BY Zenon DEF TypeOK, Booleans, ShutdownAndDrain, Kill, Process
  <2> QED
    BY <1>5, <2>1 DEF Causes, Places, CleanReturn, TypeOK, Booleans
<1>9. Process'
  <2>1. CASE /\ ~Alive /\ wrapper' = "done"
             /\ UNCHANGED <<exited, killed, open, linked, toJvm>>
    BY <2>1 DEF Process, TypeOK, Booleans
  <2>2. CASE Alive /\ Kill
    <3>1. killed' = TRUE /\ exited' = 1 /\ wrapper' = "done"
      BY <2>2, Zenon DEF Kill, Process, TypeOK, Booleans
    <3> QED
      BY <3>1, <1>5 DEF Process
  <2>3. CASE Alive /\ wrapper' = "waiting" /\ UNCHANGED <<exited, killed, open, linked>>
    BY <2>3 DEF Process, TypeOK, Booleans
  <2> QED
    BY <2>1, <2>2, <2>3, Zenon DEF ShutdownAndDrain
<1>10. Starts' /\ Decided'
  BY <1>1, <1>4, <1>6 DEF Starts, NotStarted, Busy, Decided
<1> QED
  BY <1>1, <1>4, <1>6, <1>7, <1>8, <1>9, <1>10

\* A decision of the wrapper itself is no verdict of the application.
LEMMA EndInvocationKeeps == ASSUME BridgeInv, EndInvocation PROVE BridgeInv'
<1> USE CodesTyped
<1>1. PICK n \in {0, 1} : ShutdownAndDrain(n) /\ Decide("Decided", n)
  BY DEF EndInvocation
<1>2. /\ n \in Codes /\ Listening
      /\ outcome' \in [kind : {"Exited", "Restart", "Decided"}, code : {n}]
      /\ outcome'.kind = "Decided"
      /\ toWrapper' \in Seq(ToWrapperPacket) /\ Len(toWrapper') <= Room
      /\ UNCHANGED <<launcher, threads, hook, shutdown, code, flags, toWrapper, asked,
                     asks, cause, broken>>
  BY <1>1 DEF EndInvocation, Decide, BridgeInv, TypeOK, ToWrapperPacket
<1>3. /\ TypeOK' /\ Causes' /\ Places' /\ Process' /\ Starts' /\ Decided'
      /\ CleanReturn'
      /\ launcher # "Listener" =>
           /\ \A i \in DOMAIN toJvm' :
                toJvm'[i].kind = "STOP" => toJvm'[i].code = outcome'.code
           /\ ~Stopping' /\ cause' # "stop"
      /\ ~Listening'
  BY <1>1, <1>2, ShutdownKeeps
<1>4. Earned' /\ Forwarded'
  BY <1>2, <1>3 DEF BridgeInv, Earned, Asked, Forwarded
<1> QED
  BY <1>3, <1>4 DEF BridgeInv

\* The first STOP in the channel becomes the verdict, and its code is forwarded.
LEMMA HandleProtocolKeeps == ASSUME BridgeInv, HandleProtocol PROVE BridgeInv'
<1> USE CodesTyped
<1> DEFINE head == Head(toWrapper)
<1>1. /\ toWrapper \in Seq(ToWrapperPacket) /\ toWrapper # <<>> /\ wrapper = "loop"
      /\ Len(toWrapper) <= Room
      /\ toWrapper' = Tail(toWrapper)
      /\ UNCHANGED <<launcher, threads, hook, shutdown, code, flags, asked, asks, cause,
                     broken>>
  BY DEF HandleProtocol, BridgeInv, TypeOK, ToWrapperPacket
<1>2. /\ head = toWrapper[1] /\ head \in ToWrapperPacket
      /\ toWrapper' \in Seq(ToWrapperPacket) /\ Len(toWrapper') <= Room
      /\ DOMAIN toWrapper = 1..Len(toWrapper) /\ DOMAIN toWrapper' = 1..(Len(toWrapper) - 1)
      /\ Len(toWrapper) \in Nat \ {0}
      /\ \A i \in 1..(Len(toWrapper) - 1) : toWrapper'[i] = toWrapper[i + 1]
  BY <1>1
<1>3. \A i \in DOMAIN toWrapper' : \E j \in DOMAIN toWrapper : toWrapper'[i] = toWrapper[j]
  BY <1>2
<1>4. Asked' = Asked
  BY <1>1 DEF Asked
<1>5. CASE head.kind = "STOP"
  <2>1. ShutdownAndDrain(head.code) /\ outcome' = [kind |-> "Exited", code |-> head.code]
    BY <1>5 DEF HandleProtocol, Decide
  <2>2. head.code \in Asked \/ (head.code = 0 /\ cause \in {"return", "exit", "error"})
    <3>1. 1 \in DOMAIN toWrapper /\ toWrapper[1].kind = "STOP"
      BY <1>2, <1>5
    <3>2. \/ toWrapper[1].code \in Asked
          \/ toWrapper[1].code = 0 /\ cause \in {"return", "exit", "error"}
      BY <3>1 DEF BridgeInv, Earned
    <3> QED
      BY <1>2, <3>2
  <2>3. head.code \in Codes
    BY <2>2 DEF BridgeInv, TypeOK, Asked
  <2>4. /\ TypeOK' /\ Causes' /\ Places' /\ Process' /\ Starts' /\ Decided'
        /\ CleanReturn'
        /\ launcher # "Listener" =>
             /\ \A i \in DOMAIN toJvm' :
                  toJvm'[i].kind = "STOP" => toJvm'[i].code = outcome'.code
             /\ ~Stopping' /\ cause' # "stop"
        /\ ~Listening'
    BY <1>1, <1>2, <2>1, <2>3, ShutdownKeeps
  <2>5. Earned'
    BY <1>1, <1>2, <1>3, <1>4, <2>1, <2>2 DEF BridgeInv, Earned
  <2>6. cause = "none" /\ ~broken => asked # <<>> /\ head.code = asked[1]
    BY <1>1, <1>2, <1>5 DEF BridgeInv, Forwarded, FirstStop
  <2>7. cause # "stop"
    BY <1>1 DEF BridgeInv, Causes, Decided
  <2>8. Forwarded'
    BY <1>1, <2>1, <2>4, <2>6, <2>7 DEF Forwarded
  <2> QED
    BY <2>4, <2>5, <2>8 DEF BridgeInv
<1>6. CASE head.kind = "RESTART"
  <2>1. ShutdownAndDrain(0) /\ outcome' = [kind |-> "Restart", code |-> 0]
    BY <1>6 DEF HandleProtocol, Decide
  <2>2. /\ TypeOK' /\ Causes' /\ Places' /\ Process' /\ Starts' /\ Decided'
        /\ CleanReturn'
        /\ launcher # "Listener" =>
             /\ \A i \in DOMAIN toJvm' :
                  toJvm'[i].kind = "STOP" => toJvm'[i].code = outcome'.code
             /\ ~Stopping' /\ cause' # "stop"
        /\ ~Listening'
    BY <1>1, <1>2, <2>1, ShutdownKeeps
  <2>3. Earned'
    BY <1>1, <1>2, <1>3, <1>4, <2>1 DEF BridgeInv, Earned
  <2>4. Forwarded'
    BY <1>1, <2>1, <2>2 DEF Forwarded
  <2> QED
    BY <2>2, <2>3, <2>4 DEF BridgeInv
<1>7. CASE head.kind \notin {"STOP", "RESTART"}
  <2>1. UNCHANGED <<exited, killed, open, linked, toJvm, supervision>>
    BY <1>7 DEF HandleProtocol
  <2>2. TypeOK'
    BY <1>1, <1>2, <2>1 DEF BridgeInv, TypeOK, Booleans, ToWrapperPacket
  <2>3. Causes' /\ Places' /\ Process' /\ Starts' /\ Decided' /\ CleanReturn'
    BY <1>1, <2>1 DEF BridgeInv, Causes, Places, Process, Starts, NotStarted, Busy,
                      Decided, CleanReturn
  <2>4. Earned'
    BY <1>1, <1>2, <1>3, <1>4, <2>1 DEF BridgeInv, Earned
  <2>5. FirstStop => FirstStop'
    <3>1. CASE asked = <<>>
      BY <1>1, <1>2, <3>1 DEF FirstStop
    <3>2. CASE asked # <<>>
      <4>1. SUFFICES ASSUME FirstStop PROVE FirstStop'
        OBVIOUS
      <4>2. PICK i \in DOMAIN toWrapper :
               /\ toWrapper[i] = Packet("STOP", asked[1])
               /\ \A j \in 1..(i - 1) : toWrapper[j].kind # "STOP"
        BY <3>2, <4>1 DEF FirstStop
      <4>3. i # 1
        BY <1>2, <1>7, <4>2
      <4>4. /\ i - 1 \in DOMAIN toWrapper'
            /\ toWrapper'[i - 1] = Packet("STOP", asked'[1])
            /\ \A j \in 1..(i - 1 - 1) : toWrapper'[j].kind # "STOP"
        BY <1>1, <1>2, <4>2, <4>3
      <4> QED
        BY <1>1, <3>2, <4>4 DEF FirstStop
    <3> QED
      BY <3>1, <3>2
  <2>6. Forwarded'
    BY <1>1, <2>1, <2>5 DEF BridgeInv, Forwarded
  <2> QED
    BY <2>2, <2>3, <2>4, <2>6 DEF BridgeInv
<1> QED
  BY <1>5, <1>6, <1>7

-----------------------------------------------------------------------------
(* The invariant holds, and the properties follow from it.                 *)

\* A JVM that has not started satisfies the invariant.
LEMMA BridgeInit == Init => BridgeInv
<1> SUFFICES ASSUME Init PROVE BridgeInv
  OBVIOUS
<1> USE CodesTyped DEF Init
<1>1. TypeOK
  <2>1. Booleans
    BY DEF Booleans
  <2>2. toWrapper \in Seq(ToWrapperPacket) /\ asked \in Seq(AppCodes)
        /\ toJvm \in Seq([kind : {"START", "CONTROL", "STOP"}, code : Codes \cup {NoCode}])
        /\ Len(toWrapper) <= Room
    OBVIOUS
  <2> QED
    BY <2>1, <2>2 DEF TypeOK, ToWrapperPacket, Undecided
<1>2. Causes /\ Places /\ Process /\ CleanReturn
  BY DEF Causes, Places, Process, CleanReturn
<1>3. Starts /\ Decided /\ Earned /\ Forwarded
  BY DEF Starts, NotStarted, Decided, Earned, Forwarded, FirstStop, Undecided
<1> QED
  BY <1>1, <1>2, <1>3 DEF BridgeInv

\* Every step of the JVM's threads and of the wrapper keeps it.
LEMMA BridgeStep == BridgeInv /\ [Next]_vars => BridgeInv'
<1> SUFFICES ASSUME BridgeInv, [Next]_vars PROVE BridgeInv'
  OBVIOUS
<1>1. CASE UNCHANGED vars
  BY <1>1 DEF vars, BridgeInv, TypeOK, Booleans, Causes, Places, Process, Starts,
     NotStarted, Busy, Decided, Earned, Asked, CleanReturn, Forwarded, FirstStop
<1>2. CASE MainThread
  BY <1>2, BootFailsKeeps, ConnectOrExitKeeps, ListenerStartsKeeps DEF MainThread
<1>3. CASE ControlThread
  BY <1>3, HandleStartKeeps, ReportStartedKeeps, HandleControlEventKeeps,
     HandleStopKeeps, ListenerStopsKeeps, JoinedKeeps, ThreadsGoneKeeps,
     ReportStoppedKeeps, ControlExitsKeeps, ReadFailsKeeps DEF ControlThread
<1>4. CASE PingTimesOut \/ StopMainEnds
  BY <1>4, PingTimesOutKeeps, StopMainEndsKeeps
<1>5. CASE Application
  BY <1>5, AppAsksKeeps, AppExitsKeeps, AppReturnsKeeps, AppThrowsKeeps DEF Application
<1>6. CASE JvmEnds
  BY <1>6, DestroyJavaVMKeeps, HookSendsKeeps, HookClosesKeeps, HaltKeeps DEF JvmEnds
<1>7. CASE Wrapper
  BY <1>7, AuthenticatesKeeps, HandleProtocolKeeps, HandleDisconnectedKeeps,
     WriteFailsKeeps, SendControlKeeps, NoticeExitKeeps, EndInvocationKeeps,
     WaitEndsKeeps, ShutdownTimeoutKeeps DEF Wrapper
<1> QED
  BY <1>1, <1>2, <1>3, <1>4, <1>5, <1>6, <1>7 DEF Next, Finished

\* It holds throughout.
LEMMA BridgeInvariant == Spec => []BridgeInv
  BY BridgeInit, BridgeStep, PTL DEF Spec

\* Every thread of the JVM and of the wrapper stays at one of its places, and the
\* channel within its room.
THEOREM BridgeTypeCorrect == Spec => []TypeOK
<1>1. BridgeInv => TypeOK
  BY DEF BridgeInv
<1> QED
  BY <1>1, BridgeInvariant, PTL

\* Code 0 reaches the on_exit policy only for an application that returned, called
\* System.exit, asked for 0 or threw an Error, in whatever order the wrapper
\* notices the hook's packet and the exit of the process.
THEOREM CleanVerdictsAreEarned == Spec => []CleanVerdictIsEarned
<1>1. BridgeInv => CleanVerdictIsEarned
  BY DEF BridgeInv, Earned, CleanVerdictIsEarned, Verdict
<1> QED
  BY <1>1, BridgeInvariant, PTL

\* The code the application asks for first is the code of the verdict and, where
\* no listener chooses another, of the process.
THEOREM AskedCodesAreForwarded == Spec => []AskedCodeIsForwarded
<1>1. BridgeInv => AskedCodeIsForwarded
  BY DEF BridgeInv, Process, Forwarded, AskedCodeIsForwarded
<1> QED
  BY <1>1, BridgeInvariant, PTL

\* The control thread does not take the socket its own shutdown hook has closed
\* for a lost channel: an application that returns ends its JVM with code 0.
THEOREM NormalExitsAreClean == Spec => []NormalExitIsClean
<1>1. BridgeInv => NormalExitIsClean
  BY DEF BridgeInv, Process, CleanReturn, NormalExitIsClean
<1> QED
  BY <1>1, BridgeInvariant, PTL

=============================================================================
