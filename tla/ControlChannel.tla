---------------------------- MODULE ControlChannel ----------------------------
(***************************************************************************)
(* The wrapper's end of the control channel (src/src/protocol.rs): the     *)
(* listener that authenticates the JVM among whatever connects to the      *)
(* loopback port, the reader thread that decodes packets, and the bounded  *)
(* queue from which the supervisor's event loop takes them.                *)
(*                                                                         *)
(* A packet travels as two units, its code and the rest with the NUL that  *)
(* ends it, so a read may return any part of what is on the wire and end   *)
(* inside a packet.  A unit is the number of its packet: 0 is KEY with the *)
(* right key, 1, 2, ... are what the JVM sends after it, Bad is anything   *)
(* else a stranger sends.                                                  *)
(***************************************************************************)
EXTENDS Integers, Sequences, FiniteSets

CONSTANTS
  Jvm,               \* the peer that knows the key
  Strangers,         \* other local peers that connect to the port
  NoPeer,            \* no connection
  MaxPending,        \* MAX_PENDING_HANDSHAKES (8)
  QueueCapacity,     \* EVENT_QUEUE_CAPACITY (256)
  HandshakeRead,     \* units one read of a handshake returns (512 bytes)
  HandshakeTimeout,  \* max(wrapper.startup.timeout, MIN_HANDSHAKE_TIMEOUT)
  MaxPackets         \* packets the JVM sends after its key (a bound)

Peers == {Jvm} \cup Strangers
Bad == -1

\* HandshakeRead: the packets that fit into one read fit into the queue, so
\* Connection::spawn never finds it full.
ASSUME ChannelAssumption ==
  /\ Jvm \notin Strangers /\ NoPeer \notin Peers
  /\ {MaxPending, QueueCapacity, HandshakeRead, HandshakeTimeout}
       \subseteq Nat \ {0}
  /\ HandshakeRead <= 2 * QueueCapacity
  /\ MaxPackets \in Nat

VARIABLES
  dialled,   \* peers that have connected, ever
  closed,    \* peers that have closed their end
  wire,      \* units a peer has written and the wrapper has not read
  aborted,   \* peers whose end was reset instead of closed
  sent,      \* packets the JVM has written, KEY included
  backlog,   \* connections the operating system holds for accept
  pending,   \* handshakes under way (Vec<PendingHandshake>)
  sweep,     \* index of the handshake to advance, 0 outside a poll
  polled,    \* the listener was polled in this unit of time
  conn,      \* the peer of the authenticated connection
  framer,    \* the reader's Framer: units of an incomplete packet
  outbox,    \* decoded packets the reader has not queued yet
  reader,    \* the reader thread
  queue,     \* the bounded channel of ReceiveEvents
  handled,   \* history: what the event loop received, in order
  due,       \* history: peers pending when this sweep began
  examined   \* history: peers this sweep has advanced

peerVars == <<dialled, closed, aborted, wire, sent>>
listener == <<backlog, pending, sweep, polled>>
connection == <<conn, framer, outbox, reader, queue>>
history == <<due, examined>>
vars == <<peerVars, listener, connection, handled, history>>

\* Variants named ...Slip are wrong on purpose: each is what a definition would
\* be after a plausible mistake in the code, and breaks a property.

-----------------------------------------------------------------------------
(* Framer::feed: packets completed by units, and what is left of the last. *)
Completed(units) == [i \in 1..(Len(units) \div 2) |-> <<units[2 * i - 1], units[2 * i]>>]

Leftover(units) == IF Len(units) % 2 = 1 THEN <<units[Len(units)]>> ELSE <<>>

Packet(n) == <<n, n>>
Disconnected == <<>>

\* What one read may return: any part of what is on the wire.
Reads(p, most) == {n \in 1..Len(wire[p]) : n <= most}

Chunk(p, n) == SubSeq(wire[p], 1, n)
Unread(p, n) == [wire EXCEPT ![p] = SubSeq(@, n + 1, Len(@))]

\* Vec::swap_remove: the last element takes the place of the removed one.
SwapRemove(seq, i) ==
  [k \in 1..(Len(seq) - 1) |-> IF k = i THEN seq[Len(seq)] ELSE seq[k]]

-----------------------------------------------------------------------------
(* The peers.                                                              *)
Dial(p) ==
  /\ p \notin dialled
  /\ dialled' = dialled \cup {p}
  /\ backlog' = Append(backlog, p)
  /\ UNCHANGED <<closed, aborted, wire, sent, pending, sweep, polled, connection,
                 handled, history>>

\* BackendClient::send writes whole frames: KEY from connect, then the others.
JvmWrites ==
  /\ Jvm \in dialled \ closed
  /\ sent <= MaxPackets
  /\ wire' = [wire EXCEPT ![Jvm] = @ \o <<sent, sent>>]
  /\ sent' = sent + 1
  /\ UNCHANGED <<dialled, closed, aborted, listener, connection, handled, history>>

\* A stranger writes half of a packet, or the other half.
StrangerWrites(p) ==
  /\ p \in dialled \ closed
  /\ Len(wire[p]) < 2
  /\ wire' = [wire EXCEPT ![p] = Append(@, Bad)]
  /\ UNCHANGED <<dialled, closed, aborted, sent, listener, connection, handled,
                 history>>

Close(p) ==
  /\ p \in dialled \ closed
  /\ closed' = closed \cup {p}
  /\ UNCHANGED <<dialled, aborted, wire, sent, listener, connection, handled,
                 history>>

\* The connection is reset (the process was killed, or closed its socket with
\* packets unread): what is still on the wire may be lost.
Abort(p) ==
  /\ p \in dialled \ closed
  /\ closed' = closed \cup {p}
  /\ aborted' = aborted \cup {p}
  /\ \E n \in 0..Len(wire[p]) : wire' = [wire EXCEPT ![p] = SubSeq(@, 1, n)]
  /\ UNCHANGED <<dialled, sent, listener, connection, handled, history>>

-----------------------------------------------------------------------------
(* poll_authentication, which tick calls while there is no connection.     *)

Handshake(p) == [peer |-> p, framer |-> <<>>, left |-> HandshakeTimeout]

\* Handshakes that may still be added before MAX_PENDING_HANDSHAKES is reached.
Room == MaxPending - Len(pending)

\* The accept loop takes the whole backlog; what finds the list of pending
\* handshakes full is closed.
Poll ==
  /\ conn = NoPeer
  /\ sweep = 0
  /\ LET taken == SubSeq(backlog, 1, IF Len(backlog) < Room THEN Len(backlog) ELSE Room)
     IN pending' = pending \o [i \in DOMAIN taken |-> Handshake(taken[i])]
  /\ backlog' = <<>>
  /\ sweep' = 1
  /\ due' = {pending'[i].peer : i \in DOMAIN pending'}
  /\ examined' = {}
  /\ UNCHANGED <<peerVars, polled, connection, handled>>

Sweeping == sweep \in DOMAIN pending
Current == pending[sweep]

Examine ==
  /\ examined' = examined \cup {Current.peer}
  /\ UNCHANGED due

Keep(units) ==
  /\ pending' = [pending EXCEPT ![sweep].framer = units]
  /\ sweep' = sweep + 1
  /\ UNCHANGED connection

NextAfterDropSkipSlip == sweep + 1

\* The index stays: it now names the handshake that took the place.
NextAfterDrop == sweep

Drop ==
  /\ pending' = SwapRemove(pending, sweep)
  /\ sweep' = NextAfterDrop
  /\ UNCHANGED connection

\* Packets that arrived in the same read as the key.
Initial(packets) == Tail(packets)

FramerFreshSlip(units) == <<>>

\* The reader goes on with the framer of the handshake.
HandedOver(units) == Leftover(units)

Authenticate(units) ==
  /\ pending' = SwapRemove(pending, sweep)
  /\ sweep' = 0
  /\ conn' = Current.peer
  /\ queue' = Initial(Completed(units))
  /\ framer' = HandedOver(units)
  /\ reader' = "reading"
  /\ outbox' = <<>>

ExpiredNeverSlip == FALSE

Expired == Current.left = 0

\* advance_handshake for the current handshake: its deadline, the end of its
\* stream, nothing to read, or a read that may complete its first packet.
Advance ==
  /\ Sweeping
  /\ Examine
  /\ LET p == Current.peer IN
       \/ Expired /\ Drop /\ UNCHANGED wire
       \/ /\ ~Expired /\ wire[p] = <<>>
          /\ IF p \in closed THEN Drop ELSE Keep(Current.framer)
          /\ UNCHANGED wire
       \/ /\ ~Expired
          /\ \E n \in Reads(p, HandshakeRead) :
               LET units == Current.framer \o Chunk(p, n) IN
                 /\ wire' = Unread(p, n)
                 /\ IF Completed(units) = <<>> THEN Keep(units)
                    ELSE IF Completed(units)[1] = Packet(0) THEN Authenticate(units)
                    ELSE Drop
  /\ UNCHANGED <<dialled, closed, aborted, sent, backlog, polled, handled>>

EndOfSweep ==
  /\ sweep > 0 /\ ~Sweeping
  /\ sweep' = 0
  /\ polled' = TRUE
  /\ UNCHANGED <<peerVars, backlog, pending, connection, handled, history>>

\* A unit of time is long against the tick, so the listener is polled in it
\* unless there is a connection.
Elapse ==
  /\ sweep = 0
  /\ polled \/ conn # NoPeer
  /\ \E i \in DOMAIN pending : pending[i].left > 0
  /\ pending' = [i \in DOMAIN pending |->
                   [pending[i] EXCEPT !.left = IF @ > 0 THEN @ - 1 ELSE 0]]
  /\ polled' = FALSE
  /\ UNCHANGED <<peerVars, backlog, sweep, connection, handled, history>>

-----------------------------------------------------------------------------
(* reader_loop: decode, then queue one by one, waiting while it is full.   *)
ReaderReads ==
  /\ reader = "reading" /\ outbox = <<>>
  /\ \E n \in Reads(conn, Len(wire[conn])) :
       LET units == framer \o Chunk(conn, n) IN
         /\ outbox' = Completed(units)
         /\ framer' = Leftover(units)
         /\ wire' = Unread(conn, n)
  /\ UNCHANGED <<dialled, closed, aborted, sent, listener, conn, reader, queue,
                 handled, history>>

ReaderPushesOrQuitsSlip ==
  /\ outbox # <<>>
  /\ IF Len(queue) < QueueCapacity
       THEN /\ queue' = Append(queue, Head(outbox))
            /\ outbox' = Tail(outbox)
            /\ UNCHANGED reader
       ELSE reader' = "done" /\ outbox' = <<>> /\ UNCHANGED queue
  /\ UNCHANGED <<peerVars, listener, conn, framer, handled, history>>

ReaderPushes ==
  /\ outbox # <<>>
  /\ Len(queue) < QueueCapacity
  /\ queue' = Append(queue, Head(outbox))
  /\ outbox' = Tail(outbox)
  /\ UNCHANGED <<peerVars, listener, conn, framer, reader, handled, history>>

EndOfStreamEarlySlip == conn \in closed

\* read returns 0 once the peer has closed and all it wrote has been read.
EndOfStream == conn \in closed /\ wire[conn] = <<>>

ReaderEnds ==
  /\ reader = "reading" /\ outbox = <<>>
  /\ EndOfStream
  /\ outbox' = <<Disconnected>>
  /\ reader' = "done"
  /\ UNCHANGED <<peerVars, listener, conn, framer, queue, handled, history>>

-----------------------------------------------------------------------------
(* The event loop.  Dropping a Connection shuts its socket down and leaves *)
(* the reader without a receiver.                                          *)
DropConnection ==
  /\ conn' = NoPeer
  /\ framer' = <<>> /\ outbox' = <<>> /\ queue' = <<>>
  /\ reader' = "none"

Receive ==
  /\ conn # NoPeer
  /\ queue # <<>>
  /\ handled' = Append(handled, Head(queue))
  /\ IF Head(queue) = Disconnected
       THEN DropConnection
       ELSE queue' = Tail(queue) /\ UNCHANGED <<conn, framer, outbox, reader>>
  /\ UNCHANGED <<peerVars, listener, history>>

\* send fails: mark_disconnected drops the connection with all it has queued.
SendFails ==
  /\ conn # NoPeer
  /\ DropConnection
  /\ UNCHANGED <<peerVars, listener, handled, history>>

-----------------------------------------------------------------------------
Init ==
  /\ dialled = {} /\ closed = {} /\ aborted = {}
  /\ wire = [p \in Peers |-> <<>>]
  /\ sent = 0
  /\ backlog = <<>> /\ pending = <<>> /\ sweep = 0 /\ polled = FALSE
  /\ conn = NoPeer /\ framer = <<>> /\ outbox = <<>> /\ reader = "none"
  /\ queue = <<>>
  /\ handled = <<>>
  /\ due = {} /\ examined = {}

Next ==
  \/ \E p \in Peers : Dial(p) \/ Close(p) \/ Abort(p)
  \/ JvmWrites
  \/ \E p \in Strangers : StrangerWrites(p)
  \/ Poll \/ Advance \/ EndOfSweep \/ Elapse
  \/ ReaderReads \/ ReaderPushes \/ ReaderEnds
  \/ Receive \/ SendFails

(***************************************************************************)
(* The ticker polls again and again while there is no connection, the      *)
(* reader is a thread of its own, the event loop receives what is queued,  *)
(* and time passes.  Peers owe nothing.                                    *)
(***************************************************************************)
Spec ==
  /\ Init
  /\ [][Next]_vars
  /\ WF_vars(Poll) /\ WF_vars(Advance) /\ WF_vars(EndOfSweep) /\ SF_vars(Elapse)
  /\ WF_vars(ReaderReads) /\ WF_vars(ReaderPushes) /\ WF_vars(ReaderEnds)
  /\ WF_vars(Receive)

-----------------------------------------------------------------------------
(* Properties.                                                             *)

\* Every variable has the type of its declaration; the list of pending
\* handshakes and the queue stay within their capacities.
TypeOK ==
  /\ aborted \subseteq closed /\ closed \subseteq dialled /\ dialled \subseteq Peers
  /\ wire \in [Peers -> Seq(Bad..MaxPackets)]
  /\ sent \in 0..(MaxPackets + 1)
  /\ backlog \in Seq(Peers)
  /\ \A i \in DOMAIN pending :
       /\ pending[i].peer \in Peers
       /\ Len(pending[i].framer) < 2
       /\ pending[i].left \in 0..HandshakeTimeout
  /\ Len(pending) <= MaxPending
  /\ sweep \in 0..(MaxPending + 1) /\ polled \in BOOLEAN
  /\ conn \in {NoPeer, Jvm}
  /\ Len(framer) < 2
  /\ reader \in {"none", "reading", "done"}
  /\ Len(queue) <= QueueCapacity

\* The event loop receives the packets the JVM wrote after its key, in their
\* order, none lost, doubled or cut in two, wherever the reads of handshake
\* and reader happen to end; Disconnected comes last.
PacketsInOrder ==
  \A i \in DOMAIN handled :
    \/ handled[i] = Packet(i)
    \/ handled[i] = Disconnected /\ i = Len(handled)

\* When the event loop learns that the JVM has closed the channel, it has
\* received every packet the JVM wrote, unless the connection was reset: a STOP
\* or RESTART written just before an orderly close is not lost on the way.
ClosedMeansComplete ==
  Jvm \notin aborted /\ handled # <<>> /\ handled[Len(handled)] = Disconnected =>
    Len(handled) = sent

\* "advances every pending handshake": although removing one moves another to
\* its place, a sweep that ends without a connection has advanced each
\* handshake, and none twice.
SweepIsFair ==
  /\ sweep > 0 /\ ~Sweeping => examined = due
  /\ Sweeping => Current.peer \notin examined

\* "stays silent for handshake_timeout is dropped": no handshake stays in the
\* list, silent, slow or in the middle of a packet, as long as the listener is
\* polled.
EveryHandshakeEnds ==
  \A p \in Peers :
    (\E i \in DOMAIN pending : pending[i].peer = p)
       ~> (conn # NoPeer \/ \A i \in DOMAIN pending : pending[i].peer # p)

\* What the JVM writes reaches the event loop, through a queue that may be
\* full, unless the connection is lost first.
AllIsReceived ==
  \A n \in 1..MaxPackets :
    (conn = Jvm /\ sent > n) ~> (conn # Jvm \/ Len(handled) >= n)

=============================================================================
