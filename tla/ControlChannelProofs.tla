------------------------- MODULE ControlChannelProofs -------------------------
(***************************************************************************)
(* Proofs about the wrapper's end of the control channel, for any number   *)
(* of strangers and packets, any capacities, and reads that end anywhere.  *)
(* The argument follows the units of the JVM's stream: what lies in the    *)
(* framer and on the wire always continues what has been decoded.          *)
(***************************************************************************)
EXTENDS ControlChannel, TLAPS, SequenceTheorems

-----------------------------------------------------------------------------
(* The inductive invariant, in named parts.                                *)

Units == Bad..MaxPackets
Items == Seq(Units)
Handshakes == [peer : Peers, framer : {f \in Seq(Units) : Len(f) < 2},
               left : 0..HandshakeTimeout]

Types ==
  /\ aborted \subseteq closed /\ closed \subseteq dialled /\ dialled \subseteq Peers
  /\ wire \in [Peers -> Seq(Units)]
  /\ sent \in 0..(MaxPackets + 1)
  /\ backlog \in Seq(Peers)
  /\ pending \in Seq(Handshakes) /\ Len(pending) <= MaxPending
  /\ sweep \in 0..(Len(pending) + 1)
  /\ conn \in {NoPeer, Jvm}
  /\ framer \in Seq(Units) /\ Len(framer) < 2
  /\ reader \in {"none", "reading", "done"}
  /\ outbox \in Seq(Items) /\ handled \in Seq(Items)
  /\ queue \in Seq(Items) /\ Len(queue) <= QueueCapacity

\* A connection is in one place.
Places ==
  /\ \A i, j \in DOMAIN backlog : backlog[i] = backlog[j] => i = j
  /\ \A i, j \in DOMAIN pending : pending[i].peer = pending[j].peer => i = j
  /\ \A i \in DOMAIN backlog : backlog[i] \in dialled
  /\ \A j \in DOMAIN pending : pending[j].peer \in dialled
  /\ \A i \in DOMAIN backlog, j \in DOMAIN pending : pending[j].peer # backlog[i]

\* The JVM is served once.
ServedOnce ==
  conn = Jvm \/ handled # <<>> =>
    /\ Jvm \in dialled
    /\ \A i \in DOMAIN backlog : backlog[i] # Jvm
    /\ \A j \in DOMAIN pending : pending[j].peer # Jvm

\* A stranger does not know the key.
NoKey ==
  /\ \A p \in Strangers : \A k \in DOMAIN wire[p] : wire[p][k] = Bad
  /\ \A j \in DOMAIN pending : pending[j].peer \in Strangers =>
       \A k \in DOMAIN pending[j].framer : pending[j].framer[k] = Bad

\* Units that begin with packet b.
Stream(s, b) == \A k \in DOMAIN s : s[k] = b + (k - 1) \div 2

\* The units f of an incomplete packet and the wire go on with packet b; unless
\* the connection was reset, all that is missing of what was sent is there.
InStep(f, b) ==
  /\ Stream(f \o wire[Jvm], b)
  /\ Jvm \notin aborted => 2 * b + Len(f) + Len(wire[Jvm]) = 2 * sent

Waits == Jvm \notin dialled \/ \E i \in DOMAIN backlog : backlog[i] = Jvm

\* Packets decoded so far, KEY included.
Decoded == 1 + Len(handled) + Len(queue) + Len(outbox)

StreamInv ==
  /\ Waits => InStep(<<>>, 0)
  /\ \A j \in DOMAIN pending : pending[j].peer = Jvm => InStep(pending[j].framer, 0)
  /\ conn = Jvm /\ reader = "reading" => InStep(framer, Decoded)

\* Nothing more will be written, and n is what there was.
Final(n) == Jvm \in closed /\ (Jvm \notin aborted => n = sent)

\* What is queued continues what was handled.
Ordered ==
  /\ \A i \in DOMAIN handled :
       \/ handled[i] = Packet(i)
       \/ handled[i] = Disconnected /\ i = Len(handled) /\ conn = NoPeer /\ Final(i)
  /\ \A i \in DOMAIN queue :
       \/ queue[i] = Packet(Len(handled) + i)
       \/ /\ queue[i] = Disconnected /\ i = Len(queue) /\ outbox = <<>> /\ reader = "done"
          /\ Final(Len(handled) + i)
  /\ \A i \in DOMAIN outbox :
       \/ outbox[i] = Packet(Len(handled) + Len(queue) + i)
       \/ /\ outbox[i] = Disconnected /\ i = Len(outbox) /\ reader = "done"
          /\ Final(Len(handled) + Len(queue) + i)
  /\ conn = NoPeer => queue = <<>> /\ outbox = <<>> /\ framer = <<>>
  /\ conn = NoPeer <=> reader = "none"

\* The sweep is between the handshakes it has advanced and those it has not.
Swept ==
  sweep > 0 =>
    /\ examined \subseteq due
    /\ \A k \in DOMAIN pending : k < sweep => pending[k].peer \in examined
    /\ \A k \in DOMAIN pending : k >= sweep => pending[k].peer \in due \ examined
    /\ \A p \in due \ examined : \E k \in DOMAIN pending : k >= sweep /\ pending[k].peer = p

ChannelInv ==
  /\ Types /\ polled \in BOOLEAN
  /\ Places /\ ServedOnce /\ NoKey /\ StreamInv /\ Ordered /\ Swept

-----------------------------------------------------------------------------
(* Sequences.                                                              *)

\* A function on 1..n is a sequence.
LEMMA FunctionIsSeq ==
  ASSUME NEW S, NEW n \in Nat, NEW f \in [1..n -> S]
  PROVE  f \in Seq(S) /\ Len(f) = n /\ DOMAIN f = 1..n
<1>1. f \in Seq(S)
  BY SeqDef
<1>2. Len(f) \in Nat /\ DOMAIN f = 1..Len(f)
  BY <1>1, LenProperties
<1> QED
  BY <1>1, <1>2

\* What is read, and what is left on the wire.
LEMMA Split ==
  ASSUME NEW w \in Seq(Units), NEW n \in 0..Len(w)
  PROVE  /\ SubSeq(w, 1, n) \in Seq(Units) /\ Len(SubSeq(w, 1, n)) = n
         /\ \A k \in 1..n : SubSeq(w, 1, n)[k] = w[k]
         /\ SubSeq(w, n + 1, Len(w)) \in Seq(Units)
         /\ Len(SubSeq(w, n + 1, Len(w))) = Len(w) - n
         /\ \A k \in 1..(Len(w) - n) : SubSeq(w, n + 1, Len(w))[k] = w[n + k]
<1>1. Len(w) \in Nat /\ \A k \in 1..Len(w) : w[k] \in Units
  BY LenProperties, ElementOfSeq
<1>2. \A k \in 1..n : w[k] \in Units
  BY <1>1
<1>3. /\ SubSeq(w, 1, n) \in Seq(Units)
      /\ Len(SubSeq(w, 1, n)) = IF 1 <= n THEN n - 1 + 1 ELSE 0
      /\ \A i \in 1..(n - 1 + 1) : SubSeq(w, 1, n)[i] = w[1 + i - 1]
  BY <1>2, SubSeqProperties
<1>4. n + 1 \in Int /\ Len(w) \in Int /\ \A k \in (n + 1)..Len(w) : w[k] \in Units
  BY <1>1
<1>5. /\ SubSeq(w, n + 1, Len(w)) \in Seq(Units)
      /\ Len(SubSeq(w, n + 1, Len(w))) = IF n + 1 <= Len(w) THEN Len(w) - (n + 1) + 1 ELSE 0
      /\ \A i \in 1..(Len(w) - (n + 1) + 1) : SubSeq(w, n + 1, Len(w))[i] = w[(n + 1) + i - 1]
  BY <1>4, SubSeqProperties
<1> QED
  BY <1>1, <1>3, <1>5

\* Two sequences as one.
LEMMA Joined ==
  ASSUME NEW s \in Seq(Units), NEW t \in Seq(Units)
  PROVE  /\ s \o t \in Seq(Units) /\ Len(s \o t) = Len(s) + Len(t)
         /\ DOMAIN (s \o t) = 1..(Len(s) + Len(t))
         /\ \A k \in 1..Len(s) : (s \o t)[k] = s[k]
         /\ \A k \in 1..Len(t) : (s \o t)[Len(s) + k] = t[k]
<1>1. /\ s \o t \in Seq(Units)
      /\ Len(s \o t) = Len(s) + Len(t)
      /\ \A i \in 1 .. Len(s) + Len(t) : (s \o t)[i] =
                     IF i <= Len(s) THEN s[i] ELSE t[i - Len(s)]
  BY ConcatProperties
<1>2. Len(s) \in Nat /\ Len(t) \in Nat /\ DOMAIN (s \o t) = 1..Len(s \o t)
  BY <1>1, LenProperties
<1>3. \A k \in 1..Len(s) : (s \o t)[k] = s[k]
  BY <1>1, <1>2
<1>4. \A k \in 1..Len(t) : (s \o t)[Len(s) + k] = t[k]
  <2> SUFFICES ASSUME NEW k \in 1..Len(t)
               PROVE  (s \o t)[Len(s) + k] = t[k]
    OBVIOUS
  <2>1. Len(s) + k \in 1..(Len(s) + Len(t)) /\ ~(Len(s) + k <= Len(s)) /\ (Len(s) + k) - Len(s) = k
    BY <1>2
  <2> QED
    BY <1>1, <2>1
<1> QED
  BY <1>1, <1>2, <1>3, <1>4

\* Pairs of units.
LEMMA Halves ==
  /\ \A m \in Nat : /\ m \div 2 \in Nat
                    /\ m = 2 * (m \div 2) \/ m = 2 * (m \div 2) + 1
                    /\ m % 2 = 1 <=> m = 2 * (m \div 2) + 1
  /\ \A i, k \in Nat : (2 * i + k) \div 2 = i + k \div 2
  /\ 0 \div 2 = 0 /\ 1 \div 2 = 0
OBVIOUS

\* Framer::feed takes complete packets in their order and keeps the rest.
LEMMA Decoding ==
  ASSUME NEW u \in Seq(Units), NEW b \in Nat, Stream(u, b)
  PROVE  LET d == Len(u) \div 2
         IN  /\ d \in Nat
             /\ Completed(u) \in Seq(Items) /\ Len(Completed(u)) = d
             /\ DOMAIN Completed(u) = 1..d
             /\ \A i \in 1..d : Completed(u)[i] = Packet(b + i - 1)
             /\ Leftover(u) \in Seq(Units) /\ Len(Leftover(u)) \in {0, 1}
             /\ Len(u) = 2 * d + Len(Leftover(u))
             /\ \A k \in 1..Len(Leftover(u)) : Leftover(u)[k] = b + d
<1> DEFINE n == Len(u)
           d == n \div 2
<1>1. n \in Nat /\ DOMAIN u = 1..n /\ (\A k \in 1..n : u[k] \in Units)
  BY LenProperties, ElementOfSeq
<1>2. \A k \in 1..n : u[k] = b + (k - 1) \div 2
  BY <1>1 DEF Stream
<1>3. d \in Nat /\ (n = 2 * d \/ n = 2 * d + 1) /\ (n % 2 = 1 <=> n = 2 * d + 1)
  BY <1>1, Halves
<1>4. Completed(u) = [i \in 1..d |-> <<u[2 * i - 1], u[2 * i]>>]
  BY DEF Completed
<1>5. Leftover(u) = IF n % 2 = 1 THEN <<u[n]>> ELSE <<>>
  BY DEF Leftover
<1> HIDE DEF n, d
<1>6. \A i \in 1..d :
        /\ u[2 * i - 1] = b + i - 1 /\ u[2 * i] = b + i - 1
        /\ u[2 * i - 1] \in Units /\ u[2 * i] \in Units
  <2> SUFFICES ASSUME NEW i \in 1..d
               PROVE  /\ u[2 * i - 1] = b + i - 1 /\ u[2 * i] = b + i - 1
                      /\ u[2 * i - 1] \in Units /\ u[2 * i] \in Units
    OBVIOUS
  <2>1. 2 * i - 1 \in 1..n /\ 2 * i \in 1..n
    BY <1>1, <1>3
  <2>2. ((2 * i - 1) - 1) \div 2 = i - 1 /\ (2 * i - 1) \div 2 = i - 1
    <3>1. i - 1 \in Nat /\ (2 * i - 1) - 1 = 2 * (i - 1) + 0 /\ 2 * i - 1 = 2 * (i - 1) + 1
      BY <1>3
    <3> QED
      BY <3>1, Halves
  <2>3. u[2 * i - 1] = b + ((2 * i - 1) - 1) \div 2 /\ u[2 * i] = b + (2 * i - 1) \div 2
    BY <1>2, <2>1
  <2> QED
    BY <1>1, <2>1, <2>2, <2>3
<1>7. \A i \in 1..d : Completed(u)[i] = Packet(b + i - 1)
  BY <1>4, <1>6 DEF Packet
<1>8. Completed(u) \in Seq(Items) /\ Len(Completed(u)) = d /\ DOMAIN Completed(u) = 1..d
  <2>1. \A x, y \in Units : <<x, y>> \in Items
    BY DEF Items
  <2>2. Completed(u) \in [1..d -> Items]
    BY <1>4, <1>6, <2>1
  <2> QED
    BY <1>3, <2>2, FunctionIsSeq
<1>9. /\ Leftover(u) \in Seq(Units) /\ Len(Leftover(u)) \in {0, 1}
      /\ n = 2 * d + Len(Leftover(u))
      /\ \A k \in 1..Len(Leftover(u)) : Leftover(u)[k] = b + d
  <2>1. CASE n = 2 * d
    <3>1. Leftover(u) = <<>>
      BY <1>3, <1>5, <2>1
    <3>2. Leftover(u) \in Seq(Units) /\ Len(Leftover(u)) = 0
      BY <3>1, EmptySeq
    <3> QED
      BY <1>3, <2>1, <3>2
  <2>2. CASE n = 2 * d + 1
    <3>1. n \in 1..n /\ (n - 1) \div 2 = d
      <4>1. n - 1 = 2 * d + 0
        BY <1>3, <2>2
      <4>2. (2 * d + 0) \div 2 = d + 0
        BY <1>3, Halves
      <4> QED
        BY <1>1, <1>3, <2>2, <4>1, <4>2
    <3>2. u[n] = b + d /\ u[n] \in Units
      BY <1>1, <1>2, <3>1
    <3>3. Leftover(u) = <<u[n]>>
      BY <1>3, <1>5, <2>2
    <3>4. Leftover(u) \in Seq(Units) /\ Len(Leftover(u)) = 1 /\ Leftover(u)[1] = b + d
      BY <3>2, <3>3
    <3>5. \A k \in 1..1 : k = 1
      OBVIOUS
    <3> QED
      BY <2>2, <3>4, <3>5
  <2> QED
    BY <1>3, <2>1, <2>2
<1> QED
  BY <1>3, <1>7, <1>8, <1>9 DEF n, d

\* A read of n units of the wire w after the units f: what it takes, what it
\* leaves, and the d packets it completes, which begin with packet b.
Taken(f, w, n) == f \o SubSeq(w, 1, n)
Rest(w, n) == SubSeq(w, n + 1, Len(w))

ReadsOn(f, w, b, n, d) ==
  /\ Completed(Taken(f, w, n)) \in Seq(Items)
  /\ Len(Completed(Taken(f, w, n))) = d /\ DOMAIN Completed(Taken(f, w, n)) = 1..d
  /\ \A i \in 1..d : Completed(Taken(f, w, n))[i] = Packet(b + i - 1)
  /\ Leftover(Taken(f, w, n)) \in Seq(Units) /\ Len(Leftover(Taken(f, w, n))) < 2
  /\ Rest(w, n) \in Seq(Units)
  /\ Stream(Leftover(Taken(f, w, n)) \o Rest(w, n), b + d)
  /\ 2 * d + Len(Leftover(Taken(f, w, n))) + Len(Rest(w, n)) = Len(f) + Len(w)
  /\ Len(f) + n = 2 * d + Len(Leftover(Taken(f, w, n)))
  /\ Taken(f, w, n) \in Seq(Units) /\ Stream(Taken(f, w, n), b)

\* Whatever part of the wire a read returns, what is left goes on with the
\* packet after the complete ones.
LEMMA Reading ==
  ASSUME NEW f \in Seq(Units), NEW w \in Seq(Units), NEW b \in Nat, Stream(f \o w, b),
         NEW n \in 0..Len(w)
  PROVE  \E d \in Nat : ReadsOn(f, w, b, n, d)
<1> DEFINE u == f \o SubSeq(w, 1, n)
           rest == SubSeq(w, n + 1, Len(w))
           d == Len(u) \div 2
           l == Leftover(u)
           L == Len(l)
           F == Len(f)
           W == Len(w)
           s == f \o w
<1>1. F \in Nat /\ W \in Nat /\ n \in Nat /\ n <= W
  <2>1. F \in Nat /\ W \in Nat
    BY LenProperties
  <2> QED
    BY <2>1
<1>2. /\ SubSeq(w, 1, n) \in Seq(Units) /\ Len(SubSeq(w, 1, n)) = n
      /\ \A k \in 1..n : SubSeq(w, 1, n)[k] = w[k]
      /\ rest \in Seq(Units) /\ Len(rest) = W - n
      /\ \A k \in 1..(W - n) : rest[k] = w[n + k]
  BY Split
<1>3. /\ u \in Seq(Units) /\ Len(u) = F + n /\ DOMAIN u = 1..(F + n)
      /\ \A k \in 1..F : u[k] = f[k]
      /\ \A k \in 1..n : u[F + k] = w[k]
  BY <1>2, Joined
<1>4. /\ DOMAIN s = 1..(F + W)
      /\ \A k \in 1..F : s[k] = f[k]
      /\ \A k \in 1..W : s[F + k] = w[k]
  BY Joined
<1>5. \A k \in 1..(F + W) : s[k] = b + (k - 1) \div 2
  BY <1>4 DEF Stream
<1> HIDE DEF rest, d, F, W, u, l, L, s
<1>6. Stream(u, b)
  <2> SUFFICES ASSUME NEW k \in 1..(F + n)
               PROVE  u[k] = b + (k - 1) \div 2
    BY <1>3 DEF Stream
  <2>1. k \in 1..(F + W) /\ (k \in 1..F \/ (k - F \in 1..n /\ k - F \in 1..W /\ F + (k - F) = k))
    BY <1>1
  <2>2. u[k] = s[k]
    BY <1>3, <1>4, <2>1
  <2> QED
    BY <1>5, <2>1, <2>2
<1>7. /\ d \in Nat /\ l \in Seq(Units) /\ L \in {0, 1}
      /\ F + n = 2 * d + L /\ \A k \in 1..L : l[k] = b + d
      /\ Completed(u) \in Seq(Items) /\ Len(Completed(u)) = d
      /\ DOMAIN Completed(u) = 1..d
      /\ \A i \in 1..d : Completed(u)[i] = Packet(b + i - 1)
  BY <1>3, <1>6, Decoding DEF d, l, L
<1>8. Stream(l \o rest, b + d)
  <2>1. /\ DOMAIN (l \o rest) = 1..(L + (W - n))
        /\ \A k \in 1..L : (l \o rest)[k] = l[k]
        /\ \A k \in 1..(W - n) : (l \o rest)[L + k] = rest[k]
    <3>1. Len(l) = L
      BY DEF L
    <3>2. /\ DOMAIN (l \o rest) = 1..(Len(l) + Len(rest))
          /\ \A k \in 1..Len(l) : (l \o rest)[k] = l[k]
          /\ \A k \in 1..Len(rest) : (l \o rest)[Len(l) + k] = rest[k]
      BY <1>2, <1>7, Joined
    <3> QED
      BY <1>2, <3>1, <3>2
  <2>2. ASSUME NEW k \in 1..(L + (W - n))
        PROVE  (l \o rest)[k] = (b + d) + (k - 1) \div 2
    <3>1. CASE k \in 1..L
      <4>1. k = 1 /\ k - 1 = 0
        BY <1>7, <3>1
      <4>2. (k - 1) \div 2 = 0
        BY <4>1, Halves
      <4>3. (l \o rest)[k] = b + d
        BY <1>7, <2>1, <3>1
      <4> QED
        BY <1>7, <4>2, <4>3
    <3>2. CASE k \notin 1..L
      <4> DEFINE m == n + (k - L)
      <4>1. k - L \in 1..(W - n) /\ L + (k - L) = k /\ k - 1 \in Nat
        BY <1>1, <1>7, <3>2
      <4>2. (l \o rest)[k] = w[m]
        BY <1>2, <2>1, <4>1
      <4>3. m \in 1..W /\ F + m \in 1..(F + W) /\ (F + m) - 1 = 2 * d + (k - 1)
        BY <1>1, <1>7, <4>1
      <4> HIDE DEF m
      <4>4. w[m] = b + ((F + m) - 1) \div 2
        BY <1>4, <1>5, <4>3
      <4>5. (2 * d + (k - 1)) \div 2 = d + (k - 1) \div 2
        BY <1>7, <4>1, Halves
      <4>6. (k - 1) \div 2 \in Nat
        BY <4>1, Halves
      <4>7. \A x \in Nat : b + (d + x) = (b + d) + x
        BY <1>7
      <4>8. w[m] = b + (d + (k - 1) \div 2)
        BY <4>3, <4>4, <4>5
      <4> QED
        BY <4>2, <4>6, <4>7, <4>8
    <3> QED
      BY <3>1, <3>2
  <2> QED
    BY <2>1, <2>2 DEF Stream
<1>9. 2 * d + L + Len(rest) = F + W
  BY <1>1, <1>2, <1>7
<1>10. L < 2
  BY <1>7
<1>11. Taken(f, w, n) = u /\ Rest(w, n) = rest /\ Leftover(u) = l
  BY DEF Taken, Rest, u, rest, l
<1>12. ReadsOn(f, w, b, n, d)
  BY <1>2, <1>3, <1>6, <1>7, <1>8, <1>9, <1>10, <1>11 DEF ReadsOn, F, W, L
<1> QED
  BY <1>7, <1>12

\* The places of the framer, of the wire, and of two units more.
LEMMA Thirds ==
  ASSUME NEW F \in Nat, NEW W \in Nat, NEW k \in 1..(F + W + 2)
  PROVE  \/ k \in 1..F
         \/ k \in (F + 1)..(F + W)
         \/ k - F - W \in 1..2 /\ F + (W + (k - F - W)) = k
OBVIOUS

\* A whole packet appended to what is still to be read goes on in step.
LEMMA Writing ==
  ASSUME NEW f \in Seq(Units), NEW w \in Seq(Units), NEW b \in Nat, NEW s \in Nat,
         s \in Units, Stream(f \o w, b), 2 * b + Len(f) + Len(w) = 2 * s
  PROVE  /\ w \o <<s, s>> \in Seq(Units)
         /\ Stream(f \o (w \o <<s, s>>), b)
         /\ 2 * b + Len(f) + Len(w \o <<s, s>>) = 2 * (s + 1)
<1> DEFINE F == Len(f)
           W == Len(w)
           t == <<s, s>>
           v == w \o t
<1>1. F \in Nat /\ W \in Nat
  BY LenProperties
<1>2. t \in Seq(Units) /\ Len(t) = 2 /\ t[1] = s /\ t[2] = s
  OBVIOUS
<1> HIDE DEF t
<1>3. /\ v \in Seq(Units) /\ Len(v) = W + 2
      /\ \A k \in 1..W : v[k] = w[k]
      /\ \A k \in 1..2 : v[W + k] = t[k]
  <2>1. /\ v \in Seq(Units) /\ Len(v) = Len(w) + Len(t)
        /\ \A k \in 1..Len(w) : v[k] = w[k]
        /\ \A k \in 1..Len(t) : v[Len(w) + k] = t[k]
    BY <1>2, Joined
  <2> QED
    BY <1>2, <2>1
<1> HIDE DEF v
<1>4. /\ DOMAIN (f \o v) = 1..(F + Len(v))
      /\ \A k \in 1..F : (f \o v)[k] = f[k]
      /\ \A k \in 1..Len(v) : (f \o v)[F + k] = v[k]
  BY <1>3, Joined
<1>5. /\ DOMAIN (f \o w) = 1..(F + W)
      /\ \A k \in 1..F : (f \o w)[k] = f[k]
      /\ \A k \in 1..W : (f \o w)[F + k] = w[k]
  BY Joined
<1>6. \A k \in 1..(F + W) : (f \o w)[k] = b + (k - 1) \div 2
  BY <1>5 DEF Stream
<1>7. 2 * b + F + W = 2 * s
  OBVIOUS
<1> HIDE DEF F, W
<1>8. ASSUME NEW k \in 1..(F + W + 2)
      PROVE  (f \o v)[k] = b + (k - 1) \div 2
  <2>1. CASE k \in 1..F
    <3>1. k \in 1..(F + W)
      BY <1>1, <2>1
    <3> QED
      BY <1>4, <1>5, <1>6, <2>1, <3>1
  <2>2. CASE k \in (F + 1)..(F + W)
    <3>1. k - F \in 1..W /\ F + (k - F) = k /\ k \in 1..(F + W) /\ k - F \in 1..Len(v)
      BY <1>1, <1>3, <2>2
    <3>2. (f \o v)[k] = v[k - F] /\ v[k - F] = w[k - F] /\ (f \o w)[k] = w[k - F]
      BY <1>3, <1>4, <1>5, <3>1
    <3> QED
      BY <1>6, <3>1, <3>2
  <2>3. CASE k - F - W \in 1..2 /\ F + (W + (k - F - W)) = k
    <3> DEFINE j == k - F - W
    <3>1. j \in 1..2 /\ W + j \in 1..Len(v) /\ F + (W + j) = k
      BY <1>1, <1>3, <2>3
    <3>2. (f \o v)[k] = s
      <4>1. (f \o v)[F + (W + j)] = v[W + j] /\ v[W + j] = t[j]
        BY <1>3, <1>4, <3>1
      <4>2. j = 1 \/ j = 2
        BY <3>1
      <4> QED
        BY <1>2, <3>1, <4>1, <4>2
    <3>3. s - b \in Nat /\ k - 1 = 2 * (s - b) + (j - 1) /\ j - 1 \in {0, 1} /\ j - 1 \in Nat
      BY <1>1, <1>7, <3>1
    <3>4. (2 * (s - b) + (j - 1)) \div 2 = (s - b) + (j - 1) \div 2
      BY <3>3, Halves
    <3>5. (j - 1) \div 2 = 0
      BY <3>3, Halves
    <3>6. (k - 1) \div 2 = s - b
      <4>1. (k - 1) \div 2 = (s - b) + 0
        BY <3>3, <3>4, <3>5
      <4> QED
        BY <3>3, <4>1
    <3> QED
      BY <3>2, <3>6
  <2>4. \/ k \in 1..F
        \/ k \in (F + 1)..(F + W)
        \/ k - F - W \in 1..2 /\ F + (W + (k - F - W)) = k
    BY <1>1, Thirds
  <2> QED
    BY <2>1, <2>2, <2>3, <2>4, Zenon
<1>9. DOMAIN (f \o v) = 1..(F + W + 2)
  BY <1>1, <1>3, <1>4
<1>10. Stream(f \o v, b)
  BY <1>8, <1>9 DEF Stream
<1>11. 2 * b + F + Len(v) = 2 * (s + 1)
  BY <1>1, <1>3, <1>7
<1> QED
  BY <1>3, <1>10, <1>11 DEF v, t, F

\* What a reset leaves of the wire is still in step.
LEMMA Cutting ==
  ASSUME NEW f \in Seq(Units), NEW w \in Seq(Units), NEW b \in Nat, Stream(f \o w, b),
         NEW n \in 0..Len(w)
  PROVE  Stream(f \o SubSeq(w, 1, n), b)
BY Reading DEF ReadsOn, Taken

\* Vec::swap_remove.
LEMMA Swapping ==
  ASSUME NEW S, NEW q \in Seq(S), NEW i \in 1..Len(q)
  PROVE  /\ SwapRemove(q, i) \in Seq(S) /\ Len(SwapRemove(q, i)) = Len(q) - 1
         /\ DOMAIN SwapRemove(q, i) = 1..(Len(q) - 1)
         /\ \A k \in 1..(Len(q) - 1) :
              SwapRemove(q, i)[k] = IF k = i THEN q[Len(q)] ELSE q[k]
<1>1. Len(q) \in Nat /\ Len(q) - 1 \in Nat /\ \A k \in 1..Len(q) : q[k] \in S
  <2>1. Len(q) \in Nat
    BY LenProperties
  <2>2. Len(q) - 1 \in Nat
    BY <2>1
  <2> QED
    BY <2>1, <2>2, ElementOfSeq
<1>2. SwapRemove(q, i) = [k \in 1..(Len(q) - 1) |-> IF k = i THEN q[Len(q)] ELSE q[k]]
  BY DEF SwapRemove
<1>3. Len(q) \in 1..Len(q) /\ \A k \in 1..(Len(q) - 1) : k \in 1..Len(q)
  BY <1>1
<1>4. SwapRemove(q, i) \in [1..(Len(q) - 1) -> S]
  BY <1>1, <1>2, <1>3
<1> QED
  BY <1>1, <1>2, <1>4, FunctionIsSeq

\* The end of a queue.
LEMMA Appending ==
  ASSUME NEW S, NEW q \in Seq(S), NEW x \in S
  PROVE  /\ Append(q, x) \in Seq(S) /\ Len(q) \in Nat /\ DOMAIN q = 1..Len(q)
         /\ Len(Append(q, x)) = Len(q) + 1 /\ DOMAIN Append(q, x) = 1..(Len(q) + 1)
         /\ \A k \in 1..Len(q) : Append(q, x)[k] = q[k]
         /\ Append(q, x)[Len(q) + 1] = x
         /\ \A k \in 1..(Len(q) + 1) : k \in 1..Len(q) \/ k = Len(q) + 1
<1>1. Len(q) \in Nat /\ DOMAIN q = 1..Len(q)
  BY LenProperties
<1>2. /\ Append(q, x) \in Seq(S)
      /\ Len(Append(q, x)) = Len(q) + 1
      /\ \A i \in 1..Len(q) : Append(q, x)[i] = q[i]
      /\ Append(q, x)[Len(q) + 1] = x
  BY AppendProperties
<1>3. DOMAIN Append(q, x) = 1..Len(Append(q, x))
  BY <1>2, LenProperties
<1> QED
  BY <1>1, <1>2, <1>3

\* The front of a queue.
LEMMA Popping ==
  ASSUME NEW S, NEW q \in Seq(S), q # <<>>
  PROVE  /\ Head(q) = q[1] /\ Head(q) \in S /\ Tail(q) \in Seq(S)
         /\ Len(q) \in Nat /\ DOMAIN q = 1..Len(q) /\ 1 \in 1..Len(q)
         /\ Len(Tail(q)) = Len(q) - 1 /\ DOMAIN Tail(q) = 1..(Len(q) - 1)
         /\ \A k \in 1..(Len(q) - 1) : k + 1 \in 1..Len(q) /\ Tail(q)[k] = q[k + 1]
<1>1. Len(q) \in Nat /\ DOMAIN q = 1..Len(q) /\ Len(q) # 0
  BY LenProperties, EmptySeq
<1>2. /\ Head(q) \in S /\ Tail(q) \in Seq(S)
  BY HeadTailProperties
<1>3. Head(q) = q[1] /\ Len(Tail(q)) = Len(q) - 1
  BY <1>1
<1>4. \A i \in 1..(Len(q) - 1) : Tail(q)[i] = q[i + 1]
  BY <1>1
<1>5. DOMAIN Tail(q) = 1..Len(Tail(q))
  BY <1>2, LenProperties
<1> QED
  BY <1>1, <1>2, <1>3, <1>4, <1>5

-----------------------------------------------------------------------------
(* The peers.                                                              *)

\* What is in step stays so while nothing of the JVM's stream changes.
LEMMA InStepKept ==
  ASSUME wire'[Jvm] = wire[Jvm], UNCHANGED <<aborted, sent>>
  PROVE  \A f, b : InStep(f, b)' <=> InStep(f, b)
<1>1. \A f : (f \o wire[Jvm])' = f \o wire[Jvm] /\ Len(wire[Jvm])' = Len(wire[Jvm])
  OBVIOUS
<1> QED
  BY <1>1 DEF InStep, Stream

\* A peer connects: the operating system holds it, and nothing was read of it.
LEMMA DialStep ==
  ASSUME ChannelInv, NEW p \in Peers, Dial(p)
  PROVE  ChannelInv'
<1> USE DEF ChannelInv
<1>1. /\ p \notin dialled /\ dialled' = dialled \cup {p}
      /\ backlog' = Append(backlog, p)
      /\ UNCHANGED <<closed, aborted, wire, sent, pending, sweep, polled>>
      /\ UNCHANGED <<conn, framer, outbox, reader, queue, handled, due, examined>>
  BY DEF Dial, connection, history
<1>2. backlog \in Seq(Peers) /\ dialled \subseteq Peers
  BY DEF Types
<1> DEFINE n == Len(backlog)
<1>3. /\ backlog' \in Seq(Peers) /\ n \in Nat /\ DOMAIN backlog = 1..n
      /\ DOMAIN backlog' = 1..(n + 1)
      /\ \A k \in 1..n : backlog'[k] = backlog[k]
      /\ backlog'[n + 1] = p
      /\ \A k \in 1..(n + 1) : k \in 1..n \/ k = n + 1
      /\ 1..n \subseteq 1..(n + 1)
  BY <1>1, <1>2, Appending
<1> HIDE DEF n
<1>4. Types'
  BY <1>1, <1>3 DEF Types
<1>5. Places'
  BY <1>1, <1>3 DEF Places
<1>6. ServedOnce'
  BY <1>1, <1>3 DEF ServedOnce
<1>7. NoKey' /\ Ordered' /\ Swept' /\ (polled \in BOOLEAN)'
  BY <1>1 DEF NoKey, Ordered, Swept, Final
<1>8. StreamInv'
  <2>1. Waits' => Waits
    BY <1>1, <1>3 DEF Waits
  <2> QED
    BY <1>1, <2>1 DEF StreamInv, InStep, Stream, Decoded
<1> QED
  BY <1>4, <1>5, <1>6, <1>7, <1>8

\* The peer closes its end: what it wrote stays to be read.
LEMMA CloseStep ==
  ASSUME ChannelInv, NEW p \in Peers, Close(p)
  PROVE  ChannelInv'
<1> USE DEF ChannelInv
<1>1. /\ p \in dialled \ closed /\ closed' = closed \cup {p}
      /\ UNCHANGED <<dialled, aborted, wire, sent, backlog, pending, sweep, polled>>
      /\ UNCHANGED <<conn, framer, outbox, reader, queue, handled, due, examined>>
  BY DEF Close, listener, connection, history
<1>2. Types'
  BY <1>1 DEF Types
<1>3. Places' /\ ServedOnce' /\ NoKey' /\ Swept' /\ (polled \in BOOLEAN)'
  BY <1>1 DEF Places, ServedOnce, NoKey, Swept
<1>4. StreamInv'
  BY <1>1 DEF StreamInv, InStep, Stream, Decoded, Waits
<1>5. Ordered'
  BY <1>1 DEF Ordered, Final
<1> QED
  BY <1>2, <1>3, <1>4, <1>5

\* A stranger writes what is not the key.
LEMMA StrangerStep ==
  ASSUME ChannelInv, NEW p \in Strangers, StrangerWrites(p)
  PROVE  ChannelInv'
<1> USE DEF ChannelInv
<1>1. /\ wire' = [wire EXCEPT ![p] = Append(wire[p], Bad)]
      /\ UNCHANGED <<dialled, closed, aborted, sent, backlog, pending, sweep, polled>>
      /\ UNCHANGED <<conn, framer, outbox, reader, queue, handled, due, examined>>
  BY DEF StrangerWrites, listener, connection, history
<1>2. p \in Peers /\ p # Jvm /\ Jvm \in Peers /\ Strangers \subseteq Peers
  BY ChannelAssumption DEF Peers
<1>3. Bad \in Units
  BY ChannelAssumption DEF Units, Bad
<1>4. wire \in [Peers -> Seq(Units)] /\ wire[p] \in Seq(Units)
  BY <1>2 DEF Types
<1> DEFINE n == Len(wire[p])
<1>5. /\ Append(wire[p], Bad) \in Seq(Units)
      /\ DOMAIN wire[p] = 1..n
      /\ DOMAIN Append(wire[p], Bad) = 1..(n + 1)
      /\ \A k \in 1..n : Append(wire[p], Bad)[k] = wire[p][k]
      /\ Append(wire[p], Bad)[n + 1] = Bad
      /\ \A k \in 1..(n + 1) : k \in 1..n \/ k = n + 1
  BY <1>3, <1>4, Appending
<1> HIDE DEF n
<1>6. /\ wire' \in [Peers -> Seq(Units)]
      /\ \A q \in Peers : q # p => wire'[q] = wire[q]
      /\ wire'[p] = Append(wire[p], Bad)
  BY <1>1, <1>2, <1>4, <1>5
<1>7. Types'
  BY <1>1, <1>6 DEF Types
<1>8. Places' /\ ServedOnce' /\ Swept' /\ Ordered' /\ (polled \in BOOLEAN)'
  BY <1>1 DEF Places, ServedOnce, Ordered, Final, Swept
<1>9. StreamInv'
  <2>1. wire'[Jvm] = wire[Jvm]
    BY <1>2, <1>6
  <2> QED
    BY <1>1, <2>1, InStepKept DEF StreamInv, Decoded, Waits
<1>10. NoKey'
  <2>1. \A k \in DOMAIN wire'[p] : wire'[p][k] = Bad
    BY <1>5, <1>6 DEF NoKey
  <2>2. \A q \in Strangers : \A k \in DOMAIN wire'[q] : wire'[q][k] = Bad
    BY <1>2, <1>6, <2>1 DEF NoKey
  <2> QED
    BY <1>1, <2>2 DEF NoKey
<1> QED
  BY <1>7, <1>8, <1>9, <1>10

\* A step of the peers that keeps what is in step, whoever holds it, keeps the
\* invariant of the stream.
LEMMA InStepCarried ==
  ASSUME Types, StreamInv,
         UNCHANGED <<dialled, backlog, pending, conn, framer, outbox, reader, queue, handled>>,
         \A f \in Seq(Units), b \in Nat : InStep(f, b) => InStep(f, b)'
  PROVE  StreamInv'
<1>1. <<>> \in Seq(Units) /\ framer \in Seq(Units) /\ 0 \in Nat
  BY EmptySeq DEF Types
<1>2. Decoded \in Nat
  <2>1. Len(handled) \in Nat /\ Len(queue) \in Nat /\ Len(outbox) \in Nat
    BY LenProperties DEF Types
  <2> QED
    BY <2>1 DEF Decoded
<1>3. \A j \in DOMAIN pending : pending[j].framer \in Seq(Units)
  <2>1. DOMAIN pending = 1..Len(pending) /\ \A j \in 1..Len(pending) : pending[j] \in Handshakes
    BY LenProperties, ElementOfSeq DEF Types
  <2> QED
    BY <2>1 DEF Handshakes
<1>4. Waits' <=> Waits
  BY DEF Waits
<1>5. Decoded' = Decoded
  BY DEF Decoded
<1>6. Waits' => InStep(<<>>, 0)'
  BY <1>1, <1>4 DEF StreamInv
<1>7. (\A j \in DOMAIN pending : pending[j].peer = Jvm => InStep(pending[j].framer, 0))'
  BY <1>1, <1>3 DEF StreamInv
<1>8. (conn = Jvm /\ reader = "reading" => InStep(framer, Decoded))'
  BY <1>1, <1>2, <1>5 DEF StreamInv
<1> QED
  BY <1>6, <1>7, <1>8 DEF StreamInv

\* The JVM writes a packet: it goes on where what is missing ends.
LEMMA JvmWritesStep ==
  ASSUME ChannelInv, JvmWrites
  PROVE  ChannelInv'
<1> USE DEF ChannelInv
<1>1. /\ Jvm \in dialled \ closed /\ sent <= MaxPackets
      /\ wire' = [wire EXCEPT ![Jvm] = wire[Jvm] \o <<sent, sent>>]
      /\ sent' = sent + 1
      /\ UNCHANGED <<dialled, closed, aborted, backlog, pending, sweep, polled>>
      /\ UNCHANGED <<conn, framer, outbox, reader, queue, handled, due, examined>>
  BY DEF JvmWrites, listener, connection, history
<1>2. Jvm \in Peers /\ Jvm \notin Strangers /\ Strangers \subseteq Peers /\ MaxPackets \in Nat
  BY ChannelAssumption DEF Peers
<1>3. wire \in [Peers -> Seq(Units)] /\ wire[Jvm] \in Seq(Units) /\ Jvm \notin aborted
  BY <1>1, <1>2 DEF Types
<1>4. sent \in Nat /\ sent \in Units /\ sent' \in 0..(MaxPackets + 1)
  BY <1>1, <1>2 DEF Types, Units, Bad
<1>5. wire[Jvm] \o <<sent, sent>> \in Seq(Units)
  BY <1>3, <1>4, ConcatProperties
<1>6. /\ wire' \in [Peers -> Seq(Units)]
      /\ \A q \in Strangers : wire'[q] = wire[q]
      /\ wire'[Jvm] = wire[Jvm] \o <<sent, sent>>
  BY <1>1, <1>2, <1>3, <1>5
<1>7. Types'
  BY <1>1, <1>4, <1>6 DEF Types
<1>8. Places' /\ ServedOnce' /\ Swept' /\ (polled \in BOOLEAN)'
  BY <1>1 DEF Places, ServedOnce, Swept
<1>9. NoKey'
  BY <1>1, <1>6, ZenonT(30) DEF NoKey
<1>10. Ordered'
  <2>1. \A i : ~Final(i)
    BY <1>1 DEF Final
  <2> QED
    BY <1>1, <2>1 DEF Ordered
<1>11. StreamInv'
  <2>1. ASSUME NEW f \in Seq(Units), NEW b \in Nat, InStep(f, b)
        PROVE  InStep(f, b)'
    <3>1. Stream(f \o wire[Jvm], b) /\ 2 * b + Len(f) + Len(wire[Jvm]) = 2 * sent
      BY <1>3, <2>1 DEF InStep
    <3>2. /\ Stream(f \o (wire[Jvm] \o <<sent, sent>>), b)
          /\ 2 * b + Len(f) + Len(wire[Jvm] \o <<sent, sent>>) = 2 * (sent + 1)
      BY <1>3, <1>4, <3>1, Writing
    <3> QED
      BY <1>1, <1>6, <3>2 DEF InStep, Stream
  <2> QED
    BY <1>1, <2>1, InStepCarried
<1> QED
  BY <1>7, <1>8, <1>9, <1>10, <1>11

\* The connection is reset: part of the wire may be lost, none of it reordered.
LEMMA AbortStep ==
  ASSUME ChannelInv, NEW p \in Peers, Abort(p)
  PROVE  ChannelInv'
<1> USE DEF ChannelInv
<1>1. /\ p \in dialled \ closed /\ closed' = closed \cup {p} /\ aborted' = aborted \cup {p}
      /\ UNCHANGED <<dialled, sent, backlog, pending, sweep, polled>>
      /\ UNCHANGED <<conn, framer, outbox, reader, queue, handled, due, examined>>
  BY DEF Abort, listener, connection, history
<1>2. PICK n \in 0..Len(wire[p]) : wire' = [wire EXCEPT ![p] = SubSeq(wire[p], 1, n)]
  BY DEF Abort
<1>3. Jvm \in Peers /\ Jvm \notin Strangers /\ Strangers \subseteq Peers
  BY ChannelAssumption DEF Peers
<1>4. wire \in [Peers -> Seq(Units)] /\ wire[p] \in Seq(Units) /\ wire[Jvm] \in Seq(Units)
  BY <1>3 DEF Types
<1>5. /\ SubSeq(wire[p], 1, n) \in Seq(Units) /\ Len(SubSeq(wire[p], 1, n)) = n
      /\ \A k \in 1..n : SubSeq(wire[p], 1, n)[k] = wire[p][k]
  BY <1>4, Split
<1>6. /\ wire' \in [Peers -> Seq(Units)]
      /\ \A q \in Peers : q # p => wire'[q] = wire[q]
      /\ wire'[p] = SubSeq(wire[p], 1, n)
  BY <1>2, <1>4, <1>5
<1>7. Types'
  BY <1>1, <1>6 DEF Types
<1>8. Places' /\ ServedOnce' /\ Swept' /\ (polled \in BOOLEAN)'
  BY <1>1 DEF Places, ServedOnce, Swept
<1>9. NoKey'
  <2>1. DOMAIN wire'[p] = 1..n /\ 1..n \subseteq DOMAIN wire[p]
    <3>1. DOMAIN wire'[p] = 1..Len(wire'[p]) /\ DOMAIN wire[p] = 1..Len(wire[p]) /\ Len(wire[p]) \in Nat
      BY <1>4, <1>5, <1>6, LenProperties
    <3> QED
      BY <1>5, <1>6, <3>1
  <2>2. p \in Strangers => \A k \in DOMAIN wire'[p] : wire'[p][k] = Bad
    BY <1>5, <1>6, <2>1 DEF NoKey
  <2>3. \A q \in Strangers : \A k \in DOMAIN wire'[q] : wire'[q][k] = Bad
    BY <1>3, <1>6, <2>2 DEF NoKey
  <2> QED
    BY <1>1, <2>3 DEF NoKey
<1>10. Ordered'
  <2>1. \A i : Final(i) => Final(i)'
    BY <1>1 DEF Final
  <2> QED
    BY <1>1, <2>1 DEF Ordered
<1>11. StreamInv'
  <2>1. ASSUME NEW f \in Seq(Units), NEW b \in Nat, InStep(f, b)
        PROVE  InStep(f, b)'
    <3>1. CASE p = Jvm
      <4>1. Stream(f \o SubSeq(wire[Jvm], 1, n), b)
        BY <1>4, <2>1, <3>1, Cutting DEF InStep
      <4>2. Jvm \in aborted' /\ wire'[Jvm] = SubSeq(wire[Jvm], 1, n)
        BY <1>1, <1>6, <3>1
      <4> QED
        BY <4>1, <4>2 DEF InStep, Stream
    <3>2. CASE p # Jvm
      <4>1. wire'[Jvm] = wire[Jvm] /\ (Jvm \in aborted' <=> Jvm \in aborted) /\ sent' = sent
        BY <1>1, <1>3, <1>6, <3>2
      <4> QED
        BY <2>1, <4>1 DEF InStep, Stream
    <3> QED
      BY <3>1, <3>2
  <2> QED
    BY <1>1, <2>1, InStepCarried
<1> QED
  BY <1>7, <1>8, <1>9, <1>10, <1>11

-----------------------------------------------------------------------------
(* The reader and the event loop.                                          *)

\* The sequences of the connection and of the listener.
LEMMA Counts ==
  ASSUME Types
  PROVE  /\ Len(handled) \in Nat /\ DOMAIN handled = 1..Len(handled)
         /\ Len(queue) \in Nat /\ DOMAIN queue = 1..Len(queue)
         /\ Len(outbox) \in Nat /\ DOMAIN outbox = 1..Len(outbox)
         /\ Len(backlog) \in Nat /\ DOMAIN backlog = 1..Len(backlog)
         /\ Len(pending) \in Nat /\ DOMAIN pending = 1..Len(pending)
         /\ \A k \in 1..Len(pending) : pending[k] \in Handshakes
         /\ Len(framer) \in {0, 1}
         /\ (queue = <<>> <=> Len(queue) = 0) /\ (outbox = <<>> <=> Len(outbox) = 0)
         /\ (handled = <<>> <=> Len(handled) = 0)
<1>1. /\ handled \in Seq(Items) /\ queue \in Seq(Items) /\ outbox \in Seq(Items)
      /\ backlog \in Seq(Peers) /\ pending \in Seq(Handshakes)
      /\ framer \in Seq(Units) /\ Len(framer) < 2
  BY DEF Types
<1>2. Len(framer) \in Nat
  BY <1>1, LenProperties
<1>3. Len(framer) \in {0, 1}
  <2>1. \A m \in Nat : m < 2 => m \in {0, 1}
    OBVIOUS
  <2> QED
    BY <1>1, <1>2, <2>1
<1> QED
  BY <1>1, <1>3, LenProperties, EmptySeq, ElementOfSeq

\* A packet is not the end of the stream.
LEMMA PacketIsNoEnd == \A n : Packet(n) # Disconnected
<1>1. \A n : Len(<<n, n>>) = 2 /\ Len(<<>>) = 0
  OBVIOUS
<1> QED
  BY <1>1 DEF Packet, Disconnected

\* While there is a connection it is the JVM's, and nothing else holds the JVM.
LEMMA Connected ==
  ASSUME Types, ServedOnce, Ordered, conn # NoPeer \/ reader # "none" \/ outbox # <<>>
  PROVE  /\ conn = Jvm /\ Jvm # NoPeer /\ Jvm \in Peers /\ conn # NoPeer
         /\ reader \in {"reading", "done"}
         /\ ~Waits /\ \A j \in DOMAIN pending : pending[j].peer # Jvm
         /\ \A i \in DOMAIN handled : handled[i] = Packet(i)
<1>1. Jvm # NoPeer /\ Jvm \in Peers
  BY ChannelAssumption DEF Peers
<1>2. conn # NoPeer
  BY DEF Ordered
<1>3. conn = Jvm
  BY <1>2 DEF Types
<1>4. ~Waits /\ \A j \in DOMAIN pending : pending[j].peer # Jvm
  BY <1>3 DEF ServedOnce, Waits
<1>5. \A i \in DOMAIN handled : handled[i] = Packet(i)
  BY <1>2 DEF Ordered
<1>6. reader \in {"reading", "done"}
  BY <1>2 DEF Ordered, Types
<1> QED
  BY <1>1, <1>2, <1>3, <1>4, <1>5, <1>6

\* The reader takes any part of the wire: complete packets go on, what is left
\* stays for the next read.
LEMMA ReaderReadsStep ==
  ASSUME ChannelInv, ReaderReads
  PROVE  ChannelInv'
<1> USE DEF ChannelInv
<1>1. /\ reader = "reading" /\ outbox = <<>>
      /\ UNCHANGED <<dialled, closed, aborted, sent, backlog, pending, sweep, polled>>
      /\ UNCHANGED <<conn, reader, queue, handled, due, examined>>
  BY DEF ReaderReads, listener, history
<1>2. /\ conn = Jvm /\ conn # NoPeer /\ Jvm \in Peers
      /\ ~Waits /\ \A j \in DOMAIN pending : pending[j].peer # Jvm
      /\ \A i \in DOMAIN handled : handled[i] = Packet(i)
  BY <1>1, Connected
<1> DEFINE w == wire[Jvm]
           u(n) == Taken(framer, w, n)
           rest(n) == Rest(w, n)
<1>3. PICK n \in 1..Len(w) :
        /\ outbox' = Completed(u(n)) /\ framer' = Leftover(u(n))
        /\ wire' = [wire EXCEPT ![Jvm] = rest(n)]
  BY <1>2 DEF ReaderReads, Reads, Chunk, Unread, Taken, Rest
<1>4. /\ wire \in [Peers -> Seq(Units)] /\ w \in Seq(Units) /\ Len(w) \in Nat
      /\ framer \in Seq(Units) /\ n \in 0..Len(w)
  <2>1. wire \in [Peers -> Seq(Units)] /\ w \in Seq(Units) /\ framer \in Seq(Units)
    BY <1>2 DEF Types
  <2>2. Len(w) \in Nat
    BY <2>1, LenProperties
  <2> QED
    BY <2>1, <2>2
<1> DEFINE h == Len(handled)
           q == Len(queue)
           b == 1 + h + q
<1>5. /\ h \in Nat /\ q \in Nat /\ b \in Nat /\ Decoded = b
      /\ DOMAIN handled = 1..h /\ DOMAIN queue = 1..q
  <2>1. h \in Nat /\ q \in Nat /\ Len(outbox) = 0
    BY <1>1, Counts
  <2> QED
    BY <2>1, Counts DEF Decoded
<1>6. Stream(framer \o w, b) /\ (Jvm \notin aborted => 2 * b + Len(framer) + Len(w) = 2 * sent)
  BY <1>1, <1>2, <1>5 DEF StreamInv, InStep
<1> HIDE DEF b, w
<1>7. PICK d \in Nat :
        /\ Completed(u(n)) \in Seq(Items) /\ Len(Completed(u(n))) = d
        /\ DOMAIN Completed(u(n)) = 1..d
        /\ \A i \in 1..d : Completed(u(n))[i] = Packet(b + i - 1)
        /\ Leftover(u(n)) \in Seq(Units) /\ Len(Leftover(u(n))) < 2
        /\ rest(n) \in Seq(Units)
        /\ Stream(Leftover(u(n)) \o rest(n), b + d)
        /\ 2 * d + Len(Leftover(u(n))) + Len(rest(n)) = Len(framer) + Len(w)
  <2>1. PICK d \in Nat : ReadsOn(framer, w, b, n, d)
    BY <1>4, <1>5, <1>6, Reading
  <2> QED
    BY <2>1 DEF ReadsOn
<1>8. /\ outbox' \in Seq(Items) /\ Len(outbox') = d /\ DOMAIN outbox' = 1..d
      /\ \A i \in 1..d : outbox'[i] = Packet(b + i - 1)
      /\ framer' \in Seq(Units) /\ Len(framer') < 2
  BY <1>3, <1>7
<1>9. /\ wire' \in [Peers -> Seq(Units)] /\ wire'[Jvm] = rest(n)
      /\ \A p \in Strangers : wire'[p] = wire[p]
  BY <1>2, <1>3, <1>4, <1>7, ChannelAssumption DEF Peers
<1>10. Types'
  BY <1>1, <1>8, <1>9 DEF Types
<1>11. Places' /\ ServedOnce' /\ Swept' /\ (polled \in BOOLEAN)'
  BY <1>1 DEF Places, ServedOnce, Swept
<1>12. NoKey'
  BY <1>1, <1>9 DEF NoKey
<1>13. StreamInv'
  <2>1. ~Waits' /\ (\A j \in DOMAIN pending : pending[j].peer # Jvm)'
    BY <1>1, <1>2 DEF Waits
  <2>2. Decoded' = b + d
    BY <1>1, <1>5, <1>7, <1>8 DEF Decoded, b
  <2>3. Stream(framer' \o wire'[Jvm], b + d)
    BY <1>3, <1>7, <1>9
  <2>4. Jvm \notin aborted => 2 * (b + d) + Len(framer') + Len(wire'[Jvm]) = 2 * sent
    <3> DEFINE x == Len(framer)
               y == Len(w)
               x1 == Len(framer')
               y1 == Len(rest(n))
    <3>1. x \in Nat /\ y \in Nat /\ x1 \in Nat /\ y1 \in Nat
      BY <1>4, <1>7, <1>8, LenProperties
    <3>2. 2 * d + x1 + y1 = x + y /\ (Jvm \notin aborted => 2 * b + x + y = 2 * sent)
      BY <1>3, <1>6, <1>7
    <3>3. sent \in Nat
      BY ChannelAssumption DEF Types
    <3> HIDE DEF x, y, x1, y1
    <3>4. Jvm \notin aborted => 2 * (b + d) + x1 + y1 = 2 * sent
      BY <1>5, <1>7, <3>1, <3>2, <3>3
    <3> QED
      BY <1>9, <3>4 DEF x1, y1
  <2>5. InStep(framer, Decoded)'
    BY <1>1, <2>2, <2>3, <2>4 DEF InStep, Stream
  <2> QED
    BY <2>1, <2>5 DEF StreamInv
<1>14. Ordered'
  <2>1. \A i \in 1..q : queue[i] = Packet(h + i)
    BY <1>1, <1>5 DEF Ordered
  <2>2. \A i \in 1..d : outbox'[i] = Packet(h + q + i)
    <3>1. \A i \in 1..d : b + i - 1 = h + q + i
      BY <1>5, <1>7 DEF b
    <3> QED
      BY <1>8, <3>1
  <2>3. conn' # NoPeer /\ reader' # "none"
    BY <1>1, <1>2
  <2> QED
    BY <1>1, <1>2, <1>5, <1>8, <2>1, <2>2, <2>3 DEF Ordered
<1> QED
  BY <1>10, <1>11, <1>12, <1>13, <1>14

\* The reader queues one packet, or the end of the stream after the last.
LEMMA ReaderPushesStep ==
  ASSUME ChannelInv, ReaderPushes
  PROVE  ChannelInv'
<1> USE DEF ChannelInv
<1>1. /\ outbox # <<>> /\ Len(queue) < QueueCapacity
      /\ queue' = Append(queue, Head(outbox)) /\ outbox' = Tail(outbox)
      /\ UNCHANGED <<dialled, closed, aborted, wire, sent, backlog, pending, sweep, polled>>
      /\ UNCHANGED <<conn, framer, reader, handled, due, examined>>
  BY DEF ReaderPushes, peerVars, listener, history
<1>2. conn = Jvm /\ conn # NoPeer
  BY <1>1, Connected
<1> DEFINE h == Len(handled)
           q == Len(queue)
           o == Len(outbox)
<1>3. /\ h \in Nat /\ DOMAIN handled = 1..h /\ q \in Nat /\ DOMAIN queue = 1..q
      /\ o \in Nat /\ DOMAIN outbox = 1..o
  BY Counts
<1>4. /\ Head(outbox) = outbox[1] /\ Head(outbox) \in Items /\ Tail(outbox) \in Seq(Items)
      /\ 1 \in 1..o
      /\ Len(Tail(outbox)) = o - 1 /\ DOMAIN Tail(outbox) = 1..(o - 1)
      /\ \A k \in 1..(o - 1) : k + 1 \in 1..o /\ Tail(outbox)[k] = outbox[k + 1]
  BY <1>1, Popping DEF Types
<1>5. /\ Append(queue, Head(outbox)) \in Seq(Items)
      /\ Len(Append(queue, Head(outbox))) = q + 1
      /\ DOMAIN Append(queue, Head(outbox)) = 1..(q + 1)
      /\ \A k \in 1..q : Append(queue, Head(outbox))[k] = queue[k]
      /\ Append(queue, Head(outbox))[q + 1] = Head(outbox)
      /\ \A k \in 1..(q + 1) : k \in 1..q \/ k = q + 1
  BY <1>4, Appending DEF Types
<1>6. /\ \A k \in 1..q : queue[k] = Packet(h + k)
      /\ \A k \in 1..o : \/ outbox[k] = Packet(h + q + k)
                         \/ outbox[k] = Disconnected /\ k = o /\ reader = "done" /\ Final(h + q + k)
  BY <1>1, <1>3 DEF Ordered
<1>7. /\ queue' \in Seq(Items) /\ Len(queue') = q + 1 /\ DOMAIN queue' = 1..(q + 1)
      /\ \A k \in 1..q : queue'[k] = queue[k]
      /\ queue'[q + 1] = outbox[1]
      /\ outbox' \in Seq(Items) /\ Len(outbox') = o - 1 /\ DOMAIN outbox' = 1..(o - 1)
      /\ \A k \in 1..(o - 1) : outbox'[k] = outbox[k + 1]
  BY <1>1, <1>4, <1>5
<1>8. Len(handled)' = h
  BY <1>1
<1> HIDE DEF h, q, o
<1>9. Types'
  <2>1. q + 1 <= QueueCapacity
    BY <1>1, <1>3, ChannelAssumption DEF q
  <2> QED
    BY <1>1, <1>7, <2>1 DEF Types
<1>10. Places' /\ ServedOnce' /\ Swept' /\ NoKey' /\ (polled \in BOOLEAN)'
  BY <1>1 DEF Places, ServedOnce, Swept, NoKey
<1>11. StreamInv'
  <2>1. Decoded' = Decoded
    <3>1. \A x, y, z \in Nat : 1 + x + (y + 1) + (z - 1) = 1 + x + y + z
      OBVIOUS
    <3>2. Decoded' = 1 + h + (q + 1) + (o - 1) /\ Decoded = 1 + h + q + o
      BY <1>7, <1>8 DEF Decoded, h, q, o
    <3> QED
      BY <1>3, <3>1, <3>2
  <2>2. wire'[Jvm] = wire[Jvm]
    BY <1>1
  <2> QED
    BY <1>1, <2>1, <2>2, InStepKept DEF StreamInv, Waits
<1>12. Ordered'
  <2>1. \A k : Final(k)' <=> Final(k)
    BY <1>1 DEF Final
  <2>2. ASSUME NEW k \in 1..(q + 1)
        PROVE  \/ queue'[k] = Packet(h + k)
               \/ /\ queue'[k] = Disconnected /\ k = q + 1 /\ outbox' = <<>> /\ reader = "done"
                  /\ Final(h + k)
    <3>1. CASE k \in 1..q
      BY <1>6, <1>7, <3>1
    <3>2. CASE k = q + 1
      <4>1. h + q + 1 = h + k
        BY <1>3, <3>2
      <4>2. o = 1 => outbox' = <<>>
        BY <1>7, EmptySeq
      <4>3. \/ outbox[1] = Packet(h + q + 1)
            \/ outbox[1] = Disconnected /\ 1 = o /\ reader = "done" /\ Final(h + q + 1)
        BY <1>4, <1>6
      <4> QED
        BY <1>7, <3>2, <4>1, <4>2, <4>3
    <3> QED
      BY <1>5, <3>1, <3>2
  <2>3. ASSUME NEW k \in 1..(o - 1)
        PROVE  \/ outbox'[k] = Packet(h + (q + 1) + k)
               \/ /\ outbox'[k] = Disconnected /\ k = o - 1 /\ reader = "done"
                  /\ Final(h + (q + 1) + k)
    <3>1. k + 1 \in 1..o /\ h + q + (k + 1) = h + (q + 1) + k /\ (k + 1 = o => k = o - 1)
      BY <1>3
    <3> QED
      BY <1>6, <1>7, <3>1
  <2>4. \A i \in DOMAIN queue' :
          \/ queue'[i] = Packet(Len(handled') + i)
          \/ /\ queue'[i] = Disconnected /\ i = Len(queue') /\ outbox' = <<>> /\ reader' = "done"
             /\ Final(Len(handled) + i)'
    BY <1>1, <1>7, <1>8, <2>1, <2>2
  <2>5. \A i \in DOMAIN outbox' :
          \/ outbox'[i] = Packet(Len(handled') + Len(queue') + i)
          \/ /\ outbox'[i] = Disconnected /\ i = Len(outbox') /\ reader' = "done"
             /\ Final(Len(handled) + Len(queue) + i)'
    BY <1>1, <1>7, <1>8, <2>1, <2>3
  <2>6. \A i \in DOMAIN handled' :
       \/ handled'[i] = Packet(i)
       \/ handled'[i] = Disconnected /\ i = Len(handled') /\ conn' = NoPeer /\ Final(i)'
    BY <1>1, <2>1 DEF Ordered
  <2>7. conn' # NoPeer /\ (conn' = NoPeer <=> reader' = "none")
    BY <1>1, <1>2 DEF Ordered
  <2> QED
    BY <2>4, <2>5, <2>6, <2>7 DEF Ordered
<1> QED
  BY <1>9, <1>10, <1>11, <1>12

\* The reader finds the end of the stream: unless the connection was reset, all
\* that was sent has been decoded, for nothing is left and a packet has two units.
LEMMA ReaderEndsStep ==
  ASSUME ChannelInv, ReaderEnds
  PROVE  ChannelInv'
<1> USE DEF ChannelInv
<1>1. /\ reader = "reading" /\ outbox = <<>> /\ conn \in closed /\ wire[conn] = <<>>
      /\ outbox' = <<Disconnected>> /\ reader' = "done"
      /\ UNCHANGED <<dialled, closed, aborted, wire, sent, backlog, pending, sweep, polled>>
      /\ UNCHANGED <<conn, framer, queue, handled, due, examined>>
  BY DEF ReaderEnds, EndOfStream, peerVars, listener, history
<1>2. /\ conn = Jvm /\ conn # NoPeer
      /\ ~Waits /\ \A j \in DOMAIN pending : pending[j].peer # Jvm
      /\ \A i \in DOMAIN handled : handled[i] = Packet(i)
  BY <1>1, Connected
<1> DEFINE h == Len(handled)
           q == Len(queue)
<1>3. /\ h \in Nat /\ q \in Nat /\ DOMAIN queue = 1..q /\ DOMAIN handled = 1..h
      /\ Len(outbox) = 0 /\ Len(framer) \in {0, 1}
  BY <1>1, Counts
<1>4. Final(h + q + 1)
  <2>1. Jvm \notin aborted => 2 * Decoded + Len(framer) + Len(wire[Jvm]) = 2 * sent
    BY <1>1, <1>2 DEF StreamInv, InStep
  <2>2. Len(wire[Jvm]) = 0
    BY <1>1, <1>2, EmptySeq
  <2>3. Decoded = 1 + h + q
    BY <1>3 DEF Decoded
  <2>4. sent \in Nat
    BY ChannelAssumption DEF Types
  <2>5. \A x, y, z \in Nat : \A l \in {0, 1} : 2 * (1 + x + y) + l + 0 = 2 * z => x + y + 1 = z
    OBVIOUS
  <2> HIDE DEF h, q
  <2>6. Jvm \notin aborted => 2 * (1 + h + q) + Len(framer) + 0 = 2 * sent
    BY <2>1, <2>2, <2>3
  <2>7. Jvm \notin aborted => h + q + 1 = sent
    BY <1>3, <2>4, <2>5, <2>6, ZenonT(30)
  <2> QED
    BY <1>1, <1>2, <2>7 DEF Final
<1>5. outbox' \in Seq(Items) /\ Len(outbox') = 1 /\ outbox'[1] = Disconnected /\ DOMAIN outbox' = 1..1
  <2>1. Disconnected \in Items
    BY EmptySeq DEF Disconnected, Items
  <2> QED
    BY <1>1, <2>1
<1>6. Types'
  BY <1>1, <1>5 DEF Types
<1>7. Places' /\ ServedOnce' /\ Swept' /\ NoKey' /\ (polled \in BOOLEAN)'
  BY <1>1 DEF Places, ServedOnce, Swept, NoKey
<1>8. StreamInv'
  BY <1>1, <1>2 DEF StreamInv, Waits
<1>9. Ordered'
  <2>1. \A i : Final(i)' <=> Final(i)
    BY <1>1 DEF Final
  <2>2. \A i \in 1..1 : i = 1
    OBVIOUS
  <2>3. \A i \in 1..q : queue[i] = Packet(h + i)
    BY <1>1, <1>3 DEF Ordered
  <2>4. conn' # NoPeer /\ reader' # "none"
    BY <1>1, <1>2
  <2> QED
    BY <1>1, <1>2, <1>3, <1>4, <1>5, <2>1, <2>2, <2>3, <2>4 DEF Ordered
<1> QED
  BY <1>6, <1>7, <1>8, <1>9

\* The connection is dropped: nothing is held of the JVM any more.
LEMMA DropConnectionStep ==
  ASSUME ChannelInv, conn = Jvm, DropConnection,
         UNCHANGED <<dialled, closed, aborted, wire, sent, backlog, pending, sweep, polled,
                     due, examined>>,
         handled' \in Seq(Items),
         \A i \in DOMAIN handled' :
           \/ handled'[i] = Packet(i)
           \/ handled'[i] = Disconnected /\ i = Len(handled') /\ Final(i)
  PROVE  ChannelInv'
<1> USE DEF ChannelInv
<1>1. /\ conn' = NoPeer /\ framer' = <<>> /\ outbox' = <<>> /\ queue' = <<>> /\ reader' = "none"
      /\ Jvm # NoPeer
  BY ChannelAssumption DEF DropConnection, Peers
<1>2. /\ <<>> \in Seq(Units) /\ <<>> \in Seq(Items) /\ Len(<<>>) = 0
      /\ 0 < 2 /\ 0 <= QueueCapacity
  BY EmptySeq, ChannelAssumption
<1>3. Types'
  BY <1>1, <1>2 DEF Types
<1>4. Places' /\ ServedOnce' /\ Swept' /\ NoKey' /\ (polled \in BOOLEAN)'
  BY <1>1 DEF Places, ServedOnce, Swept, NoKey
<1>5. StreamInv'
  BY <1>1 DEF StreamInv, Waits, ServedOnce
<1>6. Ordered'
  <2>1. \A i : Final(i)' <=> Final(i)
    BY DEF Final
  <2>2. DOMAIN queue' = {} /\ DOMAIN outbox' = {}
    BY <1>1
  <2> QED
    BY <1>1, <2>1, <2>2 DEF Ordered
<1> QED
  BY <1>3, <1>4, <1>5, <1>6

\* A send fails: what was queued is lost, what was handled stays.
LEMMA SendFailsStep ==
  ASSUME ChannelInv, SendFails
  PROVE  ChannelInv'
<1>1. /\ conn # NoPeer /\ DropConnection /\ handled' = handled
      /\ UNCHANGED <<dialled, closed, aborted, wire, sent, backlog, pending, sweep, polled,
                     due, examined>>
  BY DEF SendFails, peerVars, listener, history
<1>2. conn = Jvm /\ \A i \in DOMAIN handled : handled[i] = Packet(i)
  BY <1>1, Connected DEF ChannelInv
<1>3. handled' \in Seq(Items)
  BY <1>1 DEF ChannelInv, Types
<1>4. \A i \in DOMAIN handled' : handled'[i] = Packet(i)
  BY <1>1, <1>2
<1> QED
  BY <1>1, <1>2, <1>3, <1>4, DropConnectionStep

\* The event loop takes the front of the queue; the end of the stream drops the
\* connection.
LEMMA ReceiveStep ==
  ASSUME ChannelInv, Receive
  PROVE  ChannelInv'
<1> USE DEF ChannelInv
<1>1. /\ conn # NoPeer /\ queue # <<>> /\ handled' = Append(handled, Head(queue))
      /\ IF Head(queue) = Disconnected
           THEN DropConnection
           ELSE queue' = Tail(queue) /\ UNCHANGED <<conn, framer, outbox, reader>>
      /\ UNCHANGED <<dialled, closed, aborted, wire, sent, backlog, pending, sweep, polled,
                     due, examined>>
  BY DEF Receive, peerVars, listener, history
<1>2. conn = Jvm /\ \A i \in DOMAIN handled : handled[i] = Packet(i)
  BY <1>1, Connected
<1> DEFINE h == Len(handled)
           q == Len(queue)
           o == Len(outbox)
<1>3. /\ h \in Nat /\ DOMAIN handled = 1..h /\ q \in Nat /\ DOMAIN queue = 1..q
      /\ o \in Nat /\ DOMAIN outbox = 1..o
  BY Counts
<1>4. /\ Head(queue) = queue[1] /\ Head(queue) \in Items /\ Tail(queue) \in Seq(Items)
      /\ 1 \in 1..q
      /\ Len(Tail(queue)) = q - 1 /\ DOMAIN Tail(queue) = 1..(q - 1)
      /\ \A k \in 1..(q - 1) : k + 1 \in 1..q /\ Tail(queue)[k] = queue[k + 1]
  BY <1>1, Popping DEF Types
<1>5. /\ handled' \in Seq(Items) /\ Len(handled') = h + 1 /\ DOMAIN handled' = 1..(h + 1)
      /\ \A k \in 1..h : handled'[k] = handled[k]
      /\ handled'[h + 1] = queue[1]
      /\ \A k \in 1..(h + 1) : k \in 1..h \/ k = h + 1
  BY <1>1, <1>4, Appending DEF Types
<1>6. /\ \A k \in 1..q :
           \/ queue[k] = Packet(h + k)
           \/ /\ queue[k] = Disconnected /\ k = q /\ outbox = <<>> /\ reader = "done"
              /\ Final(h + k)
      /\ \A k \in 1..o : \/ outbox[k] = Packet(h + q + k)
                         \/ outbox[k] = Disconnected /\ k = o /\ reader = "done" /\ Final(h + q + k)
  BY <1>3 DEF Ordered
<1> HIDE DEF h, q, o
<1>7. CASE Head(queue) = Disconnected
  <2>1. Final(h + 1) /\ handled'[h + 1] = Disconnected
    BY <1>4, <1>5, <1>6, <1>7, PacketIsNoEnd
  <2>2. \A i \in DOMAIN handled' :
          \/ handled'[i] = Packet(i)
          \/ handled'[i] = Disconnected /\ i = Len(handled') /\ Final(i)
    BY <1>2, <1>3, <1>5, <2>1
  <2> QED
    BY <1>1, <1>2, <1>5, <1>7, <2>2, DropConnectionStep
<1>8. CASE Head(queue) # Disconnected
  <2>1. queue' = Tail(queue) /\ UNCHANGED <<conn, framer, outbox, reader>>
    BY <1>1, <1>8
  <2>2. handled'[h + 1] = Packet(h + 1)
    BY <1>4, <1>5, <1>6, <1>8
  <2>3. /\ queue' \in Seq(Items) /\ Len(queue') = q - 1 /\ DOMAIN queue' = 1..(q - 1)
        /\ \A k \in 1..(q - 1) : k + 1 \in 1..q /\ queue'[k] = queue[k + 1]
        /\ Len(outbox') = o
    BY <1>4, <2>1 DEF o
  <2>4. Types'
    <3>1. q - 1 <= QueueCapacity
      BY <1>3, ChannelAssumption DEF Types, q
    <3> QED
      BY <1>1, <1>5, <2>1, <2>3, <3>1 DEF Types
  <2>5. Places' /\ Swept' /\ NoKey' /\ (polled \in BOOLEAN)'
    BY <1>1, <2>1 DEF Places, Swept, NoKey
  <2>6. ServedOnce'
    BY <1>1, <1>2, <2>1 DEF ServedOnce
  <2>7. StreamInv'
    <3>1. \A x, y, z \in Nat : 1 + (x + 1) + (y - 1) + z = 1 + x + y + z
      OBVIOUS
    <3>2. Decoded' = 1 + (h + 1) + (q - 1) + o /\ Decoded = 1 + h + q + o
      BY <1>5, <2>3 DEF Decoded, h, q, o
    <3>3. Decoded' = Decoded
      BY <1>3, <3>1, <3>2
    <3>4. wire'[Jvm] = wire[Jvm]
      BY <1>1
    <3> QED
      BY <1>1, <2>1, <3>3, <3>4, InStepKept DEF StreamInv, Waits
  <2>8. Ordered'
    <3>1. \A k : Final(k)' <=> Final(k)
      BY <1>1 DEF Final
    <3>2. ASSUME NEW k \in 1..(q - 1)
          PROVE  \/ queue'[k] = Packet((h + 1) + k)
                 \/ /\ queue'[k] = Disconnected /\ k = q - 1 /\ outbox = <<>> /\ reader = "done"
                    /\ Final((h + 1) + k)
      <4>1. k + 1 \in 1..q /\ h + (k + 1) = (h + 1) + k /\ (k + 1 = q => k = q - 1)
        BY <1>3
      <4> QED
        BY <1>6, <2>3, <4>1
    <3>3. ASSUME NEW k \in 1..o
          PROVE  \/ outbox[k] = Packet((h + 1) + (q - 1) + k)
                 \/ /\ outbox[k] = Disconnected /\ k = o /\ reader = "done"
                    /\ Final((h + 1) + (q - 1) + k)
      <4>1. h + q + k = (h + 1) + (q - 1) + k
        BY <1>3
      <4> QED
        BY <1>6, <4>1
    <3>4. \A i \in DOMAIN queue' :
            \/ queue'[i] = Packet(Len(handled') + i)
            \/ /\ queue'[i] = Disconnected /\ i = Len(queue') /\ outbox' = <<>> /\ reader' = "done"
               /\ Final(Len(handled) + i)'
      BY <1>5, <2>1, <2>3, <3>1, <3>2
    <3>5. \A i \in DOMAIN outbox' :
            \/ outbox'[i] = Packet(Len(handled') + Len(queue') + i)
            \/ /\ outbox'[i] = Disconnected /\ i = Len(outbox') /\ reader' = "done"
               /\ Final(Len(handled) + Len(queue) + i)'
      BY <1>3, <1>5, <2>1, <2>3, <3>1, <3>3
    <3>6. \A i \in DOMAIN handled' : handled'[i] = Packet(i)
      BY <1>2, <1>3, <1>5, <2>2
    <3>7. conn' # NoPeer /\ (conn' = NoPeer <=> reader' = "none")
      BY <1>1, <2>1 DEF Ordered
    <3> QED
      BY <3>4, <3>5, <3>6, <3>7 DEF Ordered
  <2> QED
    BY <2>4, <2>5, <2>6, <2>7, <2>8
<1> QED
  BY <1>7, <1>8

-----------------------------------------------------------------------------
(* The listener.                                                           *)

\* The end of a sweep.
LEMMA EndOfSweepStep ==
  ASSUME ChannelInv, EndOfSweep
  PROVE  ChannelInv'
<1> USE DEF ChannelInv
<1>1. /\ sweep' = 0 /\ polled' = TRUE
      /\ UNCHANGED <<dialled, closed, aborted, wire, sent, backlog, pending>>
      /\ UNCHANGED <<conn, framer, outbox, reader, queue, handled, due, examined>>
  BY DEF EndOfSweep, peerVars, connection, history
<1>2. Types'
  <2>1. Len(pending) \in Nat
    BY Counts
  <2>2. 0 \in 0..(Len(pending) + 1)
    BY <2>1
  <2> QED
    BY <1>1, <2>2 DEF Types
<1>3. (polled \in BOOLEAN)'
  BY <1>1, Zenon
<1>4. Places' /\ ServedOnce' /\ NoKey' /\ Ordered'
  BY <1>1 DEF Places, ServedOnce, NoKey, Ordered, Final
<1>5. StreamInv'
  <2>1. wire'[Jvm] = wire[Jvm]
    BY <1>1
  <2> QED
    BY <1>1, <2>1, InStepKept DEF StreamInv, Waits, Decoded
<1>6. Swept'
  BY <1>1 DEF Swept
<1> QED
  BY <1>2, <1>3, <1>4, <1>5, <1>6

\* Time passes: the deadlines come nearer, nothing else changes.
LEMMA ElapseStep ==
  ASSUME ChannelInv, Elapse
  PROVE  ChannelInv'
<1> USE DEF ChannelInv
<1>1. /\ sweep = 0 /\ polled' = FALSE
      /\ pending' = [i \in DOMAIN pending |->
                       [pending[i] EXCEPT !.left = IF pending[i].left > 0 THEN pending[i].left - 1 ELSE 0]]
      /\ UNCHANGED <<dialled, closed, aborted, wire, sent, backlog, sweep>>
      /\ UNCHANGED <<conn, framer, outbox, reader, queue, handled, due, examined>>
  BY DEF Elapse, peerVars, connection, history
<1> DEFINE n == Len(pending)
<1>2. n \in Nat /\ DOMAIN pending = 1..n /\ \A k \in 1..n : pending[k] \in Handshakes
  BY Counts
<1> HIDE DEF n
<1>3. \A h \in Handshakes :
        LET r == [h EXCEPT !.left = IF h.left > 0 THEN h.left - 1 ELSE 0]
        IN  r \in Handshakes /\ r.peer = h.peer /\ r.framer = h.framer
  <2>1. HandshakeTimeout \in Nat
    BY ChannelAssumption
  <2>2. \A x \in 0..HandshakeTimeout : (IF x > 0 THEN x - 1 ELSE 0) \in 0..HandshakeTimeout
    BY <2>1
  <2> QED
    BY <2>2 DEF Handshakes
<1>4. /\ pending' \in [1..n -> Handshakes]
      /\ \A k \in 1..n : pending'[k].peer = pending[k].peer /\ pending'[k].framer = pending[k].framer
  BY <1>1, <1>2, <1>3
<1>5. pending' \in Seq(Handshakes) /\ Len(pending') = n /\ DOMAIN pending' = 1..n
  BY <1>2, <1>4, FunctionIsSeq
<1>6. Types'
  BY <1>1, <1>5 DEF Types, n
<1>7. (polled \in BOOLEAN)'
  BY <1>1, Zenon
<1>8. Places' /\ ServedOnce'
  BY <1>1, <1>2, <1>4, <1>5 DEF Places, ServedOnce
<1>9. NoKey'
  BY <1>1, <1>2, <1>4, <1>5 DEF NoKey
<1>10. Ordered' /\ Swept'
  BY <1>1 DEF Ordered, Final, Swept
<1>11. StreamInv'
  <2>1. wire'[Jvm] = wire[Jvm]
    BY <1>1
  <2>2. Waits' <=> Waits
    BY <1>1 DEF Waits
  <2>3. Decoded' = Decoded
    BY <1>1 DEF Decoded
  <2> QED
    BY <1>1, <1>2, <1>4, <1>5, <2>1, <2>2, <2>3, InStepKept DEF StreamInv
<1> QED
  BY <1>6, <1>7, <1>8, <1>9, <1>10, <1>11

\* The accept loop appends as many handshakes as there is room for.
LEMMA Accepting ==
  ASSUME Types, Poll
  PROVE  \E t \in Nat :
           /\ t <= Len(backlog) /\ Len(pending') = Len(pending) + t
           /\ pending' \in Seq(Handshakes) /\ Len(pending') <= MaxPending
           /\ DOMAIN pending' = 1..(Len(pending) + t)
           /\ \A k \in 1..Len(pending) : pending'[k] = pending[k]
           /\ \A k \in 1..t : /\ pending'[Len(pending) + k].peer = backlog[k]
                              /\ pending'[Len(pending) + k].framer = <<>>
<1> DEFINE n == Len(pending)
           m == Len(backlog)
           t == IF m < Room THEN m ELSE Room
           taken == SubSeq(backlog, 1, t)
           added == [i \in DOMAIN taken |-> Handshake(taken[i])]
<1>1. pending' = pending \o added
  BY DEF Poll
<1>2. /\ n \in Nat /\ m \in Nat /\ pending \in Seq(Handshakes) /\ n <= MaxPending
      /\ MaxPending \in Nat /\ HandshakeTimeout \in Nat
      /\ backlog \in Seq(Peers) /\ \A k \in 1..m : backlog[k] \in Peers
  BY Counts, ElementOfSeq, ChannelAssumption DEF Types
<1>3. t \in Nat /\ t <= m /\ n + t <= MaxPending
  BY <1>2 DEF Room
<1> HIDE DEF t, n, m
<1>4. /\ taken \in Seq(Peers) /\ Len(taken) = t /\ DOMAIN taken = 1..t
      /\ \A k \in 1..t : taken[k] = backlog[k] /\ taken[k] \in Peers
  <2>1. \A k \in 1..t : backlog[k] \in Peers
    BY <1>2, <1>3
  <2>2. /\ taken \in Seq(Peers)
        /\ Len(taken) = IF 1 <= t THEN t - 1 + 1 ELSE 0
        /\ \A i \in 1..(t - 1 + 1) : taken[i] = backlog[1 + i - 1]
    BY <1>3, <2>1, SubSeqProperties
  <2>3. Len(taken) = t /\ \A k \in 1..t : taken[k] = backlog[k]
    BY <1>3, <2>2
  <2>4. DOMAIN taken = 1..Len(taken)
    BY <2>2, LenProperties
  <2> QED
    BY <2>1, <2>2, <2>3, <2>4
<1> HIDE DEF taken
<1>5. \A p \in Peers : Handshake(p) \in Handshakes /\ Handshake(p).peer = p /\ Handshake(p).framer = <<>>
  <2>1. <<>> \in Seq(Units) /\ Len(<<>>) < 2 /\ HandshakeTimeout \in 0..HandshakeTimeout
    BY <1>2, EmptySeq
  <2> QED
    BY <2>1 DEF Handshake, Handshakes
<1>6. added \in [1..t -> Handshakes] /\ \A k \in 1..t : added[k] = Handshake(backlog[k])
  BY <1>4, <1>5
<1> HIDE DEF added
<1>7. added \in Seq(Handshakes) /\ Len(added) = t
  BY <1>3, <1>6, FunctionIsSeq
<1>8. /\ pending' \in Seq(Handshakes) /\ Len(pending') = n + t
      /\ \A i \in 1 .. n + t : pending'[i] = IF i <= n THEN pending[i] ELSE added[i - n]
  BY <1>1, <1>2, <1>7, ConcatProperties DEF n
<1>9. DOMAIN pending' = 1..(n + t)
  BY <1>8, LenProperties
<1>10. \A k \in 1..n : pending'[k] = pending[k]
  BY <1>2, <1>3, <1>8
<1>11. \A k \in 1..t : pending'[n + k] = added[k]
  <2> SUFFICES ASSUME NEW k \in 1..t PROVE pending'[n + k] = added[k]
    OBVIOUS
  <2>1. n + k \in 1..(n + t) /\ ~(n + k <= n) /\ (n + k) - n = k
    BY <1>2, <1>3
  <2> QED
    BY <1>8, <2>1
<1>12. \A k \in 1..t : /\ pending'[n + k].peer = backlog[k]
                       /\ pending'[n + k].framer = <<>>
  <2>1. \A k \in 1..t : backlog[k] \in Peers
    BY <1>4
  <2> QED
    BY <1>5, <1>6, <1>11, <2>1
<1>13. Len(pending') <= MaxPending
  BY <1>3, <1>8
<1> QED
  BY <1>3, <1>8, <1>9, <1>10, <1>12, <1>13 DEF n, m

\* A poll turns what the operating system held into handshakes, or closes it;
\* the sweep has them all before it.
LEMMA PollStep ==
  ASSUME ChannelInv, Poll
  PROVE  ChannelInv'
<1> USE DEF ChannelInv
<1>1. /\ conn = NoPeer /\ sweep = 0 /\ backlog' = <<>> /\ sweep' = 1
      /\ due' = {pending'[i].peer : i \in DOMAIN pending'} /\ examined' = {}
      /\ UNCHANGED <<dialled, closed, aborted, wire, sent, polled>>
      /\ UNCHANGED <<conn, framer, outbox, reader, queue, handled>>
  BY DEF Poll, peerVars, connection
<1> DEFINE n == Len(pending)
           m == Len(backlog)
<1>2. PICK t \in Nat :
        /\ t <= m /\ Len(pending') = n + t
        /\ pending' \in Seq(Handshakes) /\ Len(pending') <= MaxPending
        /\ DOMAIN pending' = 1..(n + t)
        /\ \A k \in 1..n : pending'[k] = pending[k]
        /\ \A k \in 1..t : pending'[n + k].peer = backlog[k] /\ pending'[n + k].framer = <<>>
  BY Accepting
<1>3. n \in Nat /\ m \in Nat /\ DOMAIN pending = 1..n /\ DOMAIN backlog = 1..m
  BY Counts
<1> HIDE DEF n, m
<1>4. ASSUME NEW k \in 1..(n + t)
      PROVE  \/ k \in 1..n /\ pending'[k] = pending[k]
             \/ /\ k - n \in 1..m /\ k = n + (k - n)
                /\ pending'[k].peer = backlog[k - n] /\ pending'[k].framer = <<>>
  <2>1. k \in 1..n \/ (k - n \in 1..t /\ k - n \in 1..m /\ k = n + (k - n))
    BY <1>2, <1>3
  <2> QED
    BY <1>2, <2>1
<1>5. DOMAIN backlog' = {} /\ backlog' \in Seq(Peers)
  BY <1>1, EmptySeq
<1>6. Types'
  <2>1. 1 \in 0..((n + t) + 1)
    BY <1>3
  <2> QED
    BY <1>1, <1>2, <1>5, <2>1 DEF Types
<1>7. Places'
  <2>1. ASSUME NEW i \in 1..(n + t), NEW j \in 1..(n + t), pending'[i].peer = pending'[j].peer
        PROVE  i = j
    <3>1. CASE i \in 1..n /\ pending'[i] = pending[i] /\ j \in 1..n /\ pending'[j] = pending[j]
      BY <1>3, <2>1, <3>1 DEF Places
    <3>2. CASE /\ i - n \in 1..m /\ pending'[i].peer = backlog[i - n]
               /\ j - n \in 1..m /\ pending'[j].peer = backlog[j - n]
               /\ i = n + (i - n) /\ j = n + (j - n)
      <4>1. i - n = j - n
        BY <1>3, <2>1, <3>2 DEF Places
      <4> QED
        BY <3>2, <4>1
    <3>3. CASE /\ i \in 1..n /\ pending'[i] = pending[i]
               /\ j - n \in 1..m /\ pending'[j].peer = backlog[j - n]
      BY <1>3, <2>1, <3>3 DEF Places
    <3>4. CASE /\ j \in 1..n /\ pending'[j] = pending[j]
               /\ i - n \in 1..m /\ pending'[i].peer = backlog[i - n]
      BY <1>3, <2>1, <3>4 DEF Places
    <3> QED
      BY <1>4, <3>1, <3>2, <3>3, <3>4
  <2>2. \A k \in 1..(n + t) : pending'[k].peer \in dialled'
    BY <1>1, <1>3, <1>4 DEF Places
  <2> QED
    BY <1>2, <1>5, <2>1, <2>2 DEF Places
<1>8. ServedOnce'
  <2>1. ASSUME conn = Jvm \/ handled # <<>>
        PROVE  Jvm \in dialled /\ \A k \in 1..(n + t) : pending'[k].peer # Jvm
    <3>1. /\ Jvm \in dialled /\ \A k \in 1..m : backlog[k] # Jvm
          /\ \A k \in 1..n : pending[k].peer # Jvm
      BY <1>3, <2>1 DEF ServedOnce
    <3> QED
      BY <1>4, <3>1
  <2> QED
    BY <1>1, <1>2, <1>5, <2>1 DEF ServedOnce
<1>9. NoKey'
  <2>1. DOMAIN <<>> = {}
    OBVIOUS
  <2> QED
    BY <1>1, <1>2, <1>3, <1>4, <2>1 DEF NoKey
<1>10. StreamInv'
  <2>1. wire'[Jvm] = wire[Jvm]
    BY <1>1
  <2>2. Waits' => Waits
    BY <1>1, <1>5 DEF Waits
  <2>3. ASSUME NEW k \in 1..(n + t), pending'[k].peer = Jvm
        PROVE  InStep(pending'[k].framer, 0)
    <3>1. CASE k \in 1..n /\ pending'[k] = pending[k]
      BY <1>3, <2>3, <3>1 DEF StreamInv
    <3>2. CASE k - n \in 1..m /\ pending'[k].peer = backlog[k - n] /\ pending'[k].framer = <<>>
      BY <1>3, <2>3, <3>2 DEF StreamInv, Waits
    <3> QED
      BY <1>4, <3>1, <3>2
  <2>4. conn' # Jvm
    BY <1>1, ChannelAssumption DEF Peers
  <2>5. (\A j \in DOMAIN pending : pending[j].peer = Jvm => InStep(pending[j].framer, 0))'
    BY <1>1, <1>2, <2>1, <2>3, InStepKept
  <2> QED
    BY <1>1, <2>1, <2>2, <2>4, <2>5, InStepKept DEF StreamInv
<1>11. Ordered'
  BY <1>1 DEF Ordered, Final
<1>12. Swept'
  <2>1. \A k \in 1..(n + t) : k >= 1 /\ ~(k < 1)
    BY <1>3
  <2> QED
    BY <1>1, <1>2, <2>1 DEF Swept
<1>13. (polled \in BOOLEAN)'
  BY <1>1
<1> QED
  BY <1>6, <1>7, <1>8, <1>9, <1>10, <1>11, <1>12, <1>13

\* What advance_handshake leaves alone, and what it may have read.
Advanced ==
  /\ Sweeping /\ Examine
  /\ wire' \in [Peers -> Seq(Units)]
  /\ \A p \in Strangers : \A k \in DOMAIN wire'[p] : wire'[p][k] = Bad
  /\ Current.peer # Jvm => wire'[Jvm] = wire[Jvm]
  /\ UNCHANGED <<dialled, closed, aborted, sent, backlog, polled, handled>>

\* Where the sweep stands.
LEMMA Standing ==
  ASSUME ChannelInv, Sweeping
  PROVE  /\ Len(pending) \in Nat /\ DOMAIN pending = 1..Len(pending)
         /\ sweep \in 1..Len(pending) /\ sweep \in Nat /\ sweep > 0
         /\ Current \in Handshakes /\ Current = pending[sweep]
         /\ Current.peer \in Peers
         /\ Current.framer \in Seq(Units) /\ Len(Current.framer) < 2
         /\ Current.peer \in Strangers \/ Current.peer = Jvm
         /\ Current.peer = Jvm =>
              /\ ~Waits /\ conn = NoPeer /\ handled = <<>> /\ InStep(Current.framer, 0)
<1>1. /\ Len(pending) \in Nat /\ DOMAIN pending = 1..Len(pending)
      /\ \A k \in 1..Len(pending) : pending[k] \in Handshakes
  BY Counts DEF ChannelInv
<1>2. sweep \in 1..Len(pending)
  BY <1>1 DEF Sweeping
<1>3. sweep \in Nat /\ sweep > 0
  BY <1>1, <1>2
<1>4. Current \in Handshakes /\ Current = pending[sweep]
  BY <1>1, <1>2 DEF Current
<1>5. /\ Current.peer \in Peers
      /\ Current.framer \in Seq(Units) /\ Len(Current.framer) < 2
  BY <1>4 DEF Handshakes
<1>6. Current.peer \in Strangers \/ Current.peer = Jvm
  BY <1>5 DEF Peers
<1>7. ASSUME Current.peer = Jvm
      PROVE  ~Waits /\ conn = NoPeer /\ handled = <<>> /\ InStep(Current.framer, 0)
  <2>1. pending[sweep].peer = Jvm /\ sweep \in DOMAIN pending
    BY <1>1, <1>2, <1>4, <1>7
  <2>2. conn # Jvm /\ handled = <<>>
    BY <2>1 DEF ChannelInv, ServedOnce
  <2>3. ~Waits
    BY <2>1 DEF ChannelInv, Places, Waits
  <2>4. InStep(Current.framer, 0)
    BY <1>4, <2>1 DEF ChannelInv, StreamInv
  <2> QED
    BY <2>2, <2>3, <2>4 DEF ChannelInv, Types
<1> QED
  BY <1>1, <1>2, <1>3, <1>4, <1>5, <1>6, <1>7

\* A handshake is kept, with the units it has so far, and the sweep goes on.
LEMMA KeepStep ==
  ASSUME ChannelInv, Advanced, NEW units \in Seq(Units), Len(units) < 2, Keep(units),
         Current.peer \in Strangers => \A k \in DOMAIN units : units[k] = Bad,
         Current.peer = Jvm => InStep(units, 0)'
  PROVE  ChannelInv'
<1> USE DEF ChannelInv
<1> DEFINE n == Len(pending)
<1>1. /\ n \in Nat /\ DOMAIN pending = 1..n /\ sweep \in 1..n /\ sweep \in Nat
      /\ Current \in Handshakes /\ Current = pending[sweep]
      /\ Current.peer = Jvm => ~Waits /\ conn = NoPeer
  BY Standing DEF Advanced
<1>2. /\ pending' = [pending EXCEPT ![sweep].framer = units] /\ sweep' = sweep + 1
      /\ examined' = examined \cup {Current.peer} /\ due' = due
      /\ UNCHANGED <<dialled, closed, aborted, sent, backlog, polled, handled>>
      /\ UNCHANGED <<conn, framer, outbox, reader, queue>>
      /\ wire' \in [Peers -> Seq(Units)]
      /\ \A p \in Strangers : \A k \in DOMAIN wire'[p] : wire'[p][k] = Bad
      /\ Current.peer # Jvm => wire'[Jvm] = wire[Jvm]
  BY DEF Advanced, Examine, Keep, connection
<1>3. pending \in Seq(Handshakes) /\ \A k \in 1..n : pending[k] \in Handshakes
  BY Counts DEF Types
<1> HIDE DEF n
<1>4. \A h \in Handshakes :
        LET r == [h EXCEPT !.framer = units]
        IN  r \in Handshakes /\ r.peer = h.peer /\ r.framer = units
  BY DEF Handshakes
<1>5. /\ DOMAIN pending' = 1..n
      /\ \A k \in 1..n : k # sweep => pending'[k] = pending[k]
      /\ pending'[sweep] = [pending[sweep] EXCEPT !.framer = units]
      /\ pending' \in [1..n -> Handshakes]
  <2>1. pending' = [pending EXCEPT ![sweep] = [pending[sweep] EXCEPT !.framer = units]]
    BY <1>2
  <2>2. [pending[sweep] EXCEPT !.framer = units] \in Handshakes
    BY <1>1, <1>3, <1>4
  <2>3. pending \in [1..n -> Handshakes]
    BY <1>1, <1>3, SeqDef, LenProperties DEF n
  <2> HIDE DEF Handshakes
  <2> QED
    BY <1>1, <2>1, <2>2, <2>3
<1>6. /\ \A k \in 1..n : pending'[k].peer = pending[k].peer
      /\ \A k \in 1..n : k # sweep => pending'[k].framer = pending[k].framer
      /\ pending'[sweep].framer = units
  <2>1. \A k \in 1..n : k # sweep => pending'[k] = pending[k]
    BY <1>5
  <2>2. pending[sweep] \in Handshakes
    BY <1>1
  <2>3. pending'[sweep].peer = pending[sweep].peer /\ pending'[sweep].framer = units
    <3> HIDE DEF Handshakes
    <3> QED
      BY <1>4, <1>5, <2>2
  <2>4. \A k \in 1..n : pending'[k].peer = pending[k].peer
    BY <2>1, <2>3, Zenon
  <2> QED
    BY <2>1, <2>3, <2>4, Zenon
<1>7. pending' \in Seq(Handshakes) /\ Len(pending') = n
  BY <1>1, <1>5, FunctionIsSeq
<1>8. Types'
  <2>1. sweep + 1 \in 0..(n + 1)
    BY <1>1
  <2> QED
    BY <1>2, <1>7, <2>1 DEF Types, n
<1>9. Places' /\ ServedOnce' /\ (polled \in BOOLEAN)'
  BY <1>1, <1>2, <1>5, <1>6 DEF Places, ServedOnce
<1>10. NoKey'
  <2>1. ASSUME NEW j \in 1..n, pending'[j].peer \in Strangers, NEW k \in DOMAIN pending'[j].framer
        PROVE  pending'[j].framer[k] = Bad
    <3>1. CASE j = sweep
      BY <1>1, <1>6, <2>1, <3>1
    <3>2. CASE j # sweep
      BY <1>1, <1>6, <2>1, <3>2 DEF NoKey
    <3> QED
      BY <3>1, <3>2
  <2> QED
    BY <1>2, <1>5, <2>1 DEF NoKey
<1>11. Ordered'
  BY <1>2 DEF Ordered, Final
<1>12. Swept'
  <2>1. /\ sweep > 0 /\ examined \subseteq due
        /\ \A k \in 1..n : k < sweep => pending[k].peer \in examined
        /\ \A k \in 1..n : k >= sweep => pending[k].peer \in due \ examined
        /\ \A p \in due \ examined : \E k \in 1..n : k >= sweep /\ pending[k].peer = p
    <3>1. sweep > 0
      BY <1>1
    <3> QED
      BY <1>1, <3>1 DEF Swept
  <2>2. \A k \in 1..n : /\ (k < sweep + 1 => k < sweep \/ k = sweep)
                        /\ (k >= sweep + 1 => k >= sweep /\ k # sweep)
                        /\ (k >= sweep /\ k # sweep => k >= sweep + 1)
    BY <1>1
  <2>3. examined' \subseteq due'
    BY <1>1, <1>2, <2>1, <1>1
  <2>4. \A k \in 1..n : k < sweep + 1 => pending'[k].peer \in examined'
    BY <1>1, <1>2, <1>6, <2>1, <2>2
  <2>5. \A k \in 1..n : k >= sweep + 1 => pending'[k].peer \in due' \ examined'
    <3>1. \A k \in 1..n : k # sweep => pending[k].peer # Current.peer
      BY <1>1 DEF Places
    <3> QED
      BY <1>2, <1>6, <2>1, <2>2, <3>1
  <2>6. ASSUME NEW p \in due' \ examined'
        PROVE  \E k \in 1..n : k >= sweep + 1 /\ pending'[k].peer = p
    <3>1. p \in due \ examined /\ p # Current.peer
      BY <1>2, <2>6
    <3>2. PICK k \in 1..n : k >= sweep /\ pending[k].peer = p
      BY <2>1, <3>1
    <3>3. k # sweep
      BY <1>1, <3>1, <3>2
    <3> QED
      BY <1>6, <2>2, <3>2, <3>3
  <2> QED
    BY <1>2, <1>5, <2>3, <2>4, <2>5, <2>6 DEF Swept
<1>13. StreamInv'
  <2>1. (Waits' <=> Waits) /\ Decoded' = Decoded
    BY <1>2 DEF Waits, Decoded
  <2>2. CASE Current.peer = Jvm
    <3>1. \A k \in 1..n : k # sweep => pending'[k].peer # Jvm
      BY <1>1, <1>6, <2>2 DEF Places
    <3>2. conn' # Jvm /\ ~Waits'
      BY <1>1, <1>2, <2>1, <2>2, ChannelAssumption DEF Peers
    <3>3. InStep(units, 0)'
      BY <2>2
    <3>4. \A k \in 1..n : pending'[k].peer = Jvm => pending'[k].framer = units
      BY <1>6, <3>1
    <3>5. (\A j \in DOMAIN pending : pending[j].peer = Jvm => InStep(pending[j].framer, 0))'
      BY <1>5, <3>3, <3>4
    <3> QED
      BY <3>2, <3>5 DEF StreamInv
  <2>3. CASE Current.peer # Jvm
    <3>1. wire'[Jvm] = wire[Jvm]
      BY <1>2, <2>3
    <3>2. \A k \in 1..n : pending'[k].peer = Jvm => k # sweep
      BY <1>1, <1>6, <2>3
    <3>3. \A k \in 1..n : pending'[k].peer = Jvm => InStep(pending'[k].framer, 0)
      BY <1>1, <1>6, <3>2 DEF StreamInv
    <3>4. (\A j \in DOMAIN pending : pending[j].peer = Jvm => InStep(pending[j].framer, 0))'
      BY <1>2, <1>5, <3>1, <3>3, InStepKept
    <3> QED
      BY <1>2, <2>1, <3>1, <3>4, InStepKept DEF StreamInv
  <2> QED
    BY <2>2, <2>3
<1> QED
  BY <1>8, <1>9, <1>10, <1>11, <1>12, <1>13

\* Without the current handshake the others are all there, each once, the last
\* of them possibly in its place.
LEMMA Removing ==
  ASSUME ChannelInv, Advanced, pending' = SwapRemove(pending, sweep)
  PROVE  /\ pending' \in Seq(Handshakes) /\ Len(pending') = Len(pending) - 1
         /\ DOMAIN pending' = 1..(Len(pending) - 1)
         /\ \A k \in 1..(Len(pending) - 1) :
              \E j \in 1..Len(pending) :
                /\ pending'[k] = pending[j] /\ j # sweep
                /\ (k < sweep => j = k) /\ (k >= sweep => j >= sweep)
         /\ \A j \in 1..Len(pending) : j # sweep =>
              \E k \in 1..(Len(pending) - 1) :
                pending'[k] = pending[j] /\ (j >= sweep => k >= sweep)
         /\ \A k \in DOMAIN pending' : pending'[k].peer # Current.peer
         /\ Places' /\ NoKey'
<1> USE DEF ChannelInv
<1> DEFINE n == Len(pending)
<1>1. /\ n \in Nat /\ DOMAIN pending = 1..n /\ sweep \in 1..n
      /\ Current = pending[sweep]
  BY Standing DEF Advanced
<1>2. /\ pending' \in Seq(Handshakes) /\ Len(pending') = n - 1 /\ DOMAIN pending' = 1..(n - 1)
      /\ \A k \in 1..(n - 1) : pending'[k] = IF k = sweep THEN pending[n] ELSE pending[k]
  BY <1>1, Swapping DEF Types
<1>3. UNCHANGED <<dialled, backlog>> /\ \A p \in Strangers : \A k \in DOMAIN wire'[p] : wire'[p][k] = Bad
  BY DEF Advanced
<1> HIDE DEF n
<1>4. ASSUME NEW k \in 1..(n - 1)
      PROVE  /\ k \in 1..n /\ n \in 1..n /\ k # n
             /\ (k = sweep => n >= sweep /\ ~(k < sweep))
  BY <1>1
<1>5. ASSUME NEW k \in 1..(n - 1)
      PROVE  \E j \in 1..n : /\ pending'[k] = pending[j] /\ j # sweep
                             /\ (k < sweep => j = k) /\ (k >= sweep => j >= sweep)
  <2>1. CASE k = sweep
    BY <1>2, <1>4, <2>1
  <2>2. CASE k # sweep
    BY <1>2, <1>4, <2>2
  <2> QED
    BY <2>1, <2>2
<1>6. ASSUME NEW j \in 1..n, j # sweep
      PROVE  \E k \in 1..(n - 1) : pending'[k] = pending[j] /\ (j >= sweep => k >= sweep)
  <2>1. CASE j = n
    <3>1. sweep \in 1..(n - 1) /\ sweep >= sweep
      BY <1>1, <1>6, <2>1
    <3> QED
      BY <1>2, <2>1, <3>1
  <2>2. CASE j # n
    <3>1. j \in 1..(n - 1)
      BY <1>1, <2>2
    <3> QED
      BY <1>2, <1>6, <3>1
  <2> QED
    BY <2>1, <2>2
<1>7. \A k \in 1..(n - 1) : pending'[k].peer # Current.peer
  BY <1>1, <1>5 DEF Places
<1>8. Places'
  <2>1. ASSUME NEW i \in 1..(n - 1), NEW j \in 1..(n - 1), pending'[i].peer = pending'[j].peer
        PROVE  i = j
    <3>1. i \in 1..n /\ j \in 1..n /\ n \in 1..n /\ i # n /\ j # n
      BY <1>4
    <3>2. CASE i = sweep /\ j # sweep
      <4>1. pending'[i] = pending[n] /\ pending'[j] = pending[j]
        BY <1>2, <3>2
      <4> QED
        BY <1>1, <2>1, <3>1, <4>1 DEF Places
    <3>3. CASE i # sweep /\ j = sweep
      <4>1. pending'[i] = pending[i] /\ pending'[j] = pending[n]
        BY <1>2, <3>3
      <4> QED
        BY <1>1, <2>1, <3>1, <4>1 DEF Places
    <3>4. CASE i # sweep /\ j # sweep
      <4>1. pending'[i] = pending[i] /\ pending'[j] = pending[j]
        BY <1>2, <3>4
      <4> QED
        BY <1>1, <2>1, <3>1, <4>1 DEF Places
    <3> QED
      BY <3>2, <3>3, <3>4
  <2>2. \A k \in 1..(n - 1) : pending'[k].peer \in dialled'
    BY <1>1, <1>3, <1>5 DEF Places
  <2>3. \A i \in DOMAIN backlog', k \in 1..(n - 1) : pending'[k].peer # backlog'[i]
    BY <1>1, <1>3, <1>5 DEF Places
  <2>4. /\ \A i, j \in DOMAIN backlog' : backlog'[i] = backlog'[j] => i = j
        /\ \A i \in DOMAIN backlog' : backlog'[i] \in dialled'
    BY <1>3 DEF Places
  <2> QED
    BY <1>2, <2>1, <2>2, <2>3, <2>4 DEF Places
<1>9. NoKey'
  <2>1. \A j \in 1..(n - 1) : pending'[j].peer \in Strangers =>
          \A k \in DOMAIN pending'[j].framer : pending'[j].framer[k] = Bad
    BY <1>1, <1>5 DEF NoKey
  <2> QED
    BY <1>2, <1>3, <2>1 DEF NoKey
<1> QED
  BY <1>2, <1>5, <1>6, <1>7, <1>8, <1>9 DEF n

\* A handshake is dropped: the sweep goes on with the one that took its place.
LEMMA DropStep ==
  ASSUME ChannelInv, Advanced, Drop
  PROVE  ChannelInv'
<1> USE DEF ChannelInv
<1> DEFINE n == Len(pending)
<1>1. /\ n \in Nat /\ DOMAIN pending = 1..n /\ sweep \in 1..n /\ sweep \in Nat /\ sweep > 0
      /\ Current = pending[sweep]
      /\ Current.peer = Jvm => ~Waits /\ conn = NoPeer
  BY Standing DEF Advanced
<1>2. /\ pending' = SwapRemove(pending, sweep) /\ sweep' = sweep
      /\ examined' = examined \cup {Current.peer} /\ due' = due
      /\ UNCHANGED <<dialled, closed, aborted, sent, backlog, polled, handled>>
      /\ UNCHANGED <<conn, framer, outbox, reader, queue>>
      /\ wire' \in [Peers -> Seq(Units)]
      /\ Current.peer # Jvm => wire'[Jvm] = wire[Jvm]
  BY DEF Advanced, Examine, Drop, NextAfterDrop, connection
<1>3. /\ pending' \in Seq(Handshakes) /\ Len(pending') = n - 1 /\ DOMAIN pending' = 1..(n - 1)
      /\ \A k \in 1..(n - 1) :
           \E j \in 1..n : /\ pending'[k] = pending[j] /\ j # sweep
                           /\ (k < sweep => j = k) /\ (k >= sweep => j >= sweep)
      /\ \A j \in 1..n : j # sweep =>
           \E k \in 1..(n - 1) : pending'[k] = pending[j] /\ (j >= sweep => k >= sweep)
      /\ \A k \in 1..(n - 1) : pending'[k].peer # Current.peer
      /\ Places' /\ NoKey'
  BY <1>2, Removing
<1>4. n <= MaxPending /\ MaxPending \in Nat
  BY ChannelAssumption DEF Types
<1> HIDE DEF n
<1>5. Types'
  <2>1. sweep \in 0..((n - 1) + 1) /\ n - 1 <= MaxPending
    BY <1>1, <1>4
  <2> QED
    BY <1>2, <1>3, <2>1 DEF Types
<1>6. ServedOnce' /\ (polled \in BOOLEAN)'
  <2>1. ASSUME \A j \in 1..n : pending[j].peer # Jvm
        PROVE  \A k \in 1..(n - 1) : pending'[k].peer # Jvm
    BY <1>3, <2>1
  <2>2. DOMAIN pending' = 1..(n - 1)
    BY <1>3
  <2> QED
    BY <1>1, <1>2, <2>1, <2>2 DEF ServedOnce
<1>7. Ordered'
  BY <1>2 DEF Ordered, Final
<1>8. Swept'
  <2>1. /\ examined \subseteq due
        /\ \A k \in 1..n : k < sweep => pending[k].peer \in examined
        /\ \A k \in 1..n : k >= sweep => pending[k].peer \in due \ examined
        /\ \A p \in due \ examined : \E k \in 1..n : k >= sweep /\ pending[k].peer = p
    BY <1>1 DEF Swept
  <2>2. examined' \subseteq due'
    <3>1. sweep >= sweep
      BY <1>1
    <3> QED
      BY <1>1, <1>2, <2>1, <3>1
  <2>3. ASSUME NEW k \in 1..(n - 1), k < sweep
        PROVE  pending'[k].peer \in examined'
    <3>1. k \in 1..n /\ pending'[k] = pending[k]
      BY <1>3, <2>3
    <3> QED
      BY <1>2, <2>1, <2>3, <3>1
  <2>4. ASSUME NEW k \in 1..(n - 1), k >= sweep
        PROVE  pending'[k].peer \in due' \ examined'
    <3>1. PICK j \in 1..n : pending'[k] = pending[j] /\ j >= sweep
      BY <1>3, <2>4
    <3>2. pending'[k].peer # Current.peer
      BY <1>3
    <3> QED
      BY <1>2, <2>1, <3>1, <3>2
  <2>5. ASSUME NEW p \in due' \ examined'
        PROVE  \E k \in 1..(n - 1) : k >= sweep /\ pending'[k].peer = p
    <3>1. p \in due \ examined /\ p # Current.peer
      BY <1>2, <2>5
    <3>2. PICK j \in 1..n : j >= sweep /\ pending[j].peer = p
      BY <2>1, <3>1
    <3>3. j # sweep
      BY <1>1, <3>1, <3>2
    <3> QED
      BY <1>3, <3>2, <3>3
  <2>6. DOMAIN pending' = 1..(n - 1) /\ sweep' = sweep
    BY <1>2, <1>3
  <2> QED
    BY <2>2, <2>3, <2>4, <2>5, <2>6 DEF Swept
<1>9. StreamInv'
  <2>1. (Waits' <=> Waits) /\ Decoded' = Decoded
    BY <1>2 DEF Waits, Decoded
  <2>2. CASE Current.peer = Jvm
    <3>1. conn' # Jvm /\ ~Waits'
      BY <1>1, <1>2, <2>1, <2>2, ChannelAssumption DEF Peers
    <3> QED
      BY <1>3, <2>2, <3>1 DEF StreamInv
  <2>3. CASE Current.peer # Jvm
    <3>1. wire'[Jvm] = wire[Jvm]
      BY <1>2, <2>3
    <3>2. \A k \in 1..(n - 1) : pending'[k].peer = Jvm => InStep(pending'[k].framer, 0)
      BY <1>1, <1>3 DEF StreamInv
    <3>3. (\A j \in DOMAIN pending : pending[j].peer = Jvm => InStep(pending[j].framer, 0))'
      BY <1>2, <1>3, <3>1, <3>2, InStepKept
    <3> QED
      BY <1>2, <2>1, <3>1, <3>3, InStepKept DEF StreamInv
  <2> QED
    BY <2>2, <2>3
<1> QED
  BY <1>3, <1>5, <1>6, <1>7, <1>8, <1>9

\* What is not a complete packet stays as it is, and what a stranger wrote is
\* never KEY with the right key.
LEMMA FirstPacket ==
  ASSUME NEW u \in Seq(Units)
  PROVE  /\ Completed(u) = <<>> => Len(u) < 2 /\ Leftover(u) = u
         /\ Completed(u) # <<>> /\ (\A k \in DOMAIN u : u[k] = Bad) =>
              Completed(u)[1] # Packet(0)
<1> DEFINE n == Len(u)
           d == n \div 2
<1>1. n \in Nat /\ DOMAIN u = 1..n
  BY LenProperties
<1>2. d \in Nat /\ (n = 2 * d \/ n = 2 * d + 1) /\ (n % 2 = 1 <=> n = 2 * d + 1)
  BY <1>1, Halves
<1>3. Completed(u) = [i \in 1..d |-> <<u[2 * i - 1], u[2 * i]>>]
  BY DEF Completed
<1>4. Leftover(u) = IF n % 2 = 1 THEN <<u[n]>> ELSE <<>>
  BY DEF Leftover
<1> HIDE DEF d
<1>5. DOMAIN Completed(u) = 1..d
  BY <1>3
<1>6. ASSUME Completed(u) = <<>>
      PROVE  Len(u) < 2 /\ Leftover(u) = u
  <2>1. 1..d = {}
    BY <1>5, <1>6
  <2>2. d = 0
    BY <1>2, <2>1
  <2>3. n = 0 \/ n = 1
    BY <1>2, <2>2
  <2>4. CASE n = 0
    <3>1. u = <<>>
      BY <2>4, EmptySeq
    <3>2. Leftover(u) = <<>>
      BY <1>2, <1>4, <2>2, <2>4
    <3> QED
      BY <2>4, <3>1, <3>2
  <2>5. CASE n = 1
    <3>1. Leftover(u) = <<u[1]>>
      BY <1>2, <1>4, <2>2, <2>5
    <3>2. u = <<u[1]>>
      BY <2>5
    <3> QED
      BY <2>5, <3>1, <3>2
  <2> QED
    BY <2>3, <2>4, <2>5
<1>7. ASSUME Completed(u) # <<>>, \A k \in DOMAIN u : u[k] = Bad
      PROVE  Completed(u)[1] # Packet(0)
  <2>1. d # 0
    <3> SUFFICES ASSUME d = 0 PROVE FALSE
      OBVIOUS
    <3>1. 1..d = {}
      OBVIOUS
    <3> QED
      BY <1>3, <1>7, <3>1
  <2>2. 1 \in 1..d /\ 1 \in 1..n /\ 2 \in 1..n /\ 2 * 1 - 1 = 1 /\ 2 * 1 = 2
    BY <1>2, <2>1
  <2>3. Completed(u)[1] = <<u[1], u[2]>>
    BY <1>3, <2>2
  <2>4. u[1] = Bad
    BY <1>1, <1>7, <2>2
  <2>5. Bad # 0
    BY DEF Bad
  <2> QED
    BY <2>3, <2>4, <2>5 DEF Packet
<1> QED
  BY <1>6, <1>7

\* The key is right: only the JVM can have sent it, nothing was handled yet, and
\* the reader goes on where the handshake stopped.
LEMMA AuthenticateStep ==
  ASSUME ChannelInv, Advanced, Current.peer = Jvm,
         NEW n \in 1..Len(wire[Jvm]), n <= HandshakeRead,
         wire' = [wire EXCEPT ![Jvm] = Rest(wire[Jvm], n)],
         Completed(Taken(Current.framer, wire[Jvm], n)) # <<>>,
         Authenticate(Taken(Current.framer, wire[Jvm], n))
  PROVE  ChannelInv'
<1> USE DEF ChannelInv
<1> DEFINE f == Current.framer
           w == wire[Jvm]
           u == Taken(f, w, n)
<1>1. /\ Len(pending) \in Nat /\ DOMAIN pending = 1..Len(pending)
      /\ f \in Seq(Units) /\ Len(f) < 2
      /\ ~Waits /\ conn = NoPeer /\ handled = <<>> /\ InStep(f, 0)
  BY Standing DEF Advanced
<1>2. /\ pending' = SwapRemove(pending, sweep) /\ sweep' = 0 /\ conn' = Jvm
      /\ queue' = Tail(Completed(u)) /\ framer' = Leftover(u) /\ reader' = "reading"
      /\ outbox' = <<>>
      /\ UNCHANGED <<dialled, closed, aborted, sent, backlog, polled, handled>>
      /\ wire' \in [Peers -> Seq(Units)]
  BY DEF Advanced, Authenticate, Initial, HandedOver
<1>3. /\ pending' \in Seq(Handshakes) /\ Len(pending') = Len(pending) - 1
      /\ \A k \in DOMAIN pending' : pending'[k].peer # Jvm
      /\ Places' /\ NoKey'
  BY <1>2, Removing
<1>4. Jvm \in Peers /\ Jvm # NoPeer /\ HandshakeRead \in Nat /\ QueueCapacity \in Nat /\ HandshakeRead <= 2 * QueueCapacity
  BY ChannelAssumption DEF Peers
<1>5. w \in Seq(Units) /\ wire'[Jvm] = Rest(w, n) /\ Len(w) \in Nat
  <2>1. wire \in [Peers -> Seq(Units)]
    BY DEF Types
  <2>2. w \in Seq(Units) /\ wire'[Jvm] = Rest(w, n)
    BY <1>4, <2>1
  <2> QED
    BY <2>2, LenProperties
<1>6. Stream(f \o w, 0) /\ (Jvm \notin aborted => 2 * 0 + Len(f) + Len(w) = 2 * sent)
  BY <1>1 DEF InStep
<1>7. PICK d \in Nat : ReadsOn(f, w, 0, n, d)
  <2>1. n \in 0..Len(w)
    BY <1>5
  <2> QED
    BY <1>1, <1>5, <1>6, <2>1, Reading
<1>8. /\ Completed(u) \in Seq(Items) /\ Len(Completed(u)) = d
      /\ \A i \in 1..d : Completed(u)[i] = Packet(0 + i - 1)
      /\ framer' \in Seq(Units) /\ Len(framer') < 2
      /\ Rest(w, n) \in Seq(Units)
      /\ Stream(framer' \o wire'[Jvm], 0 + d)
      /\ 2 * d + Len(framer') + Len(wire'[Jvm]) = Len(f) + Len(w)
      /\ Len(f) + n = 2 * d + Len(framer')
      /\ Completed(u) # <<>>
  BY <1>2, <1>5, <1>7 DEF ReadsOn
<1> HIDE DEF f, w, u
<1>9. /\ queue' \in Seq(Items) /\ 1 \in 1..d
      /\ Len(queue') = d - 1 /\ DOMAIN queue' = 1..(d - 1)
      /\ \A k \in 1..(d - 1) : k + 1 \in 1..d /\ queue'[k] = Completed(u)[k + 1]
  BY <1>2, <1>8, Popping
<1>10. d - 1 <= QueueCapacity
  <2>1. Len(f) \in Nat /\ Len(framer') \in Nat
    BY <1>1, <1>8, LenProperties
  <2>2. \A x, y \in Nat : x < 2 /\ x + n = 2 * d + y => d - 1 <= QueueCapacity
    BY <1>4, <1>5
  <2> QED
    BY <1>1, <1>8, <2>1, <2>2
<1>11. Types'
  <2>1. Len(pending') <= MaxPending /\ 0 \in 0..(Len(pending') + 1)
    <3>1. Len(pending) <= MaxPending /\ MaxPending \in Nat /\ Len(pending') \in Nat
      BY <1>3, LenProperties, ChannelAssumption DEF Types
    <3> QED
      BY <1>1, <1>3, <3>1
  <2>2. outbox' \in Seq(Items)
    BY <1>2, EmptySeq
  <2> QED
    BY <1>2, <1>3, <1>8, <1>9, <1>10, <2>1, <2>2 DEF Types
<1>12. Jvm \in dialled /\ \A i \in DOMAIN backlog : backlog[i] # Jvm
  BY <1>1 DEF Waits
<1>13. ServedOnce' /\ (polled \in BOOLEAN)'
  BY <1>2, <1>3, <1>12 DEF ServedOnce
<1>14. Swept'
  BY <1>2 DEF Swept
<1>15. Len(handled') = 0 /\ Len(outbox') = 0 /\ DOMAIN handled' = {} /\ DOMAIN outbox' = {}
  BY <1>1, <1>2
<1>16. StreamInv'
  <2>1. ~Waits'
    BY <1>2, <1>12 DEF Waits
  <2>2. Decoded' = d /\ 0 + d = d
    <3>1. Decoded' = 1 + 0 + (d - 1) + 0
      BY <1>9, <1>15 DEF Decoded
    <3> QED
      BY <3>1
  <2>3. Jvm \notin aborted => 2 * d + Len(framer') + Len(wire'[Jvm]) = 2 * sent
    <3>1. Len(f) \in Nat
      BY <1>1, LenProperties
    <3>2. 2 * 0 + Len(f) + Len(w) = Len(f) + Len(w)
      BY <1>5, <3>1
    <3> QED
      BY <1>6, <1>8, <3>2
  <2>4. InStep(framer, Decoded)'
    BY <1>2, <1>8, <2>2, <2>3 DEF InStep, Stream
  <2> QED
    BY <1>3, <2>1, <2>4 DEF StreamInv
<1>17. Ordered'
  <2>1. ASSUME NEW k \in 1..(d - 1)
        PROVE  queue'[k] = Packet(Len(handled') + k)
    <3>1. k + 1 \in 1..d /\ 0 + (k + 1) - 1 = 0 + k
      BY <1>9
    <3> QED
      BY <1>8, <1>9, <1>15, <3>1
  <2>2. conn' # NoPeer /\ reader' # "none"
    BY <1>2, <1>4
  <2> QED
    BY <1>9, <1>15, <2>1, <2>2 DEF Ordered
<1> QED
  BY <1>3, <1>11, <1>13, <1>14, <1>16, <1>17

\* One handshake is advanced: its deadline, the end of its stream, nothing to
\* read, or a read.
LEMMA AdvanceStep ==
  ASSUME ChannelInv, Advance
  PROVE  ChannelInv'
<1>1. /\ Sweeping /\ Examine
      /\ UNCHANGED <<dialled, closed, aborted, sent, backlog, polled, handled>>
  BY DEF Advance
<1>2. /\ Current.peer \in Peers /\ Current.framer \in Seq(Units) /\ Len(Current.framer) < 2
      /\ Current.peer \in Strangers \/ Current.peer = Jvm
      /\ Current.peer = Jvm => InStep(Current.framer, 0)
      /\ Current = pending[sweep] /\ sweep \in DOMAIN pending
  <2>1. sweep \in DOMAIN pending
    BY <1>1 DEF Sweeping
  <2> QED
    BY <1>1, <2>1, Standing
\* The peer and its units, as they were when the handshake was advanced.
<1>3. PICK p, f : p = Current.peer /\ f = Current.framer
  OBVIOUS
<1>4. /\ p \in Peers /\ f \in Seq(Units) /\ Len(f) < 2
      /\ p \in Strangers \/ p = Jvm
      /\ p = Jvm => InStep(f, 0)
  BY <1>2, <1>3
<1>5. /\ wire \in [Peers -> Seq(Units)]
      /\ \A q \in Strangers : \A k \in DOMAIN wire[q] : wire[q][k] = Bad
      /\ p \in Strangers => \A k \in DOMAIN f : f[k] = Bad
  BY <1>2, <1>3 DEF ChannelInv, Types, NoKey
<1>6. Jvm \in Peers /\ Jvm \notin Strangers /\ Strangers \subseteq Peers
  BY ChannelAssumption DEF Peers
<1>7. \/ wire' = wire /\ (Drop \/ Keep(f))
      \/ \E n \in 1..Len(wire[p]) :
           /\ n <= HandshakeRead
           /\ wire' = [wire EXCEPT ![p] = Rest(wire[p], n)]
           /\ LET u == Taken(f, wire[p], n)
              IN  \/ Completed(u) = <<>> /\ Keep(u)
                  \/ Completed(u) # <<>> /\ Completed(u)[1] = Packet(0) /\ Authenticate(u)
                  \/ Drop
  BY <1>3 DEF Advance, Reads, Chunk, Unread, Taken, Rest
<1>8. CASE wire' = wire /\ (Drop \/ Keep(f))
  <2>1. Advanced
    BY <1>1, <1>5, <1>8 DEF Advanced
  <2>2. wire'[Jvm] = wire[Jvm] /\ UNCHANGED <<aborted, sent>>
    BY <1>1, <1>8
  <2>3. p = Jvm => InStep(f, 0)'
    BY <1>4, <2>2, InStepKept
  <2> QED
    BY <1>3, <1>4, <1>5, <1>8, <2>1, <2>3, KeepStep, DropStep
<1>9. ASSUME NEW n \in 1..Len(wire[p]), n <= HandshakeRead,
             wire' = [wire EXCEPT ![p] = Rest(wire[p], n)],
             LET u == Taken(f, wire[p], n)
             IN  \/ Completed(u) = <<>> /\ Keep(u)
                 \/ Completed(u) # <<>> /\ Completed(u)[1] = Packet(0) /\ Authenticate(u)
                 \/ Drop
      PROVE  ChannelInv'
  <2>1. PICK w, u : w = wire[p] /\ u = Taken(f, wire[p], n)
    OBVIOUS
  <2>2. w \in Seq(Units) /\ Len(w) \in Nat /\ n \in 0..Len(w)
    <3>1. w \in Seq(Units)
      BY <1>4, <1>5, <2>1
    <3>2. Len(w) \in Nat
      BY <3>1, LenProperties
    <3> QED
      BY <2>1, <3>1, <3>2
  <2>3. /\ SubSeq(w, 1, n) \in Seq(Units) /\ Len(SubSeq(w, 1, n)) = n
        /\ \A k \in 1..n : SubSeq(w, 1, n)[k] = w[k]
        /\ Rest(w, n) \in Seq(Units) /\ Len(Rest(w, n)) = Len(w) - n
        /\ \A k \in 1..(Len(w) - n) : Rest(w, n)[k] = w[n + k]
    BY <2>2, Split DEF Rest
  <2>4. /\ u \in Seq(Units) /\ DOMAIN u = 1..(Len(f) + n)
        /\ \A k \in 1..Len(f) : u[k] = f[k]
        /\ \A k \in 1..n : u[Len(f) + k] = w[k]
    BY <1>4, <2>1, <2>3, Joined DEF Taken
  <2>5. /\ wire' \in [Peers -> Seq(Units)] /\ wire'[p] = Rest(w, n)
        /\ \A q \in Peers : q # p => wire'[q] = wire[q]
    BY <1>4, <1>5, <1>9, <2>1, <2>3
  <2>6. p \in Strangers => /\ \A k \in DOMAIN u : u[k] = Bad
                           /\ \A k \in DOMAIN Rest(w, n) : Rest(w, n)[k] = Bad
    <3> SUFFICES ASSUME p \in Strangers
                 PROVE  /\ \A k \in DOMAIN u : u[k] = Bad
                        /\ \A k \in DOMAIN Rest(w, n) : Rest(w, n)[k] = Bad
      OBVIOUS
    <3>1. \A k \in 1..Len(w) : w[k] = Bad
      BY <1>5, <2>1, <2>2, LenProperties
    <3>2. Len(f) \in Nat /\ \A k \in 1..Len(f) : f[k] = Bad
      BY <1>4, <1>5, LenProperties
    <3>3. ASSUME NEW k \in 1..(Len(f) + n)
          PROVE  u[k] = Bad
      <4>1. k \in 1..Len(f) \/ (k - Len(f) \in 1..n /\ k - Len(f) \in 1..Len(w) /\ Len(f) + (k - Len(f)) = k)
        BY <2>2, <3>2
      <4> QED
        BY <2>4, <3>1, <3>2, <4>1
    <3>4. DOMAIN Rest(w, n) = 1..(Len(w) - n)
      BY <2>3, LenProperties
    <3>5. ASSUME NEW k \in 1..(Len(w) - n)
          PROVE  Rest(w, n)[k] = Bad
      <4>1. n + k \in 1..Len(w)
        BY <2>2
      <4> QED
        BY <2>3, <3>1, <4>1
    <3> QED
      BY <2>4, <3>3, <3>4, <3>5
  <2>7. Advanced
    <3>1. \A q \in Strangers : \A k \in DOMAIN wire'[q] : wire'[q][k] = Bad
      BY <1>5, <1>6, <2>5, <2>6
    <3>2. p # Jvm => wire'[Jvm] = wire[Jvm]
      BY <1>6, <2>5
    <3> QED
      BY <1>1, <1>3, <2>5, <3>1, <3>2 DEF Advanced
  <2>8. CASE Completed(u) = <<>> /\ Keep(u)
    <3>1. Len(u) < 2 /\ Leftover(u) = u
      BY <2>4, <2>8, FirstPacket
    <3>2. ASSUME p = Jvm
          PROVE  InStep(u, 0)'
      <4>1. Stream(f \o w, 0) /\ (Jvm \notin aborted => 2 * 0 + Len(f) + Len(w) = 2 * sent)
        BY <1>4, <2>1, <3>2 DEF InStep
      <4>2. PICK d \in Nat : ReadsOn(f, w, 0, n, d)
        BY <1>4, <2>2, <4>1, Reading
      <4>3. /\ d = 0
            /\ Stream(u \o Rest(w, n), 0 + d)
            /\ 2 * d + Len(u) + Len(Rest(w, n)) = Len(f) + Len(w)
        <5>1. Taken(f, w, n) = u
          BY <2>1
        <5>2. Len(Completed(u)) = d
          BY <4>2, <5>1 DEF ReadsOn
        <5>3. d = 0
          BY <2>8, <5>2
        <5> QED
          BY <3>1, <4>2, <5>1, <5>3 DEF ReadsOn
      <4>4. wire'[Jvm] = Rest(w, n) /\ aborted' = aborted /\ sent' = sent
        BY <1>1, <2>5, <3>2
      <4>5. Stream(u \o Rest(w, n), 0)
        BY <4>3
      <4>6. Jvm \notin aborted => 2 * 0 + Len(u) + Len(Rest(w, n)) = 2 * sent
        <5>1. Len(f) \in Nat
          BY <1>4, LenProperties
        <5>2. 2 * 0 + Len(f) + Len(w) = Len(f) + Len(w)
          BY <2>2, <5>1
        <5> QED
          BY <4>1, <4>3, <5>2
      <4> QED
        BY <4>4, <4>5, <4>6 DEF InStep, Stream
    <3> QED
      BY <1>3, <2>4, <2>6, <2>7, <2>8, <3>1, <3>2, KeepStep
  <2>9. CASE Completed(u) # <<>> /\ Completed(u)[1] = Packet(0) /\ Authenticate(u)
    <3>1. p = Jvm
      BY <1>4, <2>4, <2>6, <2>9, FirstPacket
    <3> QED
      BY <1>3, <1>9, <2>1, <2>7, <2>9, <3>1, AuthenticateStep
  <2>10. CASE Drop
    BY <2>7, <2>10, DropStep
  <2> QED
    BY <1>9, <2>1, <2>8, <2>9, <2>10
<1> QED
  BY <1>7, <1>8, <1>9

-----------------------------------------------------------------------------
(* The theorems.                                                           *)

\* Nobody has connected.
LEMMA ChannelInit == Init => ChannelInv
<1> SUFFICES ASSUME Init PROVE ChannelInv
  OBVIOUS
<1>1. /\ <<>> \in Seq(Units) /\ <<>> \in Seq(Items) /\ <<>> \in Seq(Peers) /\ <<>> \in Seq(Handshakes)
      /\ Len(<<>>) = 0 /\ DOMAIN <<>> = {}
  BY EmptySeq
<1>2. Types
  <2>1. 0 \in 0..(MaxPackets + 1) /\ 0 <= MaxPending /\ 0 <= QueueCapacity
    BY ChannelAssumption
  <2> QED
    BY <1>1, <2>1 DEF Init, Types
<1>3. Places /\ ServedOnce /\ Ordered /\ Swept
  BY <1>1, ChannelAssumption DEF Init, Places, ServedOnce, Ordered, Swept, Peers
<1>4. polled \in BOOLEAN
  BY Zenon DEF Init
<1>5. NoKey
  BY <1>1 DEF Init, NoKey, Peers
<1>6. StreamInv
  <2>1. wire[Jvm] = <<>> /\ <<>> \o wire[Jvm] = <<>>
    BY <1>1 DEF Init, Peers
  <2>2. InStep(<<>>, 0)
    <3>1. Stream(<<>> \o wire[Jvm], 0)
      BY <1>1, <2>1 DEF Stream
    <3>2. 2 * 0 + 0 + 0 = 2 * 0
      OBVIOUS
    <3>3. 2 * 0 + Len(<<>>) + Len(wire[Jvm]) = 2 * sent
      BY <1>1, <2>1, <3>2 DEF Init
    <3> QED
      BY <3>1, <3>3 DEF InStep
  <2>3. conn # Jvm /\ DOMAIN pending = {}
    BY <1>1, ChannelAssumption DEF Init, Peers
  <2> QED
    BY <2>2, <2>3 DEF StreamInv
<1> QED
  BY <1>2, <1>3, <1>4, <1>5, <1>6 DEF ChannelInv

\* No step of the peers, the listener, the reader or the event loop breaks it.
LEMMA ChannelStep == ChannelInv /\ [Next]_vars => ChannelInv'
<1> SUFFICES ASSUME ChannelInv, [Next]_vars PROVE ChannelInv'
  OBVIOUS
<1>1. ASSUME NEW p \in Peers, Dial(p) \/ Close(p) \/ Abort(p) PROVE ChannelInv'
  BY <1>1, DialStep, CloseStep, AbortStep
<1>2. CASE JvmWrites
  BY <1>2, JvmWritesStep
<1>3. ASSUME NEW p \in Strangers, StrangerWrites(p) PROVE ChannelInv'
  BY <1>3, StrangerStep
<1>4. CASE Poll
  BY <1>4, PollStep
<1>5. CASE Advance
  BY <1>5, AdvanceStep
<1>6. CASE EndOfSweep
  BY <1>6, EndOfSweepStep
<1>7. CASE Elapse
  BY <1>7, ElapseStep
<1>8. CASE ReaderReads
  BY <1>8, ReaderReadsStep
<1>9. CASE ReaderPushes
  BY <1>9, ReaderPushesStep
<1>10. CASE ReaderEnds
  BY <1>10, ReaderEndsStep
<1>11. CASE Receive
  BY <1>11, ReceiveStep
<1>12. CASE SendFails
  BY <1>12, SendFailsStep
<1>13. CASE UNCHANGED vars
  <2>1. /\ UNCHANGED <<dialled, closed, aborted, wire, sent, backlog, pending, sweep, polled>>
        /\ UNCHANGED <<conn, framer, outbox, reader, queue, handled, due, examined>>
    BY <1>13 DEF vars, peerVars, listener, connection, history
  <2>2. Types' /\ Places' /\ ServedOnce' /\ NoKey' /\ Swept' /\ (polled \in BOOLEAN)'
    BY <2>1 DEF ChannelInv, Types, Places, ServedOnce, NoKey, Swept
  <2>3. Ordered'
    BY <2>1 DEF ChannelInv, Ordered, Final
  <2>4. StreamInv'
    BY <2>1 DEF ChannelInv, StreamInv, Waits, InStep, Stream, Decoded
  <2> QED
    BY <2>2, <2>3, <2>4 DEF ChannelInv
<1> QED
  BY <1>1, <1>2, <1>3, <1>4, <1>5, <1>6, <1>7, <1>8, <1>9, <1>10, <1>11, <1>12, <1>13 DEF Next

\* The invariant holds in every reachable state.
LEMMA ChannelInvariant == Spec => []ChannelInv
<1>1. Spec => Init /\ [][Next]_vars
  BY PTL DEF Spec
<1> QED
  BY <1>1, ChannelInit, ChannelStep, PTL

\* Every variable keeps its type; the list of pending handshakes and the queue
\* of Connection stay within their capacities, the queue also when a handshake
\* hands over all that arrived with the key.
THEOREM ChannelTypeCorrect == Spec => []TypeOK
<1>1. ASSUME ChannelInv PROVE TypeOK
  <2>1. /\ Len(pending) \in Nat /\ DOMAIN pending = 1..Len(pending)
        /\ \A k \in 1..Len(pending) : pending[k] \in Handshakes
    BY <1>1, Counts DEF ChannelInv
  <2>2. \A i \in DOMAIN pending :
          /\ pending[i].peer \in Peers
          /\ Len(pending[i].framer) < 2
          /\ pending[i].left \in 0..HandshakeTimeout
    BY <2>1 DEF Handshakes
  <2>3. sweep \in 0..(MaxPending + 1)
    BY <1>1, <2>1, ChannelAssumption DEF ChannelInv, Types
  <2> QED
    BY <1>1, <2>2, <2>3 DEF ChannelInv, Types, TypeOK, Units
<1> QED
  BY <1>1, ChannelInvariant, PTL

\* The event loop receives what the JVM wrote after its key, in its order,
\* nothing lost, doubled or cut in two, wherever the reads of advance_handshake
\* and reader_loop end and however often the queue is full.
THEOREM PacketsStayInOrder == Spec => []PacketsInOrder
<1>1. ASSUME ChannelInv PROVE PacketsInOrder
  BY <1>1 DEF ChannelInv, Ordered, PacketsInOrder
<1> QED
  BY <1>1, ChannelInvariant, PTL

\* When the event loop receives Disconnected it has received every packet the
\* JVM wrote, unless the connection was reset.
THEOREM DisconnectComesLast == Spec => []ClosedMeansComplete
<1>1. ASSUME ChannelInv PROVE ClosedMeansComplete
  <2> SUFFICES ASSUME Jvm \notin aborted, handled # <<>>, handled[Len(handled)] = Disconnected
               PROVE  Len(handled) = sent
    BY DEF ClosedMeansComplete
  <2>1. Len(handled) \in Nat /\ Len(handled) # 0 /\ DOMAIN handled = 1..Len(handled)
    BY <1>1, Counts DEF ChannelInv
  <2>2. Len(handled) \in DOMAIN handled
    BY <2>1
  <2>3. Final(Len(handled))
    BY <1>1, <2>2, PacketIsNoEnd DEF ChannelInv, Ordered
  <2> QED
    BY <2>3 DEF Final
<1> QED
  BY <1>1, ChannelInvariant, PTL

\* Although swap_remove moves a handshake to the place of the removed one, a
\* sweep of poll_authentication that ends without a connection has advanced
\* each handshake, and none twice.
THEOREM SweepsAreFair == Spec => []SweepIsFair
<1>1. ASSUME ChannelInv PROVE SweepIsFair
  <2>1. Len(pending) \in Nat /\ DOMAIN pending = 1..Len(pending) /\ sweep \in 0..(Len(pending) + 1)
    BY <1>1, Counts DEF ChannelInv, Types
  <2>2. ASSUME sweep > 0, ~Sweeping PROVE examined = due
    <3>1. \A k \in 1..Len(pending) : ~(k >= sweep)
      BY <2>1, <2>2 DEF Sweeping
    <3> QED
      BY <1>1, <2>1, <2>2, <3>1 DEF ChannelInv, Swept
  <2>3. ASSUME Sweeping PROVE Current.peer \notin examined
    <3>1. sweep > 0 /\ sweep \in DOMAIN pending /\ sweep >= sweep
      BY <2>1, <2>3 DEF Sweeping
    <3> QED
      BY <1>1, <3>1 DEF ChannelInv, Swept, Current
  <2> QED
    BY <2>2, <2>3 DEF SweepIsFair
<1> QED
  BY <1>1, ChannelInvariant, PTL
=============================================================================
