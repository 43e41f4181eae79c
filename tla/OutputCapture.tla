---------------------------- MODULE OutputCapture ----------------------------
(***************************************************************************)
(* How the output of one JVM reaches the log (src/src/supervisor.rs):      *)
(* spawn_reader, one thread per pipe, cuts bytes into lines and sends them *)
(* through one bounded channel; the supervisor thread takes lines from it  *)
(* in batches, logs them and applies the output filters; when the          *)
(* invocation ends it logs what still comes, for a limited time.           *)
(*                                                                         *)
(* A process started by the JVM inherits its pipes and may write on after  *)
(* the JVM is gone.                                                        *)
(***************************************************************************)
EXTENDS OutputFilters, SequencesExt

CONSTANTS
  Streams,          \* stdout and stderr
  Scripts,          \* Scripts[s]: what the processes may write to stream s
  FilterSets,       \* the filter entries wrapper.conf may hold
  MaxOutputLine,    \* MAX_OUTPUT_LINE
  OutputBatch,      \* OUTPUT_BATCH
  QueueCapacity,    \* bound of the channel in capture_output (1024)
  PipeCapacity,     \* bytes a pipe and the BufReader on it hold
  PauseStops        \* wrapper.pausable and wrapper.pausable.stop_jvm

Byte == STRING
CR == "CR"
LF == "LF"

ASSUME OutputAssumption ==
  /\ MaxOutputLine \in Nat \ {0}
  /\ OutputBatch \in Nat
  /\ QueueCapacity \in Nat \ {0}
  /\ PipeCapacity \in Nat \ {0}
  /\ PauseStops \in BOOLEAN
  /\ \A s \in Streams : Scripts[s] \subseteq Seq(Byte)
  /\ FilterSets \subseteq
       Seq([trigger : Seq(Byte), wildcards : BOOLEAN, words : Seq(STRING)])

VARIABLES
  script,    \* bytes still to be written to each stream
  written,   \* history: bytes written so far
  pipe,      \* bytes in the pipe, the reader's buffer included
  line,      \* the reader's `line`
  reader,    \* "reading", "sending" a line, sending the "last" one, or "over"
  queue,     \* the channel of output lines
  child,     \* the JVM: "alive" or "exited"
  heir,      \* a process that inherited the pipes is alive
  filters,   \* the filters of the configuration
  loc,       \* where the supervisor thread is
  batch,     \* lines taken from the channel and not handled yet
  log,       \* the lines logged from each stream
  lost,      \* history: an ended batch was dropped with lines in it
  owed       \* history: how much the JVM had written when it exited

process == <<script, written, child, heir, owed>>
readers == <<pipe, line, reader>>
thread == <<loc, batch, log, lost>>
vars == <<process, readers, queue, filters, thread>>

Locations == {"loop", "collect", "batch", "waiting", "draining", "gone"}

-----------------------------------------------------------------------------
(* The processes.                                                          *)

\* A write blocks while the pipe is full and fails once the reader is gone.
Write(s) ==
  /\ child = "alive" \/ heir
  /\ script[s] # <<>>
  /\ reader[s] # "over"
  /\ Len(pipe[s]) < PipeCapacity
  /\ script' = [script EXCEPT ![s] = Tail(@)]
  /\ written' = [written EXCEPT ![s] = Append(@, Head(script[s]))]
  /\ pipe' = [pipe EXCEPT ![s] = Append(@, Head(script[s]))]
  /\ UNCHANGED <<line, reader, queue, child, heir, filters, thread, owed>>

ChildGone ==
  /\ child' = "exited"
  /\ owed' = [s \in Streams |-> Len(written[s])]

ChildExits ==
  /\ child = "alive"
  /\ ChildGone
  /\ UNCHANGED <<script, written, heir, readers, queue, filters, thread>>

HeirExits ==
  /\ heir
  /\ heir' = FALSE
  /\ UNCHANGED <<script, written, child, owed, readers, queue, filters, thread>>

-----------------------------------------------------------------------------
(* spawn_reader.                                                           *)

\* How many bytes of the buffer go to the line: up to a newline, and no more
\* than the line may still take.
Taken(s) ==
  LET newlines == {i \in DOMAIN pipe[s] : pipe[s][i] = LF}
      upto == Min(newlines \cup {Len(pipe[s])})
  IN Min({upto, Max({MaxOutputLine - Len(line[s]), 1})})

\* The end of line is not part of the line.
Stripped(bytes) ==
  IF Last(bytes) # LF THEN bytes
  ELSE LET text == Front(bytes) IN
         IF text # <<>> /\ Last(text) = CR THEN Front(text) ELSE text

LineEnds(bytes) == Last(bytes) = LF \/ Len(bytes) >= MaxOutputLine

Read(s) ==
  /\ reader[s] = "reading"
  /\ pipe[s] # <<>>
  /\ LET n == Taken(s)
         bytes == line[s] \o SubSeq(pipe[s], 1, n)
     IN /\ pipe' = [pipe EXCEPT ![s] = SubSeq(@, n + 1, Len(@))]
        /\ line' = [line EXCEPT ![s] = IF LineEnds(bytes) THEN Stripped(bytes)
                                                          ELSE bytes]
        /\ reader' = [reader EXCEPT ![s] = IF LineEnds(bytes) THEN "sending" ELSE @]
  /\ UNCHANGED <<process, queue, filters, thread>>

\* Every handle to the writing end is closed: what is left of a line is sent.
EndOfPipe(s) ==
  /\ reader[s] = "reading"
  /\ pipe[s] = <<>>
  /\ child = "exited" /\ ~heir
  /\ reader' = [reader EXCEPT ![s] = IF line[s] = <<>> THEN "over" ELSE "last"]
  /\ UNCHANGED <<process, pipe, line, queue, filters, thread>>

SendDropsSlip(s) ==
  /\ reader[s] \in {"sending", "last"}
  /\ queue' = IF Len(queue) < QueueCapacity
                THEN Append(queue, [stream |-> s, bytes |-> line[s]])
                ELSE queue
  /\ reader' = [reader EXCEPT ![s] = IF @ = "last" THEN "over" ELSE "reading"]
  /\ line' = [line EXCEPT ![s] = <<>>]
  /\ UNCHANGED <<process, pipe, filters, thread>>

SendRetriesSlip(s) ==
  /\ reader[s] \in {"sending", "last"}
  /\ IF loc = "gone"
       THEN UNCHANGED <<queue, line, reader>>
       ELSE /\ Len(queue) < QueueCapacity
            /\ queue' = Append(queue, [stream |-> s, bytes |-> line[s]])
            /\ line' = [line EXCEPT ![s] = <<>>]
            /\ reader' = [reader EXCEPT ![s] = IF @ = "last" THEN "over"
                                                             ELSE "reading"]
  /\ UNCHANGED <<process, pipe, filters, thread>>

\* `send` blocks while the channel is full; it fails, and the thread ends,
\* when the receiver was dropped with the invocation.
Send(s) ==
  /\ reader[s] \in {"sending", "last"}
  /\ IF loc = "gone"
       THEN /\ reader' = [reader EXCEPT ![s] = "over"]
            /\ UNCHANGED queue
       ELSE /\ Len(queue) < QueueCapacity
            /\ queue' = Append(queue, [stream |-> s, bytes |-> line[s]])
            /\ reader' = [reader EXCEPT ![s] = IF @ = "last" THEN "over"
                                                             ELSE "reading"]
  /\ line' = [line EXCEPT ![s] = <<>>]
  /\ UNCHANGED <<process, pipe, filters, thread>>

-----------------------------------------------------------------------------
(* The supervisor thread.                                                  *)

\* record_output: log the line and look it up in the filters.  The match is
\* kept beside the line for the properties.
Record(item) ==
  log' = [log EXCEPT ![item.stream] =
            Append(@, [bytes |-> item.bytes,
                       match |-> inspect_bytes(filters, item.bytes)])]

\* apply_filter_matches returns an outcome for the first of these actions; the
\* others leave the invocation running.
EndsInvocation(item) ==
  LET n == inspect_bytes(filters, item.bytes) IN
    /\ n # 0
    /\ \E i \in DOMAIN filters[n].actions :
         \/ filters[n].actions[i] \in {"RESTART", "SHUTDOWN"}
         \/ filters[n].actions[i] = "PAUSE" /\ PauseStops

\* shutdown_and_drain up to its first wait: the child is already gone, is asked
\* to stop, or cannot be asked and is killed.
Shutdown ==
  \/ /\ child = "exited" /\ loc' = "draining"
     /\ UNCHANGED process
  \/ /\ child = "alive" /\ loc' = "waiting"
     /\ UNCHANGED process
  \/ /\ child = "alive" /\ loc' = "draining"
     /\ ChildGone /\ UNCHANGED <<script, written, heir>>

\* handle_output_batch: the line that woke select! ...
FirstLine ==
  /\ loc = "loop"
  /\ queue # <<>>
  /\ Record(Head(queue))
  /\ queue' = Tail(queue)
  /\ IF EndsInvocation(Head(queue)) THEN Shutdown
     ELSE loc' = "collect" /\ UNCHANGED process
  /\ UNCHANGED <<readers, filters, batch, lost>>

\* ... then whatever else is in the channel, up to OUTPUT_BATCH lines ...
Collect ==
  /\ loc = "collect"
  /\ LET n == Min({Len(queue), OutputBatch}) IN
       /\ batch' = SubSeq(queue, 1, n)
       /\ queue' = SubSeq(queue, n + 1, Len(queue))
       /\ loc' = IF n = 0 THEN "loop" ELSE "batch"
  /\ UNCHANGED <<process, readers, filters, log, lost>>

\* ... one by one.  When a line ends the invocation the rest of the batch is
\* dropped: it is no longer in the channel that shutdown_and_drain empties.
BatchLine ==
  /\ loc = "batch"
  /\ Record(Head(batch))
  /\ IF EndsInvocation(Head(batch))
       THEN Shutdown /\ batch' = <<>> /\ lost' = (lost \/ Tail(batch) # <<>>)
       ELSE /\ batch' = Tail(batch)
            /\ loc' = IF batch' = <<>> THEN "loop" ELSE "batch"
            /\ UNCHANGED <<process, lost>>
  /\ UNCHANGED <<readers, queue, filters>>

\* A control, a packet or a deadline ends the invocation.
Stop ==
  /\ loc = "loop"
  /\ Shutdown
  /\ UNCHANGED <<readers, queue, filters, batch, log, lost>>

\* tick or wait_for_exit finds that the child has exited.
NoticeExit ==
  /\ loc \in {"loop", "waiting"}
  /\ child = "exited"
  /\ loc' = "draining"
  /\ UNCHANGED <<process, readers, queue, filters, batch, log, lost>>

\* The child does not stop in time and is terminated.
StopTimeout ==
  /\ loc = "waiting"
  /\ child = "alive"
  /\ ChildGone
  /\ loc' = "draining"
  /\ UNCHANGED <<script, written, heir, readers, queue, filters, batch, log, lost>>

\* wait_for_exit and drain_remaining_output log lines; filters match, but their
\* actions are not applied any more.
LastLines ==
  /\ loc \in {"waiting", "draining"}
  /\ queue # <<>>
  /\ Record(Head(queue))
  /\ queue' = Tail(queue)
  /\ UNCHANGED <<process, readers, filters, loc, batch, lost>>

DrainHastySlip ==
  /\ loc = "draining"
  /\ queue = <<>>
  /\ loc' = "gone"
  /\ UNCHANGED <<process, readers, queue, filters, batch, log, lost>>

DrainUntilClosedSlip ==
  /\ loc = "draining"
  /\ queue = <<>> /\ \A s \in Streams : reader[s] = "over"
  /\ loc' = "gone"
  /\ UNCHANGED <<process, readers, queue, filters, batch, log, lost>>

\* drain_remaining_output ends when the channel is closed, or when its deadline
\* is over and no line came for 25 ms.  A second is long against the steps of a
\* reader thread: by then each reader waits for a writer.  The invocation
\* ends with the drain and drops the receiver.
DrainEnds ==
  /\ loc = "draining"
  /\ queue = <<>>
  /\ \A s \in Streams : \/ reader[s] = "over"
                        \/ reader[s] = "reading" /\ pipe[s] = <<>> /\ heir
  /\ loc' = "gone"
  /\ UNCHANGED <<process, readers, queue, filters, batch, log, lost>>

-----------------------------------------------------------------------------
Init ==
  /\ script \in {f \in [Streams -> UNION {Scripts[s] : s \in Streams}] :
                   \A s \in Streams : f[s] \in Scripts[s]}
  /\ filters \in {from_config(entries) : entries \in FilterSets}
  /\ heir \in BOOLEAN
  /\ written = [s \in Streams |-> <<>>]
  /\ pipe = [s \in Streams |-> <<>>]
  /\ line = [s \in Streams |-> <<>>]
  /\ reader = [s \in Streams |-> "reading"]
  /\ queue = <<>>
  /\ child = "alive"
  /\ loc = "loop"
  /\ batch = <<>>
  /\ log = [s \in Streams |-> <<>>]
  /\ lost = FALSE
  /\ owed = [s \in Streams |-> 0]

ReaderStep(s) == Read(s) \/ EndOfPipe(s) \/ Send(s)

ThreadStep ==
  \/ FirstLine \/ Collect \/ BatchLine
  \/ NoticeExit \/ StopTimeout \/ LastLines \/ DrainEnds

\* The invocation is over and nobody writes any more.
Terminated ==
  /\ loc = "gone" /\ ~heir /\ \A s \in Streams : reader[s] = "over"
  /\ UNCHANGED vars

Next ==
  \/ \E s \in Streams : Write(s) \/ ReaderStep(s)
  \/ ChildExits \/ HeirExits
  \/ ThreadStep \/ Stop
  \/ Terminated

(***************************************************************************)
(* The readers and the supervisor are threads.  Each of the thread's steps *)
(* follows from the code it is in; select! takes a line of a channel that  *)
(* has one sooner or later.  Nobody has to write, stop or exit.            *)
(***************************************************************************)
Spec ==
  /\ Init
  /\ [][Next]_vars
  /\ \A s \in Streams : WF_vars(ReaderStep(s))
  /\ WF_vars(ThreadStep)

-----------------------------------------------------------------------------
(* Properties.                                                             *)

Line == [stream : Streams, bytes : Seq(Byte)]

\* Bytes, lines and queues keep their types; the channel, the batch and the
\* reader's memory keep their bounds (a missing newline never grows a line
\* beyond MAX_OUTPUT_LINE).
TypeOK ==
  /\ queue \in Seq(Line) /\ Len(queue) <= QueueCapacity
  /\ batch \in Seq(Line) /\ Len(batch) <= OutputBatch
  /\ child \in {"alive", "exited"}
  /\ {heir, lost} \subseteq BOOLEAN
  /\ loc \in Locations
  /\ \A s \in Streams :
       /\ reader[s] \in {"reading", "sending", "last", "over"}
       /\ line[s] \in Seq(Byte) /\ Len(line[s]) <= MaxOutputLine
       /\ Len(pipe[s]) <= PipeCapacity
       /\ owed[s] \in 0..Len(written[s])

Letters(bytes) == Pick(bytes, {i \in DOMAIN bytes : bytes[i] \notin {CR, LF}})
BytesOf(lines) == FlattenSeq([i \in DOMAIN lines |-> lines[i].bytes])
LineEndsAt(bytes) == {i \in DOMAIN bytes : bytes[i] = LF}
Of(s, lines) == Pick(lines, {i \in DOMAIN lines : lines[i].stream = s})

\* What a process wrote is somewhere on its way, in the order in which it was
\* written: in the log, the batch, the channel, the reader's line or the
\* pipe.  Two readers share the channel, reads cut lines anywhere and the
\* channel fills up; nothing but line ends may get lost, unless a filter ended
\* the invocation in the middle of a batch or the receiver is gone.
NothingIsLost ==
  ~lost /\ loc # "gone" =>
    \A s \in Streams :
      Letters(written[s]) =
        Letters(BytesOf(log[s]) \o BytesOf(Of(s, batch)) \o BytesOf(Of(s, queue))
                  \o line[s] \o pipe[s])

\* When an invocation is over, all that its JVM wrote before it exited is in the
\* log.  If another process still holds the pipe open this is true of complete
\* lines: the reader waits for the end of an unfinished one.
ExitedJvmIsLogged ==
  [][loc # "gone" /\ loc' = "gone" /\ ~lost =>
       \A s \in Streams :
         LET output == SubSeq(written[s], 1, owed[s])
             complete == SubSeq(output, 1, Max({0} \cup LineEndsAt(output)))
         IN IsPrefix(Letters(IF heir THEN complete ELSE output),
                     Letters(BytesOf(log[s])))]_vars

\* The text between two line ends, as a reader of the output would count it.
TextBefore(bytes, n) ==
  LET start == Max({0} \cup {i \in LineEndsAt(bytes) : i < n})
      text == SubSeq(bytes, start + 1, n - 1)
  IN IF text # <<>> /\ Last(text) = CR THEN Front(text) ELSE text

\* A stream whose lines all fit, with their line ends, in MAX_OUTPUT_LINE is
\* logged line by line: the k-th record is the text before the k-th line end.
LinesAreRecords ==
  ~lost =>
    \A s \in Streams : \A n \in LineEndsAt(written[s]) :
      LET upto == SubSeq(written[s], 1, n)
          ends == LineEndsAt(upto)
          k == Cardinality(ends)
          fits == \A i \in ends : i - Max({0} \cup {j \in ends : j < i}) <= MaxOutputLine
      IN fits /\ Len(log[s]) >= k => log[s][k].bytes = TextBefore(upto, n)

\* The log keeps what the processes print: nothing is lost, doubled or moved on
\* the way through pipe, line, channel and batch, and records are lines.
OutputIsKept == NothingIsLost /\ LinesAreRecords

\* The actions taken for a line are those of the filter with the lowest number
\* whose trigger occurs in the line.
FirstMatchWins ==
  \A s \in Streams : log[s] # <<>> =>
    LET record == Last(log[s])
        means(i) == Means(record.bytes, filters[i])
    IN IF record.match = 0 THEN \A i \in DOMAIN filters : ~means(i)
       ELSE /\ means(record.match)
            /\ \A i \in 1..(record.match - 1) : ~means(i)

\* A process that has filled the pipe can go on: the readers and the channel
\* keep moving while the invocation lasts, also during a stop and a drain.
\* After it the pipe is closed and the write fails.
WritersAreNotStuck ==
  \A s \in Streams :
    (Len(pipe[s]) = PipeCapacity)
       ~> (Len(pipe[s]) < PipeCapacity \/ reader[s] = "over")

\* An invocation that is to end does end, whatever was printed: the waits of a
\* stop and the drain come to their end although another process holds the
\* pipe.
DrainComesToAnEnd == (loc \in {"waiting", "draining"}) ~> (loc = "gone")

=============================================================================
