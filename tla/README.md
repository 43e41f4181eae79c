# Java Service Steward in TLA+

Java Service Steward runs a Java application as a Windows service or a console
program. One executable (Rust, `src/src/`) launches the JVM, watches it over a
loopback control channel, restarts, pauses and stops it, writes its output to a
rotated log and answers the Windows Service Control Manager (SCM). A small JAR
in the JVM (Java, `src/java/bridge/`) is the other end of the channel.

This directory holds the models of that system, the TLC configurations that
check them on small instances, and TLAPS proofs about thirteen of its modules.
`PROJECT.json` maps every definition to the lines it models and lists runs,
mutants, hazards, findings and theorems.

## 1. Inventory

| Component | State it keeps | Operations | What is hard | What makes it correct |
|---|---|---|---|---|
| **Supervisor thread** (`supervisor.rs`: `Supervisor::run`, `JvmRun::event_loop`) | `jvm_id`, `failed_invocations`, `resuming`, outcome, child, connection, `started`, `paused_in_place` | launch, restart policy, controls, filter actions, packets, tick, shutdown | `select!` picks among ready sources at random; a shutdown, a dump or a delay blocks the thread; any log write may fail | one JVM at a time; restarts throttled; a stop is final and is served from every wait |
| **Watchdog** (`JvmRun::tick`, `shutdown_and_drain`, `heap_dump.rs`, `thread_dump.rs`) | `last_ping_response`, `next_ping`, `startup_deadline`, heap-dump task | ping, deadlines, thread dump on the thread, heap dump on a worker, waits of a stop | deadlines race answers that are already queued; a dump suspends both watchdogs | a JVM that answers is kept, a lost one is found, a stop ends within the hint |
| **Service worker** (`service.rs`: `run_service_worker`) | the status reported to the SCM, accepted controls | control handler, status reporter, worker | three threads write one status; bounded queues that drop | the status agrees with the supervisor once things are quiet; Stopped is last |
| **Control channel** (`protocol.rs`) | pending handshakes, framer, bounded queue | accept, handshake, read, queue, drop | split reads, strangers on the port, full queue, close against reset | packets whole, in order, none lost on an orderly close |
| **Log rotation** (`logging.rs`: `LogWriter`, `rotate`) | active file, archives, `current_size` | open, write, roll for a JVM restart | a crash or error between two file operations, changed settings | chronological archives, only the oldest lost |
| **Java bridge** (`BackendClient`, `Steward`, launchers) | four atomic flags, threads, socket | connect, start, stop, controls, shutdown hook | five threads and several `System.exit` calls race to the end of the JVM | the exit code the policy sees is the deserved one; stop and lost channel end the JVM |
| **Output capture** (`capture_output`, `spawn_reader`, `handle_output_batch`, `drain_remaining_output`) | the reader's line, the bounded channel, the batch | read, cut into lines, send, log, drain | back-pressure from the log to the application; other processes hold the pipe | what is printed is logged in order, nobody hangs, a drain ends |
| **Output filters** (`logging.rs`: `Filters`) | triggers and actions | match a line | a matcher that backtracks | the first trigger that occurs decides |
| **Configuration** (`config.rs`: `Loader`) | properties, environment, locks, include stack | read files, expand, include, override | every line changes what later lines mean | the loaded values are the ones the text describes, overrides win |
| **JVM command line** (`jvm.rs`) | none | build arguments, choose the main class | quoting rules of Windows | the arguments are the configured ones |
| **Service commands** (`service.rs`: `execute_command`; `cli.rs`, `main.rs`) | the SCM's record of the service | parse, install, start, stop, remove, pause, resume, notify, query | look, ask and poll are separate calls; two operators | a success reported by stop and remove is true; the stored image starts the same service |
| **PID files** (`OwnedPidFile`) | contents written | strict check, create, update, drop | several wrappers, no locks, failed writes | no stale file of a wrapper that ended in order |
| Diagnostics tools, process helpers, log formatting, errors, scripts | see `PROJECT.json` | | | partly modelled or left out, section 7 |

Interactions. The supervisor thread takes controls from a bounded channel that
the SCM handler and the console handler fill with `try_send`, output lines from
reader threads, packets from the connection's reader thread, and a 50 ms ticker.
It publishes lossy telemetry events; the status reporter turns three kinds of
them into SCM states. It writes packets to the bridge's control thread, which
calls the application back. The log writer is called from the supervisor thread
only, so its errors end the run.

## 2. Modules

| Module | Extends | Models |
|---|---|---|
| `Supervisor` | | the supervisor thread with the child, its channel, and the senders of controls; time is abstract (a deadline may expire whenever it is checked) |
| `...Proofs` | the modules, `TLAPS` | theorems and proofs: `ServiceHostProofs` about `Supervisor` and `ServiceHost`, `ServiceCommandsProofs` (with the command line), `WatchdogProofs`, `ControlChannelProofs`, `BridgeProofs`, `FilesProofs` about `LogRotation` and `PidFiles`, `OutputCaptureProofs` (with the filters), `ConfigurationProofs` (with `JvmCommand`) |
| `ServiceStatus` | | abstract: what a worker promises the SCM and the commands, as states and steps of one status |
| `ServiceHost` | `Supervisor`; instance of `ServiceStatus` | composes the supervisor with the SCM handler, the status reporter and the worker's end; shown to implement `ServiceStatus` |
| `Subsequences` | | `Iterator::filter` on sequences, in a form proofs can expand |
| `CommandLine` | `Subsequences` | `Cli::parse` and `installed_launch_arguments` on lists of arguments |
| `ServiceCommands` | `CommandLine`; instance of `ServiceStatus` | the commands of several operators, one SCM call per step, against any worker of `ServiceStatus` |
| `Watchdog` | | one invocation with clocks, both watchdogs and all waits of a stop |
| `ControlChannel` | | listener, handshakes, framer, reader thread, queue |
| `LogRotation` | | `LogWriter` and `rotate`, one file operation per step |
| `Bridge` | | one JVM with its threads, flags, hook and exits, and the wrapper reduced to what decides the outcome |
| `OutputFilters` | `Subsequences` | `Filters::from_config` and the matching of triggers |
| `OutputCapture` | `OutputFilters` | the output of one invocation from the writers to the log |
| `Configuration` | | `Loader` line by line, `numbered`, the PROPERTIES packet and its decoding in the bridge |
| `JvmCommand` | `Configuration` | `JvmCommand::build` on the loaded configuration |
| `PidFiles` | | `OwnedPidFile` for several wrappers on one configuration |
| `MC...` | the module | constants for TLC |

Definitions named `...Slip` are deliberate mistakes: what a definition would be
after a plausible error in the code. `PROJECT.json` pairs each property with the
slip that breaks it, so no property holds for want of content.

### How state and actions correspond to the code

* `Supervisor`: `pc` is the place in `run`/`event_loop` (`starting`, waits,
  `launch`, `running`, `dumping`, the waits of a shutdown, `resolve`,
  `returned`); one action per arm of `select!` (`HandleControl`,
  `HandleOutput`, `HandleProtocol`, `Tick`), per wait, and per arm of the match
  on `RunOutcome` (`ResolveExit`, `ApplyStop`, `ApplyPause`, `ApplyRestart`).
  Operators named after functions (`on_exit_action`, `terminate_child`,
  `ShutdownAndDrain`, `MarkDisconnected`, `Sends`) are shared by the handlers.
  `IoError` is a failed log write or process query at any point, `?` in the
  code. The properties of `wrapper.conf` are the record `config`.
* `ServiceHost`: `HandlerReports` and `HandlerPosts` are the two steps of the
  handler, because the supervisor runs between them; `Report` is the reporter;
  `Finish` joins it and reports Stopped.
* `Watchdog`: `Instant`s become clocks; `Elapse` advances them only when no
  source of the event loop is ready, since a unit of time is long against the
  ticker. `loc` is the running loop, a blocking dump, or a wait of
  `shutdown_and_drain`.
* `ControlChannel`: a packet is two units on the wire so that a read can end
  inside it. `Poll`, `Advance`, `EndOfSweep` are `poll_authentication`;
  `Advance` is `advance_handshake` whole. `Abort` is a reset.
* `LogRotation`: a record is its number, a file a sequence of records.
  `RotateRemove`, `RotateShift`, `RotateActive` are the calls of `rotate`;
  `Crash` and `Fail` may come between any two.
* `Bridge`: a variable per thread; `flags` is the set of `AtomicBoolean`s that
  are set; `SystemExit` is the call of that name, where Java 8 lets a call
  replace the code of a shutdown that began because no thread was left. `Room`
  is what the socket buffers and the queue hold before `send` blocks.
* `ServiceStatus` to `ServiceHost`: the control the handler has been given and
  has not yet shown as pending is `taken`; everything the supervisor does
  between two reports is a stutter. `ServiceCommands` uses the same module the
  other way round: its worker may do anything `ServiceStatus` allows, so what is
  checked there holds of `ServiceHost`.
* `ServiceCommands`: `op` holds for each operator the parsed command line, the
  step it is at and the result. `Open`, `Look`, `AskControl`, `ControlReturns`,
  `Poll`, `Delete`, `QueryStatus`, `QueryConfig` are the SCM calls of `start`,
  `stop`, `remove`, `notify`, `query` and `wait_for_state`. The SCM (which
  controls it refuses, deletion of a marked service with its last handle) is
  external. `CallFails` is a failure of any of these calls, `?` in the code; `Open`
  has its own, because `query` takes a failed `open_service` for an absent service.
* `OutputCapture`: `Read`, `EndOfPipe`, `Send` are the loop of `spawn_reader`;
  `FirstLine`, `Collect`, `BatchLine` are `handle_output_batch`; `LastLines` and
  `DrainEnds` the waits and `drain_remaining_output`. A pipe is a bounded queue
  of bytes, `heir` a process that inherited it.
* `Configuration`: `stack` is `include_stack` with the next line of each file.
  A value is a sequence of characters in which `%NAME%` is one, so expansion,
  trimming, comments and tab doubling are modelled by what they do.
* `JvmCommand`: the loops of `parse_legacy_windows_fragment` are recursive
  functions of the cursor; what the classpath holds is a choice at each launch.
* `PidFiles`: check, write, read and remove are separate steps of each wrapper,
  and each may fail; `Drop` goes on without a word then (`DropFails`). `writer`
  and `stuck`, the files their writer could not drop, are history variables.

## 3. Runs

| Run | Shows |
|---|---|
| `supervisor` | over four configurations and with I/O errors everywhere: `OneJvm`, `Throttled`, `DisabledRestarts`, `StopIsFinal`; `StopIsServed`: a stop in the channel ends the run from wherever the thread is; `ExitIsNoticed` |
| `supervisor_handshake` (violation) | a JVM that hangs up between its key and the four handshake packets ends the wrapper, where help.txt promises the restart policy |
| `service_host` | `ImplementsStatus`: with its three threads and late events the worker is one of `ServiceStatus`; `UpIsNotReportedDown`, `StopReachesStopped` |
| `service_host_pause_on_exit` (violation) | a service paused by `on_exit=PAUSE` is not shown as Paused, because that path announces nothing: the SCM stays at StartPending, or at Running where the JVM had reported its start |
| `watchdog` | `WatchdogIsPatient`, `LostJvmIsFound`, `HeapDumpIsWaitedFor` (a JVM frozen by its heap dump gets both timeouts), `StartupVerdictIsTrue`; `StopsWithinHint`: the hint plus the thread dumps it leaves out bounds every stop, and the bound is tight |
| `control_channel` | `PacketsInOrder`, `ClosedMeansComplete`, `SweepIsFair`, `EveryHandshakeEnds`, `AllIsReceived` with a stranger, a full handshake list, a full queue and resets |
| `log_rotation` | `Chronological` and `UnlimitedKeepsAll` also when mode and maxfiles change between starts; `OnlyOldestIsLost` and `WithinLimits` while they stay |
| `bridge` | `CleanVerdictIsEarned`, `AskedCodeIsForwarded`, `NormalExitIsClean`, `StopIsHonoured`, `LostChannelEndsJvm` for every launcher, with and without the hook; callbacks return, throw, or end the control thread with an `Error` |
| `output` | `OutputIsKept`, `FirstMatchWins`, `ExitedJvmIsLogged`, `WritersAreNotStuck`, `DrainComesToAnEnd` |
| `configuration` | `LoadedAsWritten` (bounded nesting, overrides win, `set.` means the variable, includes are textual), `VariablesChangeBySet`, `PacketKeepsProperties`, `CommandAsConfigured` (fragments against the Windows rules stated without a cursor, two kinds of text excepted) |
| `service_commands` | `StopAndMaskAnswers`: stop and remove never call a running service stopped, the query mask is no error code, whichever calls of the SCM fail; `ImageRunsTheService` |
| `pid_files` | `NoFileOutlivesItsWriter`, with kills and failed writes, reads and removes |

A module's `TypeOK` (`PidTypeOK` in `PidFiles`) describes its state; it is proved
for `Supervisor`, `Bridge`, `Watchdog`, `LogRotation`, `ControlChannel`,
`ServiceCommands`, `OutputCapture` and `PidFiles`.

Some disagreements with documents are not runs but are recorded with their
hazards in `PROJECT.json`, and the properties say where they except them:

* An exit code returned by `listener.start` can lose a race against the exit of
  its own JVM (`AskedCodeIsForwarded`).
* A jcmd that hangs until its timeout blocks the event loop as long as the ping
  timeout lasts, both 30 seconds by default, and costs a JVM that answers every
  ping its life; `docs/diagnostics.md` says only the request fails
  (`WatchdogIsPatient`, `HeapDumpIsWaitedFor`).
* The stop hint leaves jcmd's time out (`StopsWithinHint`).
* A filter that ends the invocation drops the rest of its batch
  (`NothingIsLost`, `ExitedJvmIsLogged`).
* An `Error` out of a callback of the listener ends the bridge's control thread
  without a word: a lost channel no longer ends the JVM, and a stop is left to
  `wrapper.shutdown.timeout` (`LostChannelEndsJvm`, `StopIsHonoured`).
* A quote doubled inside a quoted part of a fragment, one quote to Windows, is
  lost, and an argument of backslashes alone is dropped
  (`FragmentsFollowWindows`).
* `query` takes every failure of `open_service` for an absent service and returns
  0 (`StopAndMaskAnswers`).
* `Drop` says nothing of a PID file it cannot read or remove, and the file stays
  (`NoFileOutlivesItsWriter`).

## 4. Bounds

Every bound is a constant. The theorems of section 6 hold for every value the
assumptions allow; the bounds below are those of the runs, and what they limit
for good are the properties that are only model-checked. The ones that matter:

* `Supervisor`: four configurations chosen so that each setting the thread
  reads takes both values somewhere (also `max_failed=0`, which the code raises
  to 1); `MaxJvmId = 3` lets the throttle count to its limit and makes
  `saturating_add` saturate; the control channel holds one entry here and two in
  `ServiceHost`.
* `ServiceHost`: two controls in one behaviour are the least that can overtake
  each other. One configuration stops the JVM to pause and restarts it, the other
  pauses in place and has restarts disabled, which keeps the instance small.
  `MaxRequests <= ControlCapacity`, because a full channel does lose a stop (a
  hazard, not a property).
* `Watchdog`: times of one to three units keep the interval below the timeout.
  The jcmd timeout is the ping timeout, as by default, and the dump may be asked
  for, or hang, at any moment.
  `MCWatchdog` assumes that no clock saturates below a bound it is compared with.
* `ControlChannel`: the JVM and a stranger against a list of two; a queue
  shorter than what the JVM sends.
* `LogRotation`: `MCLogRotation` assumes more records than all files hold, so
  that the oldest is deleted; `MaxIndex` stands for `u32::MAX` and is reached.
* `Bridge`: `Room = 2` is less than an application sends, so writes block;
  `StopIsHonoured` excuses a JVM that has filled the channel, since
  `wait_for_exit` takes no packets, and with `LostChannelEndsJvm` one whose
  control thread an `Error` of the listener has ended. `MaxAsks = 1` is one packet the application
  sends of its own accord, besides what start and stop send.
* `OutputCapture`: pipe, channel and batch hold two items and a line three
  bytes, less than the scripts write, so every queue fills and lines are cut,
  also between CR and LF. Scripts are finite: a writer that never pauses keeps a
  drain from ending, which is a hazard and not covered.
* `Configuration`: every root file of three lines over eleven kinds, three
  contents of an included file, two environments, four command lines;
  `MaxIncludeDepth = 2` is reached and exceeded. Fragments are all texts of up
  to five characters over a letter, a blank, a quote and a backslash.
* `ServiceCommands`: two operators with three commands each (say install, start,
  stop against start, remove, install); operators are symmetric. A poll that
  times out may do so at any moment, and any call may fail.
* `PidFiles`: three wrappers, two JVMs each, symmetric; the file of one can be
  overwritten by the second and removed by the third.

## 5. Fairness

* Supervisor: weak fairness for the thread's steps, all of whose waits have a
  timer except `wait_while_paused`; strong fairness for taking a control and for
  the ticker, because `select!` picks ready sources at random, so that none is
  passed over for ever while dumps keep taking the thread out of the loop and
  back, and because a delay begins with a receive. Nothing is assumed of the JVM or of the senders.
* Service host: the handler and reporter threads never block (weak fairness).
* Control channel: the ticker polls while there is no connection, the reader is
  a thread, time passes; peers owe nothing.
* Bridge: weak fairness for the control thread, the shutdown sequence and the
  wrapper's event loop; the callbacks `listener.stop` and `stopMain` are assumed
  to return or to throw, and with `waitForStopThreads` the application's thread to end. No
  fairness for the wrapper's kill, so that `StopIsHonoured` cannot lean on it.
* Output: weak fairness for each reader thread and for the supervisor thread.
  The drain's deadline is a second, long against the steps of a reader, so it is
  modelled as passing only when the readers wait for a writer; nobody has to
  write, stop or exit.
* `Configuration`, `ServiceCommands`, `PidFiles`: safety only.

## 6. What is proved

Every theorem holds for all values of the constants that the named assumptions
of its module allow. TLC evaluates the assumptions in the runs.

| Module | Theorem | Property | Kind |
|---|---|---|---|
| `ServiceHostProofs` | `TypeCorrect` | `TypeOK` | invariant |
| | `AtMostOneJvm` | `OneJvm` | invariant |
| | `RestartsAreThrottled` | `Throttled` | invariant |
| | `InvocationsAreNumbered` | `JvmIdCountsLaunches` | invariant |
| | `RestartsStayDisabled` | `DisabledRestarts` | invariant |
| | `StopStaysFinal` | `StopIsFinal` | action property |
| | `HostedSupervisorIsSafe` | the supervisor's four invariants, inside the worker | invariant |
| | `WorkerImplementsStatus` | `ImplementsStatus` | refinement |
| | `UpIsShownUp` | `UpIsNotReportedDown` | invariant |
| `ServiceCommandsProofs` | `CommandTypeCorrect` | `TypeOK` | invariant |
| | `StopAndMaskTellTheTruth` | `StopAndMaskAnswers` | invariant |
| | `ImageIsTheService` | `ImageRunsTheService` | invariant |
| `WatchdogProofs` | `WatchdogTypeCorrect` | `TypeOK` | invariant |
| | `WatchdogKeepsPatience` | `WatchdogIsPatient` | invariant |
| | `LostJvmsAreFound` | `LostJvmIsFound` | invariant |
| | `HeapDumpsAreWaitedFor` | `HeapDumpIsWaitedFor` | invariant |
| | `StartupVerdictsAreTrue` | `StartupVerdictIsTrue` | invariant |
| | `StopsInTime` | `StopsWithinHint` | invariant |
| `ControlChannelProofs` | `ChannelTypeCorrect` | `TypeOK` | invariant |
| | `PacketsStayInOrder` | `PacketsInOrder` | invariant |
| | `DisconnectComesLast` | `ClosedMeansComplete` | invariant |
| | `SweepsAreFair` | `SweepIsFair` | invariant |
| `FilesProofs` | `LogTypeCorrect` | `TypeOK` | invariant |
| | `ArchivesAreInOrder` | `Chronological` | invariant |
| | `RotationLosesTheOldest` | `OnlyOldestIsLost` | invariant |
| | `LimitsAreKept` | `WithinLimits` | invariant |
| | `UnlimitedHistoryIsKept` | `UnlimitedKeepsAll` | action property |
| | `PidTypeCorrect` | `PidTypeOK` | invariant |
| | `FilesGoWithTheirRun` | `NoFileOutlivesItsWriter` | invariant |
| `BridgeProofs` | `BridgeTypeCorrect` | `TypeOK` | invariant |
| | `CleanVerdictsAreEarned` | `CleanVerdictIsEarned` | invariant |
| | `AskedCodesAreForwarded` | `AskedCodeIsForwarded` | invariant |
| | `NormalExitsAreClean` | `NormalExitIsClean` | invariant |
| `OutputCaptureProofs` | `CaptureTypeCorrect` | `TypeOK` | invariant |
| | `OutputKept` | `OutputIsKept` | invariant |
| | `FirstMatch` | `FirstMatchWins` | invariant |
| | `ExitedJvmLogged` | `ExitedJvmIsLogged` | action property |
| `ConfigurationProofs` | `LoadInvariant` | `LoadInv`, the inductive invariant | invariant |
| | `LoadedIsWritten` | `LoadedAsWritten` | invariant |
| | `VariablesBySet` | `VariablesChangeBySet` | action property |
| | `PacketIsFaithful` | `PacketKeepsProperties` | invariant |
| | `LaunchIsConsistent` | `CommandIsConsistent`, half of `CommandAsConfigured` | invariant |

Two theorems have a hypothesis of their own, which the code does not enforce:

* `UpIsShownUp`: `MaxRequests <= ControlCapacity`, as in the run. A control that
  finds the channel full is shown to the SCM as pending and then lost.
* `StopsInTime`: the margin of the hint covers the drain and, where a thread dump
  is taken on exit, what the grace period is longer than the configured delay. The
  code waits one second when the delay is 0 and the hint counts 0, so the margin
  has to pay for that second too.

The assumptions on constants say what the code's own parsing leaves.
`SystemAssumption` and `OverridesAssumption` of `Configuration` bring in how
`split_property` and `parse_include` cut a line: a name has no `=` in it and no
blanks around it, a path none either. `NumeralsAssumption` says that parsed
indices are numbers, `WrappersAssumption` of `PidFiles` that the writer nobody is
no wrapper.

### Arguments

None of these properties is inductive: they speak of one place of a program
and are decided at others. Each module defines the invariant that is, as a
conjunction of named parts, and has one lemma per action (or family of actions)
that preserves it. Those of `PidFiles`, `Bridge`, `ServiceHost`, `LogRotation`,
`Watchdog` and `ControlChannel` were checked by TLC on small instances
before they were proved.

* `Supervisor`, `SafetyInv`. It is the conjunction of `OneJvm` and four parts.
  `ThrottleInv` ties the history variable `streak` to `failed_invocations`, which
  lags behind by the invocation under way; `NumberInv` ties `jvm_id` to
  `launches` on both sides of a launch and at the saturation; `DisabledInv` says
  that with restarts disabled a wait that leads to a launch is the first or
  follows a pause; `StopInv` says where a Stop outcome may be pending. The
  handlers of the event loop differ in what they send and publish but not in what
  matters here, so `InvocationStep` abstracts them: the step stays in the
  invocation, or leaves it with the child gone and an outcome. One lemma shows
  that each handler is such a step, and one that such a step preserves
  `SafetyInv`.
* `ServiceHost`, `HostInv`. The supervisor's invariant carries over because the
  worker changes the supervisor's variables only by its steps and by adding a
  control. `PauseInv` says that only a pausable service decides or announces a
  pause, `StoppedInv` that nothing is left to report once Stopped is, `UpInv` that
  the last thing said of an application that is up is not a pause. The first two
  make every step of the worker a step or a stutter of `ServiceStatus`. `StopPendingInv` adds that a stop shown as
  pending is under way or decided, which needs the room in the channel.
* `ServiceCommands`, `CommandsInv`. A command reports from something it saw a
  few calls ago. `Seen` says that the stop an operator saw still holds as long as
  no start came after it, `Recorded` that a handle keeps its record while the
  service is only marked for deletion, `Masks` that a mask under
  construction has its first bit and so differs from every error code.
  `ImageInv` keeps with a record the command line it was installed from. That the
  stored image parses back to it is a fact about two passes over an argument
  list: what `parse` keeps of a sequence (`Pick`) is computed by induction over
  the positions, and no argument of the image is taken for the wrong kind.
* `Watchdog`, `WatchdogInv`. The thread is deaf during a jcmd run, so the proof
  keeps an account of that time: `Left` is what the remaining dumps may still take,
  `Spent` what is gone. `Ages` bounds the wrapper's clock by the interval, the
  JVM's own delay and `Spent`; `Loss` bounds how long a lost JVM can hide;
  `Startup` does the same for STARTED, `Stops` adds up the waits of a stop place
  by place, and `Verdicts` keeps what held when the decision fell, for heap dumps
  with the account of the thread dumps that `HeapDumpIsWaitedFor` allows for.
* `ControlChannel`, `ChannelInv`. `StreamInv` says that the units in the framer,
  in the queue and on the wire continue exactly what was decoded before, also in
  the middle of a packet; `Places` that a connection is in one place (backlog or
  pending list), `ServedOnce` that the JVM is served once, `NoKey` that a
  stranger never shows the key, `Ordered` that the queue ends with the
  disconnection, `Swept` that a sweep splits the list into examined and due even
  after `swap_remove` has moved the last handshake forward.
* `LogRotation`, `LogInv`. `Sorted` is the order over all files; `Rotating` says
  for each step of a rotation that the place a file is renamed to is empty, so a
  rename replaces nothing; `Counting` ties `current_size` to the active file. A
  crash or error keeps `Sorted`, which is all the next rotation needs.
* `Bridge`, `BridgeInv`. `Causes` relates the flags to what set them, `Places` and
  `Process` the threads to the phase of the JVM; `Starts` says that nothing of the
  application runs before START is read; `Decided`, `Earned`, `CleanReturn` and `Forwarded` say which
  exit codes are possible given the causes.
* `PidFiles`, `OwnedInv`. A file that can be read holds what its last writer
  remembers to have written, and that writer has still to drop it; a wrapper that
  overwrites it takes both over. A file its writer could not drop is in `stuck`
  until somebody writes or removes it.
* `OutputCapture`, `CaptureInv`, `LinesInv` and `Matched`. `Kept` says of each
  stream that the letters read so far are those of its records, logged, in the
  batch or queued, and then those in the reader's line: one sentence about four places at once, so that
  a byte that moves stays counted, whichever reader wins the channel. `Batches`,
  `Pipes`, `Endings` and `Partial` say when the thread has seen the last line and
  give `ExitedJvmIsLogged`. `LinesInv` adds, for output whose lines fit the
  buffer, where the records stand in the output (`Placed`), that there is one for
  each line end and more only where lines are long (`Counted`), and that the reader's line began at one (`Begun`).
  `Matched` ties each record to the filter `inspect_bytes` finds; that the loop
  behind it, which backtracks to the last `*`, finds a match exactly where the
  pattern has one is proved over the states of that loop: the text and pattern
  still to be matched, and the place to go back to.
* `Configuration`, `LoadInv`. `Overriding` is `OverridesWin` half way through the
  overrides, `Locking` keeps the variables of the command line, `Setting` those of
  the files. `Textual` is why includes are textual: the lines read so far and,
  from the innermost file out to the root, what is left of each open file are
  together the text without includes, and the properties are what the lines
  read so far define. `Types` holds the empty stack that the step to the
  overrides depends on. For the packet, `Naming` says that names have no `=` and do not
  begin with a tab: a lone tab is then followed by another character, so the
  bridge's loop, which decides at the character after a tab, cannot take a
  separator for half of a doubled tab. What the loop does with a text is stated
  with `Reaches`, from one state of the loop to another, and composed entry by
  entry along the fold that writes the packet.

The library's induction theorems take an operator as a parameter, which the
installed provers cannot instantiate. Where a proof needs induction over a
sequence or a finite set, it forms the set of numbers for which the claim holds and
uses the lemma `Induction`, that a set with 0 and every successor is `Nat`. A
recursive function or fold is handled by exhibiting a function that satisfies its
equation, so that the `CHOOSE` behind the definition satisfies it too. This is
how `Pick`, `FlattenSeq`, `decode_hash_comments`, `Texts`, the wildcard matcher,
`FoldSet` and `FoldLeft` are reasoned about.

### Only model-checked

* Liveness, which is outside the prover's reach: `StopIsServed`, `ExitIsNoticed`,
  `StopReachesStopped`, `StopIsHonoured`, `LostChannelEndsJvm`,
  `EveryHandshakeEnds`, `AllIsReceived`, `WritersAreNotStuck`,
  `DrainComesToAnEnd`.
* `FragmentsFollowWindows`, the other half of `CommandAsConfigured`. It compares two nested
  recursions over a text with a definition that counts quotes and sorts
  intervals of positions; a proof needs an invariant of each loop against those
  counts, and the facts about sorting sets that the libraries do not
  state. TLC compares the two on every text of up to five characters, those with
  a doubled quote inside quotes or an argument of backslashes alone excepted:
  there the code departs from Windows (section 3).

## 7. Not modelled

* Text below the level of lines and characters: encodings of `wrapper.conf`,
  continued lines, log formats and levels, help and version texts, redaction,
  warnings about unknown properties.
* Triggers that are not ASCII, and the decoding of lines for them.
* The fixed `-D` options of the Java command line, joining of paths, and the
  search of JAR files: the result of the search is an input of `JvmCommand`.
* Locating jcmd and naming dump files, console allocation, the event log.
* The interactive bit of the query mask, service accounts and dependencies:
  passed on to the SCM as they are.
* A JVM launched without the bridge on its classpath is, to the wrapper, one
  that never dials.

## 8. Plan

Done: the modules above and the theorems of section 6. Left:

1. An abstract specification of the JVM life cycle that `Supervisor` implements,
   and `Bridge` as an implementation of the JVM that `Supervisor` assumes.
2. A proof of `FragmentsFollowWindows`.
