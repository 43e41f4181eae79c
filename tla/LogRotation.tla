----------------------------- MODULE LogRotation -----------------------------
(***************************************************************************)
(* The log files of the wrapper (LogWriter in src/src/logging.rs): the     *)
(* active file, its numbered archives, and the rotation that moves one     *)
(* into the other, one file system call at a time.  The wrapper may die    *)
(* between any two calls and a call may fail (a reader that holds a file   *)
(* without sharing it, a full disk); the next start opens whatever is left.*)
(*                                                                         *)
(* A record is its number, the how-many-eth record ever written to the     *)
(* file, and counts as one unit of wrapper.logfile.maxsize.                *)
(***************************************************************************)
EXTENDS Integers, Sequences, FiniteSets

CONSTANTS
  MaxFilesValues,  \* values of wrapper.logfile.maxfiles between starts
  RollModes,       \* values of wrapper.logfile.rollmode between starts
  MaxSize,         \* wrapper.logfile.maxsize, in records
  MaxIndex,        \* u32::MAX, the largest archive number
  MaxRecords       \* records written in one behaviour (a bound)

RollMode == {"NONE", "SIZE", "WRAPPER", "JVM", "SIZE_OR_WRAPPER", "SIZE_OR_JVM"}
BySize == {"SIZE", "SIZE_OR_WRAPPER", "SIZE_OR_JVM"}
ByJvm == {"JVM", "SIZE_OR_JVM"}
AtStart == {"WRAPPER", "SIZE_OR_WRAPPER"} \cup ByJvm

ASSUME RotationAssumption ==
  /\ MaxSize \in Nat /\ MaxRecords \in Nat
  /\ MaxIndex \in Nat \ {0}
  /\ MaxFilesValues \subseteq 0..MaxIndex
  /\ RollModes \subseteq RollMode

VARIABLES
  files,         \* the files there are: 0 is the active one, i is archive .i
  written,       \* number of records written so far
  max_files,     \* wrapper.logfile.maxfiles of the running wrapper
  mode,          \* wrapper.logfile.rollmode of the running wrapper
  current_size,  \* size of the active file as the writer counts it
  op,            \* the call in progress that rotates, "idle", or "down"
  at,            \* the step of rotate it has reached
  index,         \* the loop variable of rotate, 0 after the loop
  steady         \* history: no start has changed the settings

settings == <<max_files, mode, steady>>
rotation == <<op, at, index>>
vars == <<files, written, settings, current_size, rotation>>

Active == 0
Archives == DOMAIN files \ {Active}
Records == UNION {{files[i][k] : k \in DOMAIN files[i]} : i \in DOMAIN files}

\* Variants named ...Slip are wrong on purpose: each is what a definition would
\* be after a plausible mistake in the code, and breaks a property.

-----------------------------------------------------------------------------
(* The file system.  A rename replaces its target.                         *)
Without(i) == [j \in DOMAIN files \ {i} |-> files[j]]

Renamed(i, k) ==
  [j \in (DOMAIN files \ {i}) \cup {k} |-> IF j = k THEN files[i] ELSE files[j]]

With(i, content) ==
  [j \in DOMAIN files \cup {i} |-> IF j = i THEN content ELSE files[j]]

-----------------------------------------------------------------------------
(* rotate.                                                                 *)

highest_rolled_index ==
  IF Archives = {} THEN 0 ELSE CHOOSE i \in Archives : \A j \in Archives : j <= i

RotationLimitShortSlip == IF max_files = 0 THEN highest_rolled_index ELSE max_files

rotation_limit == IF max_files = 0 THEN highest_rolled_index + 1 ELSE max_files

\* checked_add: the archive numbers are u32.
Fits == rotation_limit <= MaxIndex

FirstArchiveLastSlip == highest_rolled_index + 1

\* Where the active file goes: the newest archive is number 1.
FirstArchive == 1

\* The calls that rotate first: a start, a record, a JVM restart.
StartRotation(caller) ==
  /\ op' = caller
  /\ at' = "remove"
  /\ index' = 0

RotateRemoveOneMoreSlip ==
  /\ at = "remove"
  /\ Fits
  /\ files' = IF max_files # 0 THEN Without(max_files + 1) ELSE files
  /\ at' = "shift"
  /\ index' = IF max_files # 0 THEN max_files ELSE rotation_limit - 1
  /\ UNCHANGED <<written, settings, current_size, op>>

\* The oldest archive that may be kept makes room; an unlimited history only
\* has to find its end.
RotateRemove ==
  /\ at = "remove"
  /\ Fits
  /\ files' = IF max_files # 0 THEN Without(max_files) ELSE files
  /\ at' = "shift"
  /\ index' = rotation_limit - 1
  /\ UNCHANGED <<written, settings, current_size, op>>

\* The loop over the archives below it, from the oldest to the newest.
RotateShift ==
  /\ at = "shift"
  /\ index > 0
  /\ files' = IF index \in DOMAIN files THEN Renamed(index, index + 1) ELSE files
  /\ index' = index - 1
  /\ UNCHANGED <<written, settings, current_size, op, at>>

RotateActive ==
  /\ at = "shift"
  /\ index = 0
  /\ files' = IF Active \in DOMAIN files THEN Renamed(Active, FirstArchive) ELSE files
  /\ at' = "open"
  /\ UNCHANGED <<written, settings, current_size, op, index>>

-----------------------------------------------------------------------------
(* LogWriter.                                                              *)

Ready == op' = "idle" /\ at' = "none" /\ index' = 0

\* from_config up to the rotation that some modes ask for.
Open ==
  /\ op = "down"
  /\ max_files' \in MaxFilesValues
  /\ mode' \in RollModes
  /\ steady' = (steady /\ max_files' = max_files /\ mode' = mode)
  /\ IF mode' \in AtStart /\ Active \in DOMAIN files
       THEN StartRotation("start")
       ELSE op' = "start" /\ at' = "open" /\ index' = 0
  /\ UNCHANGED <<files, written, current_size>>

AppendedTruncatesSlip == <<>>

\* open_append_shared keeps what the active file holds.
Appended == IF Active \in DOMAIN files THEN files[Active] ELSE <<>>

\* The file's metadata give the size to go on counting from.
SizeAtOpen(content) == Len(content)

OpenAppend ==
  /\ op = "start" /\ at = "open"
  /\ files' = With(Active, Appended)
  /\ current_size' = SizeAtOpen(Appended)
  /\ Ready
  /\ UNCHANGED <<written, settings>>

\* write_bytes for a record that passes the file's level.
SizeReached == mode \in BySize /\ MaxSize > 0 /\ current_size >= MaxSize

Append1(content) ==
  /\ files' = With(Active, Append(content, written + 1))
  /\ written' = written + 1

Write ==
  /\ op = "idle"
  /\ written < MaxRecords
  /\ IF SizeReached
       THEN StartRotation("write") /\ UNCHANGED <<files, written, current_size>>
       ELSE /\ Append1(files[Active])
            /\ current_size' = current_size + 1
            /\ UNCHANGED rotation
  /\ UNCHANGED settings

\* The replacement is there: the record that caused the rotation follows.
OpenTruncatedAndWrite ==
  /\ op = "write" /\ at = "open"
  /\ Append1(<<>>)
  /\ current_size' = 1
  /\ Ready
  /\ UNCHANGED settings

roll_for_jvm_restart ==
  /\ op = "idle"
  /\ mode \in ByJvm
  /\ StartRotation("restart")
  /\ UNCHANGED <<files, written, settings, current_size>>

OpenTruncated ==
  /\ op = "restart" /\ at = "open"
  /\ files' = With(Active, <<>>)
  /\ current_size' = 0
  /\ Ready
  /\ UNCHANGED <<written, settings>>

\* A call fails: the error goes to the caller.  request_thread_dump logs once
\* more after a record that failed and finds the rotation still due; every
\* other caller ends the wrapper.
Fail ==
  /\ op \notin {"idle", "down"}
  /\ \/ op' = "down"
     \/ op = "write" /\ op' = "idle"
  /\ at' = "none" /\ index' = 0
  /\ UNCHANGED <<files, written, settings, current_size>>

\* The wrapper ends or dies between two calls.
Crash ==
  /\ op # "down"
  /\ op' = "down" /\ at' = "none" /\ index' = 0
  /\ UNCHANGED <<files, written, settings, current_size>>

-----------------------------------------------------------------------------
Init ==
  /\ files = <<>>
  /\ written = 0
  /\ max_files \in MaxFilesValues
  /\ mode \in RollModes
  /\ steady = TRUE
  /\ current_size = 0
  /\ op = "down" /\ at = "none" /\ index = 0

Next ==
  \/ Open \/ OpenAppend
  \/ Write \/ OpenTruncatedAndWrite
  \/ roll_for_jvm_restart \/ OpenTruncated
  \/ RotateRemove \/ RotateShift \/ RotateActive
  \/ Fail \/ Crash

Spec == Init /\ [][Next]_vars

-----------------------------------------------------------------------------
(* Properties.                                                             *)

\* There are only numbered archives, counters are natural numbers, and a
\* step of rotate belongs to a call.
TypeOK ==
  /\ DOMAIN files \subseteq 0..MaxIndex
  /\ \A i \in DOMAIN files : files[i] \in Seq(1..written)
  /\ written \in Nat /\ current_size \in Nat
  /\ max_files \in MaxFilesValues /\ mode \in RollModes /\ steady \in BOOLEAN
  /\ op \in {"down", "idle", "start", "write", "restart"}
  /\ at \in {"none", "remove", "shift", "open"}
  /\ index \in 0..MaxIndex

\* "Archives are wrapper.log.1 (newest), wrapper.log.2, and so on": at every
\* moment, the middle of an interrupted rotation included, reading the files
\* from the highest number down to the active one gives the records in the
\* order they were written, none twice.
Chronological ==
  /\ \A i \in DOMAIN files : \A k \in 2..Len(files[i]) : files[i][k - 1] < files[i][k]
  /\ \A i, j \in DOMAIN files : i < j =>
       \A k \in DOMAIN files[i], m \in DOMAIN files[j] : files[j][m] < files[i][k]

\* Under one setting of maxfiles the files hold the last records without a
\* gap: what rotation deletes is always the oldest there is, however many
\* rotations were interrupted or failed before it.
OnlyOldestIsLost ==
  steady => Records = {} \/ \E first \in 1..written : Records = first..written

\* "never creates .51": under one setting of maxfiles no archive has a higher
\* number.
WithinMaxFiles == steady /\ max_files > 0 => \A i \in Archives : i <= max_files

\* "0 means unlimited history": a wrapper with maxfiles=0 deletes no record,
\* in whatever state an earlier one left the archives.
UnlimitedKeepsAll == [][max_files = 0 /\ max_files' = 0 => Records \subseteq Records']_vars

\* A file is closed when it has reached maxsize, also after a restart in the
\* middle of it: with a mode that always rolled by size no file grows beyond it.
BoundedBySize ==
  steady /\ mode \in BySize /\ MaxSize > 0 => \A i \in DOMAIN files : Len(files[i]) <= MaxSize

\* The limits of the configuration hold together, whatever was interrupted.
WithinLimits == WithinMaxFiles /\ BoundedBySize

=============================================================================
