------------------------------ MODULE PidFiles ------------------------------
(***************************************************************************)
(* The files in which wrappers announce themselves (OwnedPidFile in        *)
(* src/src/supervisor.rs): wrapper.pidfile for the life of the wrapper,    *)
(* wrapper.java.pidfile for that of a JVM and wrapper.java.idfile with the *)
(* number of the invocation, written again for each JVM.                   *)
(*                                                                         *)
(* Several wrappers may be started on one configuration (a console beside  *)
(* the service).  Their files are the same; nothing locks them, and every  *)
(* call on a file is a step of its own.                                    *)
(***************************************************************************)
EXTENDS Integers

CONSTANTS
  Wrappers,   \* processes that use the configuration
  IoErrors,   \* whether writing, reading or removing a file may fail
  MaxJvmId    \* JVMs one wrapper launches (a bound)

ASSUME MaxJvmIdAssumption == MaxJvmId \in Nat \ {0}

VARIABLES
  strict,     \* wrapper.pidfile.strict; never changed
  disk,       \* file -> what it contains, or Absent
  owned,      \* wrapper -> file -> contents of its OwnedPidFile, or Absent
  jvm_id,     \* wrapper -> number of its current invocation
  pc,         \* wrapper -> where it is, and the file it is dropping there
  writer,     \* file -> the wrapper that wrote it last (history)
  stuck       \* files their writer could not read or remove to drop (history)

pidVars == <<strict, disk, owned, jvm_id, pc, writer, stuck>>

File == {"pidfile", "java.pidfile", "java.idfile"}
Absent == <<>>
Garbled == <<"garbled">>
Nobody == <<>>

ASSUME WrappersAssumption == Nobody \notin Wrappers

\* Process ids differ; the number of an invocation does not tell wrappers apart.
Contents(w, file) ==
  CASE file = "pidfile" -> <<"wrapper", w>>
    [] file = "java.pidfile" -> <<"java", w, jvm_id[w]>>
    [] file = "java.idfile" -> <<"id", jvm_id[w]>>

\* The drop of a file is under way: read it, then remove what was read as own.
At(label) == [at |-> label, file |-> "none"]
Read(file) == [at |-> "read", file |-> file]
Remove(file) == [at |-> "remove", file |-> file]

Goto(w, place) == pc' = [pc EXCEPT ![w] = place] /\ UNCHANGED strict

-----------------------------------------------------------------------------
(* create and update write the same way.  A write that fails may leave     *)
(* anything behind and is not remembered.                                  *)

WriteFileForgetsSlip(w, file) ==
  /\ disk' = [disk EXCEPT ![file] = Contents(w, file)]
  /\ writer' = [writer EXCEPT ![file] = w]
  /\ stuck' = stuck \ {file}
  /\ owned' = IF owned[w][file] = Absent
                THEN [owned EXCEPT ![w][file] = Contents(w, file)]
                ELSE owned

WriteFile(w, file) ==
  /\ disk' = [disk EXCEPT ![file] = Contents(w, file)]
  /\ writer' = [writer EXCEPT ![file] = w]
  /\ stuck' = stuck \ {file}
  /\ owned' = [owned EXCEPT ![w][file] = Contents(w, file)]

WriteFails(file) ==
  /\ IoErrors
  /\ disk' \in {disk, [disk EXCEPT ![file] = Garbled]}
  /\ writer' = [writer EXCEPT ![file] = IF disk' = disk THEN @ ELSE Nobody]
  /\ UNCHANGED <<owned, stuck>>

\* run: the strict check, ...
Check(w) ==
  /\ pc[w] = At("start")
  /\ Goto(w, IF strict /\ disk["pidfile"] # Absent THEN At("ended") ELSE At("checked"))
  /\ UNCHANGED <<disk, owned, jvm_id, writer, stuck>>

\* ... and the write, which ends the run if it fails.
CreatePidFile(w) ==
  /\ pc[w] = At("checked")
  /\ \/ WriteFile(w, "pidfile") /\ Goto(w, At("launch"))
     \/ WriteFails("pidfile") /\ Goto(w, At("ended"))
  /\ UNCHANGED jvm_id

\* The loop of run: a failure to write the id file is only reported.
UpdateIdFile(w) ==
  /\ pc[w] = At("launch")
  /\ WriteFile(w, "java.idfile") \/ WriteFails("java.idfile")
  /\ Goto(w, At("spawned"))
  /\ UNCHANGED jvm_id

\* A stop in a delay or a pause, or an error, ends run between two invocations.
RunEnds(w) ==
  /\ pc[w] = At("launch")
  /\ Goto(w, Read("java.idfile"))
  /\ UNCHANGED <<disk, owned, jvm_id, writer, stuck>>

\* run_once: without its PID file the JVM is terminated and the run ends.
CreateJavaPidFile(w) ==
  /\ pc[w] = At("spawned")
  /\ \/ WriteFile(w, "java.pidfile") /\ Goto(w, At("up"))
     \/ WriteFails("java.pidfile") /\ Goto(w, Read("java.idfile"))
  /\ UNCHANGED jvm_id

\* The invocation ends and JvmRun is dropped with its PID file.
JvmEnds(w) ==
  /\ pc[w] = At("up")
  /\ Goto(w, Read("java.pidfile"))
  /\ UNCHANGED <<disk, owned, jvm_id, writer, stuck>>

\* Where the thread goes once a file is dropped: on to the next invocation or
\* out of run, which drops the id file and then the wrapper's file.
AfterDrop(w, file) ==
  \/ /\ file = "java.pidfile"
     /\ jvm_id[w] < MaxJvmId
     /\ jvm_id' = [jvm_id EXCEPT ![w] = @ + 1]
     /\ Goto(w, At("launch"))
  \/ file = "java.pidfile" /\ Goto(w, Read("java.idfile")) /\ UNCHANGED jvm_id
  \/ file = "java.idfile" /\ Goto(w, Read("pidfile")) /\ UNCHANGED jvm_id
  \/ file = "pidfile" /\ Goto(w, At("ended")) /\ UNCHANGED jvm_id

\* run_once ends before there is a child.
SpawnFails(w) ==
  /\ pc[w] = At("spawned")
  /\ AfterDrop(w, "java.pidfile")
  /\ UNCHANGED <<disk, owned, writer, stuck>>

\* Drop ends without a word when the file cannot be read or removed: it stays.
DropFails(w, file) ==
  /\ IoErrors
  /\ stuck' = IF writer[file] = w THEN stuck \cup {file} ELSE stuck
  /\ UNCHANGED <<disk, writer>>

Dropped(w, file) ==
  /\ owned' = [owned EXCEPT ![w][file] = Absent]
  /\ AfterDrop(w, file)

\* Drop: read the file and compare, ...
DropReads(w, file) ==
  /\ pc[w] = Read(file)
  /\ \/ /\ owned[w][file] # Absent /\ disk[file] = owned[w][file]
        /\ Goto(w, Remove(file))
        /\ UNCHANGED <<disk, owned, jvm_id, writer, stuck>>
     \/ /\ owned[w][file] = Absent \/ disk[file] # owned[w][file]
        /\ Dropped(w, file)
        /\ UNCHANGED <<disk, writer, stuck>>
     \/ /\ owned[w][file] # Absent
        /\ DropFails(w, file)
        /\ Dropped(w, file)

\* ... then remove it, whatever it is by now.
DropRemoves(w, file) ==
  /\ pc[w] = Remove(file)
  /\ \/ /\ disk' = [disk EXCEPT ![file] = Absent]
        /\ writer' = [writer EXCEPT ![file] = Nobody]
        /\ stuck' = stuck \ {file}
     \/ DropFails(w, file)
  /\ Dropped(w, file)

\* The process is killed.
Killed(w) ==
  /\ pc[w].at \notin {"ended", "crashed"}
  /\ Goto(w, At("crashed"))
  /\ UNCHANGED <<disk, owned, jvm_id, writer, stuck>>

PidInit ==
  /\ strict \in BOOLEAN
  /\ disk = [f \in File |-> Absent]
  /\ owned = [w \in Wrappers |-> [f \in File |-> Absent]]
  /\ jvm_id = [w \in Wrappers |-> 1]
  /\ pc = [w \in Wrappers |-> At("start")]
  /\ writer = [f \in File |-> Nobody]
  /\ stuck = {}

Over == \A w \in Wrappers : pc[w].at \in {"ended", "crashed"}

PidNext ==
  \/ \E w \in Wrappers :
       \/ Check(w) \/ CreatePidFile(w) \/ UpdateIdFile(w) \/ CreateJavaPidFile(w)
       \/ RunEnds(w) \/ SpawnFails(w) \/ JvmEnds(w) \/ Killed(w)
       \/ \E file \in File : DropReads(w, file) \/ DropRemoves(w, file)
  \/ Over /\ UNCHANGED pidVars

PidSpec == PidInit /\ [][PidNext]_pidVars

-----------------------------------------------------------------------------
(* Properties.                                                             *)

PidTypeOK ==
  /\ stuck \subseteq File
  /\ \A w \in Wrappers : jvm_id[w] \in 1..MaxJvmId
  /\ \A f \in File : writer[f] = Nobody => disk[f] \in {Absent, Garbled}

\* help.txt: "removed when owned run ends".  A file that is there was left by a
\* wrapper that still runs or was killed, by a write that failed, or by its writer
\* because Drop could not read or remove it, which the code ignores: no order of
\* starts, restarts and ends of several wrappers leaves another file of one that
\* ended in good order, although each may overwrite and remove the others'.
NoFileOutlivesItsWriter ==
  \A f \in File : disk[f] \notin {Absent, Garbled} /\ f \notin stuck =>
    writer[f] \in Wrappers /\ pc[writer[f]].at # "ended"

=============================================================================
