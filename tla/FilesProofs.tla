----------------------------- MODULE FilesProofs -----------------------------
(***************************************************************************)
(* Proofs about the files a wrapper shares with its successors and its     *)
(* neighbours.                                                             *)
(*                                                                         *)
(* LogRotation: the log files, for every maxfiles, maxsize and rollmode,   *)
(* any number of records, and a wrapper that dies or fails between any two *)
(* calls of a rotation.                                                    *)
(*                                                                         *)
(* PidFiles: the files in which wrappers announce themselves, for any      *)
(* number of wrappers and JVMs and whether or not writes fail.  The two    *)
(* specifications share nothing but this module.                           *)
(***************************************************************************)
EXTENDS LogRotation, PidFiles, TLAPS, WellFoundedInduction

-----------------------------------------------------------------------------
(* The inductive invariant, in named parts.                                *)

\* Chronological, for any two records and not only for neighbours.
Sorted ==
  /\ \A i \in DOMAIN files : \A k, m \in DOMAIN files[i] : k < m => files[i][k] < files[i][m]
  /\ \A i, j \in DOMAIN files : i < j =>
       \A k \in DOMAIN files[i], m \in DOMAIN files[j] : files[j][m] < files[i][k]

\* The place an archive is moved to is empty, and lies within the limit; a
\* truncating open finds no file; a record that failed is due to rotate again.
Rotating ==
  /\ op \in {"idle", "down"} <=> at = "none"
  /\ at = "shift" =>
       /\ index + 1 \in 1..MaxIndex /\ index + 1 \notin DOMAIN files
       /\ max_files > 0 => index < max_files
  /\ at = "open" /\ op \in {"write", "restart"} => Active \notin DOMAIN files
  /\ op = "write" => SizeReached
  /\ op = "idle" => Active \in DOMAIN files \/ SizeReached

\* The writer counts what the active file holds.
Counting ==
  op \in {"idle", "write", "restart"} /\ Active \in DOMAIN files =>
    current_size = Len(files[Active])

LogInv ==
  /\ TypeOK /\ Sorted /\ Rotating /\ Counting
  /\ WithinMaxFiles /\ BoundedBySize /\ OnlyOldestIsLost

\* What TypeOK says of the files.
FilesOK ==
  /\ DOMAIN files \subseteq 0..MaxIndex
  /\ \A i \in DOMAIN files : files[i] \in Seq(1..written)

\* A step that keeps the history clean keeps the settings.
SettingsKept == steady' => steady /\ max_files' = max_files /\ mode' = mode

-----------------------------------------------------------------------------
(* Lemmas about the operators.                                             *)

\* A non-empty set of archive numbers has a greatest element.
LEMMA GreatestExists ==
  ASSUME NEW n \in Nat, NEW S \in SUBSET (0..n), S # {}
  PROVE  \E i \in S : \A j \in S : j <= i
<1> DEFINE T == {n - i : i \in S}
           R == {ss \in Nat \X Nat : ss[1] < ss[2]}
<1>1. T \subseteq Nat /\ T # {}
  <2>1. \A i \in S : n - i \in Nat
    OBVIOUS
  <2> QED
    BY <2>1
<1>2. IsWellFoundedOn(R, Nat)
  BY NatLessThanWellFounded, Zenon DEF OpToRel
<1>3. \E x \in T : \A y \in T : ~ (<<y, x>> \in R)
  <2> HIDE DEF T, R
  <2> QED
    BY <1>1, <1>2, WFMin
<1>4. PICK x \in T : \A y \in T : ~ (<<y, x>> \in R)
  BY <1>3
<1>5. \A y \in T : ~(y < x)
  BY <1>1, <1>4
<1>6. PICK i \in S : x = n - i
  OBVIOUS
<1>7. \A j \in S : n - j \in T
  OBVIOUS
<1>8. \A j \in S : ~(n - j < n - i)
  BY <1>5, <1>6, <1>7
<1>9. \A j \in S : j <= i
  BY <1>8
<1> QED
  BY <1>9

\* highest_rolled_index is an upper bound of the archive numbers.
LEMMA HighestRolledIndex ==
  ASSUME TypeOK
  PROVE  /\ highest_rolled_index \in 0..MaxIndex
         /\ \A i \in Archives : i <= highest_rolled_index
<1>1. Archives \in SUBSET (0..MaxIndex) /\ MaxIndex \in Nat
  BY RotationAssumption DEF TypeOK, Archives
<1>2. CASE Archives = {}
  BY <1>1, <1>2 DEF highest_rolled_index
<1>3. CASE Archives # {}
  <2>1. \E i \in Archives : \A j \in Archives : j <= i
    BY <1>1, <1>3, GreatestExists
  <2>2. highest_rolled_index = CHOOSE i \in Archives : \A j \in Archives : j <= i
    BY <1>3 DEF highest_rolled_index
  <2>3. /\ highest_rolled_index \in Archives
        /\ \A j \in Archives : j <= highest_rolled_index
    <3> HIDE DEF highest_rolled_index, Archives
    <3> QED
      BY <2>1, <2>2
  <2> QED
    BY <1>1, <2>3
<1> QED
  BY <1>2, <1>3

\* A record is in Records when it is at some place of some file.
LEMMA InRecords ==
  \A r : r \in Records <=> \E i \in DOMAIN files : \E k \in DOMAIN files[i] : files[i][k] = r
BY DEF Records

\* The same in the next state.
LEMMA InRecordsNext ==
  \A r : r \in Records' <=> \E i \in DOMAIN files' : \E k \in DOMAIN files'[i] : files'[i][k] = r
BY DEF Records

\* A step that only moves or removes files, keeping their order, keeps the
\* records in order and makes none up.
LEMMA MovedFiles ==
  ASSUME FilesOK, Sorted, written' = written,
         NEW m \in [DOMAIN files' -> DOMAIN files],
         DOMAIN files' \subseteq 0..MaxIndex,
         \A j \in DOMAIN files' : files'[j] = files[m[j]],
         \A j, k \in DOMAIN files' : j < k => m[j] < m[k]
  PROVE  FilesOK' /\ Sorted' /\ Records' \subseteq Records
<1>1. \A j \in DOMAIN files' : m[j] \in DOMAIN files
  OBVIOUS
<1>2. FilesOK'
  BY <1>1 DEF FilesOK
<1>3. Sorted'
  <2>1. \A i \in DOMAIN files' : \A k, l \in DOMAIN files'[i] : k < l => files'[i][k] < files'[i][l]
    BY <1>1 DEF Sorted
  <2>2. \A i, j \in DOMAIN files' : i < j =>
          \A k \in DOMAIN files'[i], l \in DOMAIN files'[j] : files'[j][l] < files'[i][k]
    BY <1>1 DEF Sorted
  <2> QED
    BY <2>1, <2>2 DEF Sorted
<1>4. Records' \subseteq Records
  BY <1>1, InRecords, InRecordsNext
<1> QED
  BY <1>2, <1>3, <1>4

\* A rename to the next number, which is free, loses no record.
LEMMA RenamedFile ==
  ASSUME FilesOK, Sorted, written' = written,
         NEW i \in DOMAIN files, i + 1 \notin DOMAIN files, i + 1 \in 0..MaxIndex,
         files' = Renamed(i, i + 1)
  PROVE  /\ FilesOK' /\ Sorted' /\ Records' = Records
         /\ DOMAIN files' = (DOMAIN files \ {i}) \cup {i + 1}
         /\ files'[i + 1] = files[i]
         /\ \A j \in DOMAIN files \ {i} : files'[j] = files[j]
<1> DEFINE D == (DOMAIN files \ {i}) \cup {i + 1}
           m == [j \in D |-> IF j = i + 1 THEN i ELSE j]
<1>0. i \in Int /\ DOMAIN files \subseteq Int
  BY DEF FilesOK
<1>1. /\ DOMAIN files' = D
      /\ \A j \in D : files'[j] = IF j = i + 1 THEN files[i] ELSE files[j]
  BY DEF Renamed
<1>2. m \in [D -> DOMAIN files]
  OBVIOUS
<1>3. \A j \in D : files'[j] = files[m[j]]
  BY <1>1
<1>4. \A j, k \in D : j < k => m[j] < m[k]
  BY <1>0
<1>5. D \subseteq 0..MaxIndex
  BY DEF FilesOK
<1>6. FilesOK' /\ Sorted' /\ Records' \subseteq Records
  <2> HIDE DEF m, D
  <2> QED
    BY <1>1, <1>2, <1>3, <1>4, <1>5, MovedFiles
<1>7. /\ files'[i + 1] = files[i]
      /\ \A j \in DOMAIN files \ {i} : files'[j] = files[j]
  BY <1>1
<1>8. Records \subseteq Records'
  <2> SUFFICES ASSUME NEW r \in Records
               PROVE  r \in Records'
    OBVIOUS
  <2>1. PICK j \in DOMAIN files : \E k \in DOMAIN files[j] : files[j][k] = r
    BY InRecords
  <2>2. CASE j = i
    BY <1>1, <1>7, <2>1, <2>2, InRecordsNext
  <2>3. CASE j # i
    BY <1>1, <1>7, <2>1, <2>3, InRecordsNext
  <2> QED
    BY <2>2, <2>3
<1> QED
  BY <1>1, <1>6, <1>7, <1>8

\* Removing a file keeps the others as they are.
LEMMA RemovedFile ==
  ASSUME FilesOK, Sorted, written' = written, NEW i, files' = Without(i)
  PROVE  /\ FilesOK' /\ Sorted' /\ Records' \subseteq Records
         /\ DOMAIN files' = DOMAIN files \ {i}
         /\ \A j \in DOMAIN files \ {i} : files'[j] = files[j]
<1> DEFINE m == [j \in DOMAIN files \ {i} |-> j]
<1>1. /\ DOMAIN files' = DOMAIN files \ {i}
      /\ \A j \in DOMAIN files \ {i} : files'[j] = files[j]
  BY DEF Without
<1>2. m \in [DOMAIN files' -> DOMAIN files]
  BY <1>1
<1>3. /\ \A j \in DOMAIN files' : files'[j] = files[m[j]]
      /\ \A j, k \in DOMAIN files' : j < k => m[j] < m[k]
  BY <1>1
<1>4. DOMAIN files' \subseteq 0..MaxIndex
  BY <1>1 DEF FilesOK
<1>5. FilesOK' /\ Sorted' /\ Records' \subseteq Records
  <2> HIDE DEF m
  <2> QED
    BY <1>2, <1>3, <1>4, MovedFiles
<1> QED
  BY <1>1, <1>5

\* When the file with the highest number goes, the oldest records go: what was
\* an unbroken run of records up to the last one still is.
LEMMA RemovedOldest ==
  ASSUME FilesOK, Sorted, written \in Nat, written' = written,
         NEW i \in Nat, files' = Without(i), \A j \in DOMAIN files : j <= i,
         Records = {} \/ \E first \in 1..written : Records = first..written
  PROVE  Records' = {} \/ \E first \in 1..written : Records' = first..written
<1>1. /\ Records' \subseteq Records
      /\ DOMAIN files' = DOMAIN files \ {i}
      /\ \A j \in DOMAIN files \ {i} : files'[j] = files[j]
  BY RemovedFile
<1>2. CASE Records = {}
  BY <1>1, <1>2
<1>3. CASE i \in DOMAIN files /\ Len(files[i]) > 0 /\ Records # {}
  <2>1. PICK first \in 1..written : Records = first..written
    BY <1>3
  <2> DEFINE last == files[i][Len(files[i])]
  <2>2. files[i] \in Seq(1..written) /\ Len(files[i]) \in DOMAIN files[i]
    BY <1>3 DEF FilesOK
  <2>3. last \in 1..written
    BY <2>2
  <2>4. \A k \in DOMAIN files[i] : files[i][k] <= last
    <3> SUFFICES ASSUME NEW k \in DOMAIN files[i]
                 PROVE  files[i][k] <= last
      OBVIOUS
    <3>1. k = Len(files[i]) \/ k < Len(files[i])
      BY <2>2
    <3>2. k < Len(files[i]) => files[i][k] < last
      BY <1>3, <2>2 DEF Sorted
    <3>3. files[i][k] \in 1..written
      BY <2>2
    <3> QED
      BY <2>3, <3>1, <3>2, <3>3
  <2>5. \A r \in Records' : last < r
    <3> SUFFICES ASSUME NEW r \in Records'
                 PROVE  last < r
      OBVIOUS
    <3>1. PICK j \in DOMAIN files' : \E k \in DOMAIN files'[j] : files'[j][k] = r
      BY InRecordsNext
    <3>2. j \in DOMAIN files /\ j # i /\ files'[j] = files[j] /\ j \in Nat
      BY <1>1 DEF FilesOK
    <3>3. j < i
      BY <3>2
    <3> QED
      BY <1>3, <2>2, <3>1, <3>2, <3>3 DEF Sorted
  <2>6. \A r \in Records : last < r => r \in Records'
    <3> SUFFICES ASSUME NEW r \in Records, last < r
                 PROVE  r \in Records'
      OBVIOUS
    <3>1. PICK j \in DOMAIN files : \E k \in DOMAIN files[j] : files[j][k] = r
      BY InRecords
    <3>2. j # i
      BY <2>1, <2>3, <2>4, <3>1
    <3> QED
      BY <1>1, <3>1, <3>2, InRecordsNext
  <2>7. last \in Records
    BY <1>3, <2>2, InRecords
  <2> HIDE DEF last
  <2>8. Records' = (last + 1)..written
    <3>1. \A r \in Records' : r \in (last + 1)..written
      BY <1>1, <2>1, <2>3, <2>5
    <3>2. \A r \in (last + 1)..written : r \in Records'
      BY <2>1, <2>3, <2>6, <2>7
    <3> QED
      BY <3>1, <3>2
  <2>9. CASE last = written
    BY <2>3, <2>8, <2>9
  <2>10. CASE last # written
    BY <2>3, <2>8, <2>10
  <2> QED
    BY <2>9, <2>10
<1>4. CASE ~(i \in DOMAIN files /\ Len(files[i]) > 0)
  <2>1. i \in DOMAIN files => DOMAIN files[i] = {}
    BY <1>4 DEF FilesOK
  <2>2. \A r \in Records : r \in Records'
    <3> SUFFICES ASSUME NEW r \in Records
                 PROVE  r \in Records'
      OBVIOUS
    <3>1. PICK j \in DOMAIN files : \E k \in DOMAIN files[j] : files[j][k] = r
      BY InRecords
    <3>2. j # i
      BY <2>1, <3>1
    <3> QED
      BY <1>1, <3>1, <3>2, InRecordsNext
  <2>3. Records' = Records
    BY <1>1, <2>2
  <2> QED
    BY <2>3
<1> QED
  BY <1>2, <1>3, <1>4

\* Opening the active file with the records that follow all others, or with
\* what it holds, keeps the order.
LEMMA WrittenFile ==
  ASSUME FilesOK, Sorted, written \in Nat, NEW content, files' = With(Active, content),
         written' \in {written, written + 1},
         content \in Seq(1..written'),
         \A k, m \in DOMAIN content : k < m => content[k] < content[m],
         \A j \in DOMAIN files \ {Active} : \A k \in DOMAIN content, m \in DOMAIN files[j] :
           files[j][m] < content[k]
  PROVE  /\ FilesOK' /\ Sorted'
         /\ DOMAIN files' = DOMAIN files \cup {Active}
         /\ files'[Active] = content
         /\ \A j \in DOMAIN files \ {Active} : files'[j] = files[j]
         /\ \A r : r \in Records' <=>
              \/ \E k \in DOMAIN content : content[k] = r
              \/ \E j \in DOMAIN files \ {Active} : \E k \in DOMAIN files[j] : files[j][k] = r
<1>1. /\ DOMAIN files' = DOMAIN files \cup {Active}
      /\ files'[Active] = content
      /\ \A j \in DOMAIN files \ {Active} : files'[j] = files[j]
  BY DEF With
<1>2. FilesOK'
  <2>1. \A j \in DOMAIN files : files[j] \in Seq(1..written')
    <3>1. 1..written \subseteq 1..written'
      OBVIOUS
    <3> QED
      BY <3>1 DEF FilesOK
  <2>2. DOMAIN files' \subseteq 0..MaxIndex
    BY <1>1, RotationAssumption DEF FilesOK, Active
  <2> QED
    BY <1>1, <2>1, <2>2 DEF FilesOK
<1>3. Sorted'
  <2>1. \A i \in DOMAIN files' : \A k, m \in DOMAIN files'[i] : k < m => files'[i][k] < files'[i][m]
    BY <1>1 DEF Sorted
  <2>2. \A i, j \in DOMAIN files' : i < j =>
          \A k \in DOMAIN files'[i], m \in DOMAIN files'[j] : files'[j][m] < files'[i][k]
    <3> SUFFICES ASSUME NEW i \in DOMAIN files', NEW j \in DOMAIN files', i < j
                 PROVE  \A k \in DOMAIN files'[i], m \in DOMAIN files'[j] :
                          files'[j][m] < files'[i][k]
      OBVIOUS
    <3>1. j \in DOMAIN files \ {Active}
      BY <1>1, <1>2 DEF FilesOK, Active
    <3>2. CASE i = Active
      BY <1>1, <3>1, <3>2
    <3>3. CASE i # Active
      BY <1>1, <3>1, <3>3 DEF Sorted
    <3> QED
      BY <3>2, <3>3
  <2> QED
    BY <2>1, <2>2 DEF Sorted
<1>4. \A r : r \in Records' <=>
        \/ \E k \in DOMAIN content : content[k] = r
        \/ \E j \in DOMAIN files \ {Active} : \E k \in DOMAIN files[j] : files[j][k] = r
  BY <1>1, InRecordsNext
<1> QED
  BY <1>1, <1>2, <1>3, <1>4

\* What open_append_shared leaves is what was there, or an empty file.
LEMMA AppendedContent ==
  ASSUME FilesOK, Sorted, written \in Nat
  PROVE  /\ Appended \in Seq(1..written)
         /\ \A k, m \in DOMAIN Appended : k < m => Appended[k] < Appended[m]
         /\ \A j \in DOMAIN files \ {Active} : \A k \in DOMAIN Appended, m \in DOMAIN files[j] :
              files[j][m] < Appended[k]
         /\ \A r : r \in Records <=>
              \/ \E k \in DOMAIN Appended : Appended[k] = r
              \/ \E j \in DOMAIN files \ {Active} : \E k \in DOMAIN files[j] : files[j][k] = r
<1>1. CASE Active \in DOMAIN files
  <2>1. Appended = files[Active]
    BY <1>1 DEF Appended
  <2>2. \A j \in DOMAIN files \ {Active} : Active < j
    BY DEF FilesOK, Active
  <2>3. \A j \in DOMAIN files \ {Active} : \A k \in DOMAIN Appended, m \in DOMAIN files[j] :
          files[j][m] < Appended[k]
    BY <1>1, <2>1, <2>2 DEF Sorted
  <2>4. \A k, m \in DOMAIN Appended : k < m => Appended[k] < Appended[m]
    BY <1>1, <2>1 DEF Sorted
  <2> QED
    BY <1>1, <2>1, <2>3, <2>4, InRecords DEF FilesOK
<1>2. CASE Active \notin DOMAIN files
  <2>1. Appended = <<>> /\ DOMAIN Appended = {}
    BY <1>2 DEF Appended
  <2> QED
    BY <1>2, <2>1, InRecords
<1> QED
  BY <1>1, <1>2

\* Opening the active file changes no record.
LEMMA OpenedFile ==
  ASSUME FilesOK, Sorted, written \in Nat, written' = written,
         files' = With(Active, Appended)
  PROVE  /\ FilesOK' /\ Sorted' /\ Records' = Records
         /\ DOMAIN files' = DOMAIN files \cup {Active}
         /\ files'[Active] = Appended
         /\ \A j \in DOMAIN files \ {Active} : files'[j] = files[j]
<1> DEFINE c == Appended
<1>1. /\ c \in Seq(1..written')
      /\ \A k, m \in DOMAIN c : k < m => c[k] < c[m]
      /\ \A j \in DOMAIN files \ {Active} : \A k \in DOMAIN c, m \in DOMAIN files[j] :
           files[j][m] < c[k]
  BY AppendedContent
<1>2. /\ FilesOK' /\ Sorted'
      /\ DOMAIN files' = DOMAIN files \cup {Active}
      /\ files'[Active] = c
      /\ \A j \in DOMAIN files \ {Active} : files'[j] = files[j]
      /\ \A r : r \in Records' <=>
           \/ \E k \in DOMAIN c : c[k] = r
           \/ \E j \in DOMAIN files \ {Active} : \E k \in DOMAIN files[j] : files[j][k] = r
  BY <1>1, WrittenFile, ZenonT(30)
<1>3. Records' = Records
  BY <1>2, AppendedContent
<1> QED
  BY <1>2, <1>3

\* A record goes behind all others.
LEMMA AppendedRecord ==
  ASSUME FilesOK, Sorted, written \in Nat, Append1(Appended)
  PROVE  /\ FilesOK' /\ Sorted' /\ Records' = Records \cup {written + 1}
         /\ DOMAIN files' = DOMAIN files \cup {Active}
         /\ Len(files'[Active]) = Len(Appended) + 1
         /\ \A j \in DOMAIN files \ {Active} : files'[j] = files[j]
<1> DEFINE c == Append(Appended, written + 1)
<1>1. /\ Appended \in Seq(1..written)
      /\ \A k, m \in DOMAIN Appended : k < m => Appended[k] < Appended[m]
      /\ \A j \in DOMAIN files \ {Active} : \A k \in DOMAIN Appended, m \in DOMAIN files[j] :
           files[j][m] < Appended[k]
  BY AppendedContent
<1>2. /\ Len(c) = Len(Appended) + 1 /\ Len(Appended) \in Nat
      /\ DOMAIN c = 1..(Len(Appended) + 1) /\ DOMAIN Appended = 1..Len(Appended)
      /\ \A k \in DOMAIN Appended : c[k] = Appended[k]
      /\ c[Len(Appended) + 1] = written + 1
  BY <1>1
<1>3. written' = written + 1 /\ files' = With(Active, c)
  BY DEF Append1
<1>4. c \in Seq(1..written')
  <2>1. 1..written \subseteq 1..(written + 1) /\ written + 1 \in 1..(written + 1)
    OBVIOUS
  <2>2. Appended \in Seq(1..(written + 1))
    BY <1>1, <2>1
  <2> QED
    BY <1>3, <2>1, <2>2
<1>5. \A k \in DOMAIN Appended : Appended[k] \in 1..written
  BY <1>1
<1>6. \A j \in DOMAIN files : \A m \in DOMAIN files[j] : files[j][m] \in 1..written
  BY DEF FilesOK
<1> HIDE DEF c
<1>7. \A k \in DOMAIN c : k \in DOMAIN Appended \/ k = Len(Appended) + 1
  BY <1>2
<1>8. \A k, m \in DOMAIN c : k < m => c[k] < c[m]
  BY <1>1, <1>2, <1>5, <1>7, SMTT(30)
<1>9. \A j \in DOMAIN files \ {Active} : \A k \in DOMAIN c, m \in DOMAIN files[j] :
        files[j][m] < c[k]
  BY <1>1, <1>2, <1>6, <1>7
<1>10. /\ FilesOK' /\ Sorted'
       /\ DOMAIN files' = DOMAIN files \cup {Active}
       /\ files'[Active] = c
       /\ \A j \in DOMAIN files \ {Active} : files'[j] = files[j]
       /\ \A r : r \in Records' <=>
            \/ \E k \in DOMAIN c : c[k] = r
            \/ \E j \in DOMAIN files \ {Active} : \E k \in DOMAIN files[j] : files[j][k] = r
  BY <1>3, <1>4, <1>8, <1>9, WrittenFile, ZenonT(30)
<1>11. \A r : r \in Records' <=> r \in Records \/ r = written + 1
  <2>1. \A r : (\E k \in DOMAIN c : c[k] = r)
                 <=> (\E k \in DOMAIN Appended : Appended[k] = r) \/ r = written + 1
    BY <1>2, <1>7
  <2> QED
    BY <1>10, <2>1, AppendedContent
<1> QED
  BY <1>2, <1>10, <1>11

-----------------------------------------------------------------------------
(* The limits and the run of records, from what a step does to the files.  *)

\* A step that makes no archive beyond maxfiles keeps to the limit.
LEMMA WithinMaxFilesStep ==
  ASSUME WithinMaxFiles, SettingsKept,
         \A i \in Archives' : i \in Archives \/ (max_files > 0 => i <= max_files)
  PROVE  WithinMaxFiles'
BY Zenon DEF WithinMaxFiles, SettingsKept

\* A step that makes no file longer than maxsize keeps to the limit.
LEMMA BoundedBySizeStep ==
  ASSUME BoundedBySize, SettingsKept,
         \A i \in DOMAIN files' :
           \/ \E j \in DOMAIN files : files'[i] = files[j]
           \/ mode \in BySize /\ MaxSize > 0 => Len(files'[i]) <= MaxSize
  PROVE  BoundedBySize'
BY Zenon DEF BoundedBySize, SettingsKept

\* A step that keeps the records keeps them a run.
LEMMA SameRecords ==
  ASSUME OnlyOldestIsLost, SettingsKept, Records' = Records, written' = written
  PROVE  OnlyOldestIsLost'
BY Zenon DEF OnlyOldestIsLost, SettingsKept

\* The next record makes the run longer.
LEMMA OneMoreRecord ==
  ASSUME OnlyOldestIsLost, SettingsKept, written \in Nat,
         Records' = Records \cup {written + 1}, written' = written + 1
  PROVE  OnlyOldestIsLost'
<1> DEFINE Run(S, n) == S = {} \/ \E first \in 1..n : S = first..n
<1>1. steady' => Run(Records, written)
  BY Zenon DEF OnlyOldestIsLost, SettingsKept
<1>2. Run(Records, written) => Run(Records', written')
  <2>1. CASE Records = {}
    <3>1. Records' = (written + 1)..(written + 1) /\ written + 1 \in 1..(written + 1)
      BY <2>1
    <3> QED
      BY <3>1
  <2>2. ASSUME NEW first \in 1..written, Records = first..written
        PROVE  Run(Records', written')
    <3>1. Records' = first..(written + 1) /\ first \in 1..(written + 1)
      BY <2>2
    <3> QED
      BY <3>1
  <2> QED
    BY <2>1, <2>2
<1>3. steady' => Run(Records', written')
  BY <1>1, <1>2
<1> QED
  BY <1>3, Zenon DEF OnlyOldestIsLost

-----------------------------------------------------------------------------
(* One lemma per action.                                                   *)

\* What each step must keep: the invariant, and every record while the history
\* is unlimited.
StepKeeps == LogInv' /\ (max_files = 0 => Records \subseteq Records')

\* UNCHANGED settings, as the lemmas above need it.
LEMMA SameSettings ==
  ASSUME UNCHANGED settings
  PROVE  SettingsKept /\ max_files' = max_files /\ mode' = mode /\ steady' = steady
<1>1. max_files' = max_files /\ mode' = mode /\ steady' = steady
  BY DEF settings
<1>2. SettingsKept
  BY <1>1, Zenon DEF SettingsKept
<1> QED
  BY <1>1, <1>2

\* TypeOK speaks of files and of the writer.
LEMMA TypeParts ==
  ASSUME FilesOK, written \in Nat, current_size \in Nat,
         max_files \in MaxFilesValues, mode \in RollModes, steady \in BOOLEAN,
         op \in {"down", "idle", "start", "write", "restart"},
         at \in {"none", "remove", "shift", "open"}, index \in 0..MaxIndex
  PROVE  TypeOK
BY Zenon DEF TypeOK, FilesOK

\* A step that touches no file keeps what is said of the files.
LEMMA FilesUntouched ==
  ASSUME LogInv, files' = files, written' = written, SettingsKept
  PROVE  /\ FilesOK' /\ Sorted' /\ Records' = Records
         /\ WithinMaxFiles' /\ BoundedBySize' /\ OnlyOldestIsLost'
<1>1. FilesOK' /\ Sorted' /\ Records' = Records
  BY DEF LogInv, TypeOK, FilesOK, Sorted, Records
<1>2. \A i \in Archives' : i \in Archives
  BY DEF Archives
<1>3. WithinMaxFiles'
  BY <1>2, WithinMaxFilesStep DEF LogInv
<1>4. BoundedBySize'
  BY BoundedBySizeStep DEF LogInv
<1> QED
  BY <1>1, <1>3, <1>4, SameRecords DEF LogInv

\* from_config reads the settings.
LEMMA OpenStep == ASSUME LogInv, Open PROVE StepKeeps
<1>1. /\ files' = files /\ written' = written /\ current_size' = current_size
      /\ max_files' \in MaxFilesValues /\ mode' \in RollModes
      /\ op' = "start" /\ at' \in {"remove", "open"} /\ index' = 0
  BY DEF Open, StartRotation
<1>2. SettingsKept /\ steady' \in BOOLEAN
  <2>1. steady' = (steady /\ max_files' = max_files /\ mode' = mode)
    BY DEF Open
  <2> QED
    BY <2>1, Zenon DEF SettingsKept
<1>3. /\ FilesOK' /\ Sorted' /\ Records' = Records
      /\ WithinMaxFiles' /\ BoundedBySize' /\ OnlyOldestIsLost'
  BY <1>1, <1>2, FilesUntouched
<1>4. TypeOK'
  <2>1. index' \in 0..MaxIndex /\ written' \in Nat /\ current_size' \in Nat
    BY <1>1, RotationAssumption DEF LogInv, TypeOK
  <2> QED
    BY <1>1, <1>2, <1>3, <2>1 DEF TypeOK, FilesOK
<1>5. Rotating' /\ Counting'
  BY <1>1 DEF Rotating, Counting
<1> QED
  BY <1>3, <1>4, <1>5 DEF LogInv, StepKeeps

\* A JVM restart, and a record that finds the file full, start a rotation.
LEMMA StartRotationStep ==
  ASSUME LogInv, op = "idle", NEW caller \in {"write", "restart"}, StartRotation(caller),
         caller = "write" => SizeReached,
         UNCHANGED <<files, written, settings, current_size>>
  PROVE  StepKeeps
<1>1. /\ files' = files /\ written' = written /\ current_size' = current_size
      /\ op' = caller /\ at' = "remove" /\ index' = 0
  BY DEF StartRotation
<1>2. SettingsKept /\ max_files' = max_files /\ mode' = mode /\ steady' = steady
  BY SameSettings
<1>3. /\ FilesOK' /\ Sorted' /\ Records' = Records
      /\ WithinMaxFiles' /\ BoundedBySize' /\ OnlyOldestIsLost'
  BY <1>1, <1>2, FilesUntouched
<1>4. TypeOK'
  BY <1>1, <1>2, <1>3, RotationAssumption DEF LogInv, TypeOK, FilesOK
<1>5. Rotating' /\ Counting'
  BY <1>1, <1>2 DEF LogInv, Rotating, Counting, SizeReached
<1> QED
  BY <1>3, <1>4, <1>5 DEF LogInv, StepKeeps

\* A call that fails and a wrapper that dies leave the files as they are.
LEMMA FailOrCrashStep == ASSUME LogInv, Fail \/ Crash PROVE StepKeeps
<1>1. /\ files' = files /\ written' = written /\ current_size' = current_size
      /\ op' = "down" \/ (op = "write" /\ op' = "idle")
      /\ at' = "none" /\ index' = 0
  BY DEF Fail, Crash
<1>2. SettingsKept /\ max_files' = max_files /\ mode' = mode /\ steady' = steady
  BY SameSettings DEF Fail, Crash
<1>3. /\ FilesOK' /\ Sorted' /\ Records' = Records
      /\ WithinMaxFiles' /\ BoundedBySize' /\ OnlyOldestIsLost'
  BY <1>1, <1>2, FilesUntouched
<1>4. TypeOK'
  BY <1>1, <1>2, <1>3, RotationAssumption DEF LogInv, TypeOK, FilesOK
<1>5. Rotating' /\ Counting'
  BY <1>1, <1>2 DEF LogInv, Rotating, Counting, SizeReached
<1> QED
  BY <1>3, <1>4, <1>5 DEF LogInv, StepKeeps

\* Between two calls nothing changes.
LEMMA IdleStep == ASSUME LogInv, UNCHANGED vars PROVE StepKeeps
<1>1. /\ files' = files /\ written' = written /\ current_size' = current_size
      /\ op' = op /\ at' = at /\ index' = index
  BY DEF vars, rotation
<1>2. SettingsKept /\ max_files' = max_files /\ mode' = mode /\ steady' = steady
  BY SameSettings DEF vars
<1>3. /\ FilesOK' /\ Sorted' /\ Records' = Records
      /\ WithinMaxFiles' /\ BoundedBySize' /\ OnlyOldestIsLost'
  BY <1>1, <1>2, FilesUntouched
<1>4. TypeOK'
  BY <1>1, <1>2, <1>3 DEF LogInv, TypeOK, FilesOK
<1>5. Rotating' /\ Counting'
  BY <1>1, <1>2 DEF LogInv, Rotating, Counting, SizeReached
<1> QED
  BY <1>3, <1>4, <1>5 DEF LogInv, StepKeeps

\* The open at the start appends to what an earlier wrapper left.
LEMMA OpenAppendStep == ASSUME LogInv, OpenAppend PROVE StepKeeps
<1>1. /\ written' = written /\ current_size' = Len(Appended)
      /\ files' = With(Active, Appended)
      /\ op' = "idle" /\ at' = "none" /\ index' = 0
  BY DEF OpenAppend, Ready, SizeAtOpen
<1>2. SettingsKept /\ max_files' = max_files /\ mode' = mode /\ steady' = steady
  BY SameSettings DEF OpenAppend
<1>3. FilesOK /\ Sorted /\ written \in Nat
  BY DEF LogInv, TypeOK, FilesOK
<1>4. /\ FilesOK' /\ Sorted' /\ Records' = Records
      /\ DOMAIN files' = DOMAIN files \cup {Active}
      /\ files'[Active] = Appended
      /\ \A j \in DOMAIN files \ {Active} : files'[j] = files[j]
  BY <1>1, <1>3, OpenedFile
<1>5. Appended \in Seq(1..written)
  BY <1>3, AppendedContent
<1>6. TypeOK'
  BY <1>1, <1>2, <1>4, <1>5, RotationAssumption DEF LogInv, TypeOK, FilesOK
<1>7. Rotating' /\ Counting'
  BY <1>1, <1>4 DEF Rotating, Counting
<1>8. WithinMaxFiles'
  <2>1. \A i \in Archives' : i \in Archives
    BY <1>4 DEF Archives
  <2> QED
    BY <1>2, <2>1, WithinMaxFilesStep DEF LogInv
<1>9. BoundedBySize'
  <2>1. CASE Active \in DOMAIN files
    <3>1. \A i \in DOMAIN files' : \E j \in DOMAIN files : files'[i] = files[j]
      BY <1>4, <2>1 DEF Appended
    <3> QED
      BY <1>2, <3>1, BoundedBySizeStep DEF LogInv
  <2>2. CASE Active \notin DOMAIN files
    <3>1. Appended = <<>> /\ Len(Appended) = 0
      BY <2>2 DEF Appended
    <3>2. \A i \in DOMAIN files' :
            \/ \E j \in DOMAIN files : files'[i] = files[j]
            \/ mode \in BySize /\ MaxSize > 0 => Len(files'[i]) <= MaxSize
      BY <1>4, <3>1, RotationAssumption
    <3> QED
      BY <1>2, <3>2, BoundedBySizeStep DEF LogInv
  <2> QED
    BY <2>1, <2>2
<1>10. OnlyOldestIsLost'
  BY <1>1, <1>2, <1>4, SameRecords DEF LogInv
<1> QED
  BY <1>4, <1>6, <1>7, <1>8, <1>9, <1>10 DEF LogInv, StepKeeps

\* A truncating open finds no file, so it truncates none.
LEMMA OpenTruncatedStep == ASSUME LogInv, OpenTruncated PROVE StepKeeps
<1>0. Active \notin DOMAIN files
  BY DEF LogInv, Rotating, OpenTruncated
<1>1. Appended = <<>> /\ Len(Appended) = 0
  BY <1>0 DEF Appended
<1>2. /\ written' = written /\ current_size' = 0
      /\ files' = With(Active, Appended)
      /\ op' = "idle" /\ at' = "none" /\ index' = 0
  BY <1>1 DEF OpenTruncated, Ready
<1>3. SettingsKept /\ max_files' = max_files /\ mode' = mode /\ steady' = steady
  BY SameSettings DEF OpenTruncated
<1>4. /\ FilesOK' /\ Sorted' /\ Records' = Records
      /\ DOMAIN files' = DOMAIN files \cup {Active}
      /\ files'[Active] = Appended
      /\ \A j \in DOMAIN files \ {Active} : files'[j] = files[j]
  <2>1. FilesOK /\ Sorted /\ written \in Nat
    BY DEF LogInv, TypeOK, FilesOK
  <2> QED
    BY <1>2, <2>1, OpenedFile
<1>5. TypeOK'
  BY <1>2, <1>3, <1>4, RotationAssumption DEF LogInv, TypeOK, FilesOK
<1>6. Rotating' /\ Counting'
  BY <1>1, <1>2, <1>4 DEF Rotating, Counting
<1>7. WithinMaxFiles'
  <2>1. \A i \in Archives' : i \in Archives
    BY <1>4 DEF Archives
  <2> QED
    BY <1>3, <2>1, WithinMaxFilesStep DEF LogInv
<1>8. BoundedBySize'
  <2>1. \A i \in DOMAIN files' :
          \/ \E j \in DOMAIN files : files'[i] = files[j]
          \/ mode \in BySize /\ MaxSize > 0 => Len(files'[i]) <= MaxSize
    BY <1>1, <1>4, RotationAssumption
  <2> QED
    BY <1>3, <2>1, BoundedBySizeStep DEF LogInv
<1>9. OnlyOldestIsLost'
  BY <1>2, <1>3, <1>4, SameRecords DEF LogInv
<1> QED
  BY <1>4, <1>5, <1>6, <1>7, <1>8, <1>9 DEF LogInv, StepKeeps

\* A record that does not fill the file beyond maxsize, whatever led to it.
LEMMA RecordStep ==
  ASSUME LogInv, Append1(Appended), UNCHANGED settings,
         op' = "idle", at' = "none", index' \in 0..MaxIndex,
         current_size' = Len(Appended) + 1,
         (mode \in BySize /\ MaxSize > 0) => Len(Appended) < MaxSize
  PROVE  StepKeeps
<1>1. SettingsKept /\ max_files' = max_files /\ mode' = mode /\ steady' = steady
  BY SameSettings
<1>2. FilesOK /\ Sorted /\ written \in Nat
  BY DEF LogInv, TypeOK, FilesOK
<1>3. /\ FilesOK' /\ Sorted' /\ Records' = Records \cup {written + 1}
      /\ DOMAIN files' = DOMAIN files \cup {Active}
      /\ Len(files'[Active]) = Len(Appended) + 1
      /\ \A j \in DOMAIN files \ {Active} : files'[j] = files[j]
  BY <1>2, AppendedRecord
<1>4. Appended \in Seq(1..written) /\ written' = written + 1
  BY <1>2, AppendedContent DEF Append1
<1>5. TypeOK'
  <2>1. current_size' \in Nat /\ written' \in Nat
    BY <1>2, <1>4
  <2> QED
    BY <1>1, <1>3, <2>1 DEF LogInv, TypeOK, FilesOK
<1>6. Rotating' /\ Counting'
  BY <1>3 DEF Rotating, Counting
<1>7. WithinMaxFiles'
  <2>1. \A i \in Archives' : i \in Archives
    BY <1>3 DEF Archives
  <2> QED
    BY <1>1, <2>1, WithinMaxFilesStep DEF LogInv
<1>8. BoundedBySize'
  <2>1. Len(Appended) \in Nat /\ MaxSize \in Nat
    BY <1>4, RotationAssumption
  <2>2. \A i \in DOMAIN files' :
          \/ \E j \in DOMAIN files : files'[i] = files[j]
          \/ mode \in BySize /\ MaxSize > 0 => Len(files'[i]) <= MaxSize
    BY <1>3, <2>1
  <2> QED
    BY <1>1, <2>2, BoundedBySizeStep DEF LogInv
<1>9. OnlyOldestIsLost'
  BY <1>1, <1>2, <1>3, <1>4, OneMoreRecord DEF LogInv
<1> QED
  BY <1>3, <1>5, <1>6, <1>7, <1>8, <1>9 DEF LogInv, StepKeeps

\* write_bytes.
LEMMA WriteStep == ASSUME LogInv, Write PROVE StepKeeps
<1>1. CASE SizeReached
  BY <1>1, StartRotationStep DEF Write
<1>2. CASE ~SizeReached
  <2>1. Active \in DOMAIN files /\ current_size = Len(files[Active])
    BY <1>2 DEF Write, LogInv, Rotating, Counting
  <2>2. Appended = files[Active]
    BY <2>1 DEF Appended
  <2>3. /\ Append1(Appended) /\ UNCHANGED settings /\ UNCHANGED rotation
        /\ current_size' = current_size + 1 /\ op = "idle"
    BY <1>2, <2>2 DEF Write
  <2>4. op' = "idle" /\ at' = "none" /\ index' \in 0..MaxIndex
    BY <2>3 DEF rotation, LogInv, Rotating, TypeOK
  <2>5. (mode \in BySize /\ MaxSize > 0) => Len(Appended) < MaxSize
    BY <1>2, <2>1, <2>2, RotationAssumption DEF SizeReached, LogInv, TypeOK
  <2> QED
    BY <2>1, <2>2, <2>3, <2>4, <2>5, RecordStep
<1> QED
  BY <1>1, <1>2

\* The record that caused a rotation is the first of the new file.
LEMMA OpenTruncatedAndWriteStep == ASSUME LogInv, OpenTruncatedAndWrite PROVE StepKeeps
<1>1. Active \notin DOMAIN files
  BY DEF LogInv, Rotating, OpenTruncatedAndWrite
<1>2. Appended = <<>> /\ Len(Appended) = 0
  BY <1>1 DEF Appended
<1>3. /\ Append1(Appended) /\ UNCHANGED settings
      /\ op' = "idle" /\ at' = "none" /\ index' \in 0..MaxIndex
      /\ current_size' = Len(Appended) + 1
  BY <1>2, RotationAssumption DEF OpenTruncatedAndWrite, Ready
<1>4. (mode \in BySize /\ MaxSize > 0) => Len(Appended) < MaxSize
  BY <1>2, RotationAssumption
<1> QED
  BY <1>3, <1>4, RecordStep

\* The first call of rotate: the archive that goes is the oldest there is,
\* unless an earlier wrapper had a higher maxfiles.
LEMMA RotateRemoveStep == ASSUME LogInv, RotateRemove PROVE StepKeeps
<1>1. /\ written' = written /\ current_size' = current_size /\ op' = op
      /\ at = "remove" /\ at' = "shift" /\ index' = rotation_limit - 1
      /\ rotation_limit <= MaxIndex
  BY DEF RotateRemove, Fits
<1>2. SettingsKept /\ max_files' = max_files /\ mode' = mode /\ steady' = steady
  BY SameSettings DEF RotateRemove
<1>3. FilesOK /\ Sorted /\ written \in Nat /\ max_files \in 0..MaxIndex /\ MaxIndex \in Nat
  BY RotationAssumption DEF LogInv, TypeOK, FilesOK
<1>4. CASE max_files = 0
  <2>1. files' = files
    BY <1>4 DEF RotateRemove
  <2>2. /\ FilesOK' /\ Sorted' /\ Records' = Records
        /\ WithinMaxFiles' /\ BoundedBySize' /\ OnlyOldestIsLost'
    BY <1>1, <1>2, <2>1, FilesUntouched
  <2>3. /\ index' + 1 = highest_rolled_index + 1
        /\ index' + 1 \in 1..MaxIndex /\ index' \in 0..MaxIndex
        /\ index' + 1 \notin DOMAIN files
    <3>1. /\ highest_rolled_index \in 0..MaxIndex
          /\ \A i \in Archives : i <= highest_rolled_index
      BY HighestRolledIndex DEF LogInv
    <3>2. rotation_limit = highest_rolled_index + 1
      BY <1>4 DEF rotation_limit
    <3>3. index' + 1 = highest_rolled_index + 1 /\ index' + 1 \in 1..MaxIndex /\ index' \in 0..MaxIndex
      BY <1>1, <3>1, <3>2
    <3>4. highest_rolled_index + 1 \notin DOMAIN files
      BY <3>1 DEF Archives, Active
    <3> QED
      BY <3>3, <3>4
  <2>4. TypeOK'
    BY <1>1, <1>2, <2>2, <2>3 DEF LogInv, TypeOK, FilesOK
  <2>5. Rotating' /\ Counting'
    BY <1>1, <1>2, <1>4, <2>1, <2>3 DEF LogInv, Rotating, Counting, SizeReached
  <2> QED
    BY <2>2, <2>4, <2>5 DEF LogInv, StepKeeps
<1>5. CASE max_files # 0
  <2>1. files' = Without(max_files) /\ rotation_limit = max_files
    BY <1>5 DEF RotateRemove, rotation_limit
  <2>2. /\ FilesOK' /\ Sorted'
        /\ DOMAIN files' = DOMAIN files \ {max_files}
        /\ \A j \in DOMAIN files \ {max_files} : files'[j] = files[j]
    BY <1>1, <1>3, <2>1, RemovedFile
  <2>3. /\ index' + 1 = max_files /\ index' \in 0..MaxIndex
        /\ index' + 1 \in 1..MaxIndex /\ index' < max_files
        /\ max_files \in 1..MaxIndex /\ max_files # Active
    <3>1. index' = max_files - 1
      BY <1>1, <2>1
    <3> QED
      BY <1>3, <1>5, <3>1 DEF Active
  <2>4. TypeOK'
    BY <1>1, <1>2, <2>2, <2>3 DEF LogInv, TypeOK, FilesOK
  <2>5. Rotating'
    <3>1. index' + 1 \notin DOMAIN files'
      BY <2>2, <2>3
    <3> QED
      BY <1>1, <1>2, <2>3, <3>1 DEF LogInv, Rotating, SizeReached
  <2>6. Counting'
    BY <1>1, <2>2, <2>3 DEF LogInv, Counting
  <2>7. WithinMaxFiles'
    <3>1. \A i \in Archives' : i \in Archives
      BY <2>2 DEF Archives
    <3> QED
      BY <1>2, <3>1, WithinMaxFilesStep DEF LogInv
  <2>8. BoundedBySize'
    <3>1. \A i \in DOMAIN files' : \E j \in DOMAIN files : files'[i] = files[j]
      BY <2>2
    <3> QED
      BY <1>2, <3>1, BoundedBySizeStep DEF LogInv
  <2>9. OnlyOldestIsLost'
    <3> DEFINE Run(S) == S = {} \/ \E first \in 1..written : S = first..written
    <3>1. steady' => Run(Records) /\ (max_files > 0 => \A i \in Archives : i <= max_files)
      BY <1>2, Zenon DEF LogInv, OnlyOldestIsLost, WithinMaxFiles
    <3>2. max_files > 0
      BY <2>3
    <3>3. ASSUME \A i \in Archives : i <= max_files
          PROVE  \A j \in DOMAIN files : j <= max_files
      BY <2>3, <3>3 DEF Archives, Active
    <3>4. Run(Records) /\ (\A j \in DOMAIN files : j <= max_files) => Run(Records')
      BY <1>1, <1>3, <2>1, RemovedOldest
    <3>5. steady' => Run(Records')
      <4> HIDE DEF Run
      <4> QED
        BY <3>1, <3>2, <3>3, <3>4, Zenon
    <3> QED
      BY <1>1, <3>5, Zenon DEF OnlyOldestIsLost
  <2> QED
    BY <1>5, <2>2, <2>4, <2>5, <2>6, <2>7, <2>8, <2>9 DEF LogInv, StepKeeps
<1> QED
  BY <1>4, <1>5

\* A file goes one number up, into a free place within the limit.
LEMMA RenameStep ==
  ASSUME LogInv, NEW i \in DOMAIN files, i + 1 \notin DOMAIN files, i + 1 \in 1..MaxIndex,
         max_files > 0 => i < max_files,
         files' = Renamed(i, i + 1), UNCHANGED <<written, settings>>
  PROVE  /\ FilesOK' /\ Sorted' /\ Records' = Records
         /\ WithinMaxFiles' /\ BoundedBySize' /\ OnlyOldestIsLost'
         /\ DOMAIN files' = (DOMAIN files \ {i}) \cup {i + 1}
         /\ \A j \in DOMAIN files \ {i} : files'[j] = files[j]
<1>1. SettingsKept
  BY SameSettings
<1>2. FilesOK /\ Sorted /\ i \in Nat /\ max_files \in Nat /\ i + 1 \in 0..MaxIndex /\ written' = written
  BY RotationAssumption DEF LogInv, TypeOK, FilesOK
<1>3. /\ FilesOK' /\ Sorted' /\ Records' = Records
      /\ DOMAIN files' = (DOMAIN files \ {i}) \cup {i + 1}
      /\ files'[i + 1] = files[i]
      /\ \A j \in DOMAIN files \ {i} : files'[j] = files[j]
  BY <1>2, RenamedFile
<1>4. WithinMaxFiles'
  <2>1. \A j \in Archives' : j \in Archives \/ (max_files > 0 => j <= max_files)
    BY <1>2, <1>3 DEF Archives
  <2> QED
    BY <1>1, <2>1, WithinMaxFilesStep DEF LogInv
<1>5. BoundedBySize'
  <2>1. \A j \in DOMAIN files' : \E k \in DOMAIN files : files'[j] = files[k]
    BY <1>3
  <2> QED
    BY <1>1, <2>1, BoundedBySizeStep DEF LogInv
<1>6. OnlyOldestIsLost'
  BY <1>1, <1>3, SameRecords DEF LogInv
<1> QED
  BY <1>3, <1>4, <1>5, <1>6

\* One round of the loop.
LEMMA RotateShiftStep == ASSUME LogInv, RotateShift PROVE StepKeeps
<1>1. /\ written' = written /\ current_size' = current_size /\ op' = op
      /\ at = "shift" /\ at' = "shift" /\ index > 0 /\ index' = index - 1
      /\ index \in 0..MaxIndex /\ index' \in 0..MaxIndex
      /\ index + 1 \in 1..MaxIndex /\ index + 1 \notin DOMAIN files
      /\ max_files > 0 => index < max_files
  BY RotationAssumption DEF RotateShift, LogInv, Rotating, TypeOK
<1>2. /\ SettingsKept /\ max_files' = max_files /\ mode' = mode /\ steady' = steady
      /\ UNCHANGED <<written, settings>> /\ max_files \in Nat
  BY SameSettings, RotationAssumption DEF RotateShift, LogInv, TypeOK
<1>3. /\ FilesOK' /\ Sorted' /\ Records' = Records
      /\ WithinMaxFiles' /\ BoundedBySize' /\ OnlyOldestIsLost'
      /\ index \notin DOMAIN files'
      /\ Active \in DOMAIN files' => Active \in DOMAIN files /\ files'[Active] = files[Active]
      /\ Active \in DOMAIN files => Active \in DOMAIN files'
  <2>1. CASE index \in DOMAIN files
    <3>1. files' = Renamed(index, index + 1)
      BY <2>1 DEF RotateShift
    <3>2. /\ FilesOK' /\ Sorted' /\ Records' = Records
          /\ WithinMaxFiles' /\ BoundedBySize' /\ OnlyOldestIsLost'
          /\ DOMAIN files' = (DOMAIN files \ {index}) \cup {index + 1}
          /\ \A j \in DOMAIN files \ {index} : files'[j] = files[j]
      BY <1>1, <1>2, <2>1, <3>1, RenameStep
    <3> QED
      BY <1>1, <3>2 DEF Active
  <2>2. CASE index \notin DOMAIN files
    <3>1. files' = files
      BY <2>2 DEF RotateShift
    <3> QED
      BY <1>1, <1>2, <2>2, <3>1, FilesUntouched
  <2> QED
    BY <2>1, <2>2
<1>4. TypeOK'
  BY <1>1, <1>2, <1>3 DEF LogInv, TypeOK, FilesOK
<1>5. Rotating'
  <2>1. /\ index' + 1 = index /\ index \in 1..MaxIndex
        /\ max_files > 0 => index' < max_files
    BY <1>1, <1>2
  <2> QED
    BY <1>1, <1>2, <1>3, <2>1 DEF LogInv, Rotating, SizeReached
<1>6. Counting'
  BY <1>1, <1>3 DEF LogInv, Counting
<1> QED
  BY <1>3, <1>4, <1>5, <1>6 DEF LogInv, StepKeeps

\* The active file becomes archive 1.
LEMMA RotateActiveStep == ASSUME LogInv, RotateActive PROVE StepKeeps
<1>1. /\ written' = written /\ current_size' = current_size /\ op' = op
      /\ at = "shift" /\ at' = "open" /\ index = 0 /\ index' = 0
      /\ 1 \in 1..MaxIndex /\ 1 \notin DOMAIN files
  BY DEF RotateActive, LogInv, Rotating
<1>2. /\ SettingsKept /\ max_files' = max_files /\ mode' = mode /\ steady' = steady
      /\ UNCHANGED <<written, settings>> /\ max_files \in Nat
  BY SameSettings, RotationAssumption DEF RotateActive, LogInv, TypeOK
<1>3. /\ FilesOK' /\ Sorted' /\ Records' = Records
      /\ WithinMaxFiles' /\ BoundedBySize' /\ OnlyOldestIsLost'
      /\ Active \notin DOMAIN files'
  <2>1. CASE Active \in DOMAIN files
    <3>1. files' = Renamed(Active, Active + 1) /\ Active + 1 = 1 /\ (max_files > 0 => Active < max_files)
      BY <1>2, <2>1 DEF RotateActive, FirstArchive, Active
    <3>2. /\ FilesOK' /\ Sorted' /\ Records' = Records
          /\ WithinMaxFiles' /\ BoundedBySize' /\ OnlyOldestIsLost'
          /\ DOMAIN files' = (DOMAIN files \ {Active}) \cup {Active + 1}
      BY <1>1, <1>2, <2>1, <3>1, RenameStep
    <3> QED
      BY <3>2 DEF Active
  <2>2. CASE Active \notin DOMAIN files
    <3>1. files' = files
      BY <2>2 DEF RotateActive
    <3> QED
      BY <1>1, <1>2, <2>2, <3>1, FilesUntouched
  <2> QED
    BY <2>1, <2>2
<1>4. TypeOK'
  BY <1>1, <1>2, <1>3, RotationAssumption DEF LogInv, TypeOK, FilesOK
<1>5. Rotating' /\ Counting'
  BY <1>1, <1>2, <1>3 DEF LogInv, Rotating, Counting, SizeReached
<1> QED
  BY <1>3, <1>4, <1>5 DEF LogInv, StepKeeps

-----------------------------------------------------------------------------
(* The theorems.                                                           *)

\* No file is there before the first start.
LEMMA LogInit == ASSUME Init PROVE LogInv
<1>1. /\ DOMAIN files = {} /\ written = 0 /\ current_size = 0 /\ index = 0
      /\ op = "down" /\ at = "none"
      /\ max_files \in MaxFilesValues /\ mode \in RollModes /\ steady \in BOOLEAN
  BY DEF Init
<1>2. FilesOK
  BY <1>1 DEF FilesOK
<1>3. TypeOK
  BY <1>1, <1>2, RotationAssumption DEF TypeOK, FilesOK
<1>4. Sorted /\ Rotating /\ Counting
  BY <1>1 DEF Sorted, Rotating, Counting
<1>5. WithinMaxFiles /\ BoundedBySize /\ OnlyOldestIsLost
  <2>1. Archives = {} /\ Records = {}
    BY <1>1 DEF Archives, Records
  <2> QED
    BY <1>1, <2>1, Zenon DEF WithinMaxFiles, BoundedBySize, OnlyOldestIsLost
<1> QED
  BY <1>3, <1>4, <1>5 DEF LogInv

\* Every step keeps the invariant, and every record of an unlimited history.
LEMMA LogStep == ASSUME LogInv, [Next]_vars PROVE StepKeeps
<1>1. CASE roll_for_jvm_restart
  BY <1>1, StartRotationStep DEF roll_for_jvm_restart
<1> QED
  BY <1>1, OpenStep, OpenAppendStep, WriteStep, OpenTruncatedAndWriteStep,
     OpenTruncatedStep, RotateRemoveStep, RotateShiftStep, RotateActiveStep,
     FailOrCrashStep, IdleStep DEF Next

\* The invariant holds of every behaviour.
LEMMA LogInvariance == Spec => []LogInv
<1>1. LogInv /\ [Next]_vars => LogInv'
  BY LogStep DEF StepKeeps
<1> QED
  BY <1>1, LogInit, PTL DEF Spec

\* The variables of the log writer keep their types: in particular no archive
\* number leaves u32.
THEOREM LogTypeCorrect == Spec => []TypeOK
<1>1. LogInv => TypeOK
  BY DEF LogInv
<1> QED
  BY <1>1, LogInvariance, PTL

\* The archives are in order at every moment, the middle of an interrupted
\* rotation included.
THEOREM ArchivesAreInOrder == Spec => []Chronological
<1>1. LogInv => Chronological
  <2> SUFFICES ASSUME LogInv PROVE Chronological
    OBVIOUS
  <2>1. \A i \in DOMAIN files : \A k \in 2..Len(files[i]) : files[i][k - 1] < files[i][k]
    <3> SUFFICES ASSUME NEW i \in DOMAIN files, NEW k \in 2..Len(files[i])
                 PROVE  files[i][k - 1] < files[i][k]
      OBVIOUS
    <3>1. files[i] \in Seq(1..written)
      BY DEF LogInv, TypeOK
    <3>2. k - 1 \in DOMAIN files[i] /\ k \in DOMAIN files[i] /\ k - 1 < k
      BY <3>1
    <3> QED
      BY <3>2 DEF LogInv, Sorted
  <2> QED
    BY <2>1 DEF LogInv, Sorted, Chronological
<1> QED
  BY <1>1, LogInvariance, PTL

\* Under one setting, rotation deletes nothing but the oldest records.
THEOREM RotationLosesTheOldest == Spec => []OnlyOldestIsLost
<1>1. LogInv => OnlyOldestIsLost
  BY DEF LogInv
<1> QED
  BY <1>1, LogInvariance, PTL

\* Under one setting, maxfiles and maxsize are kept at every moment.
THEOREM LimitsAreKept == Spec => []WithinLimits
<1>1. LogInv => WithinLimits
  BY DEF LogInv, WithinLimits
<1> QED
  BY <1>1, LogInvariance, PTL

\* No step of a wrapper with maxfiles=0 deletes a record.
THEOREM UnlimitedHistoryIsKept == Spec => UnlimitedKeepsAll
<1>1. LogInv /\ [Next]_vars =>
        [max_files = 0 /\ max_files' = 0 => Records \subseteq Records']_vars
  BY LogStep DEF StepKeeps
<1> QED
  BY <1>1, LogInvariance, PTL DEF Spec, UnlimitedKeepsAll

-----------------------------------------------------------------------------
(* PID files.                                                              *)

\* Where a wrapper is after it has written a file and before it has dropped it.
Holds(place, file) ==
  /\ place.at \notin {"start", "checked", "ended"}
  /\ file = "java.idfile" => place.file # "pidfile"
  /\ file = "java.pidfile" =>
       place.at \in {"up", "crashed"} \/ place.file = "java.pidfile"

\* The variables are functions on the wrappers and the files.
Domains ==
  /\ DOMAIN disk = File /\ DOMAIN writer = File
  /\ DOMAIN owned = Wrappers /\ DOMAIN pc = Wrappers
  /\ \A w \in Wrappers : DOMAIN owned[w] = File

\* A readable file is the one its last writer remembers, and that wrapper has
\* still to drop it, was killed before it could, or failed to.
Kept(file) ==
  disk[file] \notin {Absent, Garbled} /\ file \notin stuck =>
    /\ writer[file] \in Wrappers
    /\ owned[writer[file]][file] = disk[file]
    /\ Holds(pc[writer[file]], file)

OwnedInv == Domains /\ \A file \in File : Kept(file)

-----------------------------------------------------------------------------
(* The building blocks.                                                    *)

\* A place where a wrapper is ended holds no file.
LEMMA HoldersHaveNotEnded ==
  ASSUME NEW file \in File, NEW place, Holds(place, file)
  PROVE  place.at # "ended"
  BY DEF Holds, File, At, Read, Remove

\* Moving a wrapper to where it still holds its files keeps its files.
LEMMA MoveKeeps ==
  ASSUME OwnedInv, NEW w \in Wrappers, NEW place, Goto(w, place),
         UNCHANGED <<disk, owned, writer, stuck>>,
         \A file \in File : Holds(pc[w], file) => Holds(place, file)
  PROVE  OwnedInv'
<1>1. Domains'
  BY DEF OwnedInv, Domains, Goto
<1>2. ASSUME NEW file \in File PROVE Kept(file)'
  BY DEF OwnedInv, Domains, Kept, Goto
<1> QED
  BY <1>1, <1>2 DEF OwnedInv

\* A write that succeeds makes the file the writer's.
LEMMA WriteKeeps ==
  ASSUME OwnedInv, NEW w \in Wrappers, NEW saved \in File, NEW place,
         WriteFile(w, saved), Goto(w, place), Holds(place, saved),
         \A file \in File : Holds(pc[w], file) => Holds(place, file)
  PROVE  OwnedInv'
<1>1. Domains'
  BY DEF OwnedInv, Domains, Goto, WriteFile
<1>2. ASSUME NEW file \in File PROVE Kept(file)'
  <2>1. CASE file = saved
    BY <2>1 DEF OwnedInv, Domains, Kept, Goto, WriteFile
  <2>2. CASE file # saved
    <3>1. /\ disk'[file] = disk[file] /\ writer'[file] = writer[file]
          /\ file \in stuck' <=> file \in stuck
      BY <2>2 DEF OwnedInv, Domains, WriteFile
    <3>2. \A v \in Wrappers : owned'[v][file] = owned[v][file]
      BY <2>2 DEF OwnedInv, Domains, WriteFile
    <3>3. \A v \in Wrappers : Holds(pc[v], file) => Holds(pc'[v], file)
      BY DEF OwnedInv, Domains, Goto
    <3> QED
      BY <3>1, <3>2, <3>3 DEF OwnedInv, Kept
  <2> QED
    BY <2>1, <2>2
<1> QED
  BY <1>1, <1>2 DEF OwnedInv

\* One that fails leaves the file as it was, or unreadable.
LEMMA WriteFailsKeeps ==
  ASSUME OwnedInv, NEW w \in Wrappers, NEW saved \in File, NEW place,
         WriteFails(saved), Goto(w, place),
         \A file \in File : Holds(pc[w], file) => Holds(place, file)
  PROVE  OwnedInv'
<1>1. Domains'
  BY DEF OwnedInv, Domains, Goto, WriteFails
<1>2. ASSUME NEW file \in File PROVE Kept(file)'
  <2>1. disk'[file] \notin {Absent, Garbled} =>
          disk'[file] = disk[file] /\ writer'[file] = writer[file]
    BY DEF OwnedInv, Domains, WriteFails
  <2>2. \A v \in Wrappers : Holds(pc[v], file) => Holds(pc'[v], file)
    BY DEF OwnedInv, Domains, Goto
  <2> QED
    BY <2>1, <2>2 DEF OwnedInv, Kept, WriteFails
<1> QED
  BY <1>1, <1>2 DEF OwnedInv

\* Where a drop leads: to a place that still holds every other file.
LEMMA AfterDropPlace ==
  ASSUME NEW w \in Wrappers, NEW dropped \in File, AfterDrop(w, dropped),
         pc[w] \in {Read(dropped), Remove(dropped)} \cup {At("spawned")},
         pc[w] = At("spawned") => dropped = "java.pidfile"
  PROVE  \E place : /\ Goto(w, place)
                    /\ \A file \in File \ {dropped} :
                         Holds(pc[w], file) => Holds(place, file)
<1>1. CASE dropped = "java.pidfile"
  <2>1. \A file \in File \ {dropped} :
           Holds(Read("java.idfile"), file) /\ Holds(At("launch"), file)
    BY <1>1 DEF Holds, File, At, Read
  <2> QED
    BY <1>1, <2>1 DEF AfterDrop
<1>2. CASE dropped = "java.idfile"
  <2>1. Goto(w, Read("pidfile"))
    BY <1>2 DEF AfterDrop
  <2>2. \A file \in File \ {dropped} :
           Holds(pc[w], file) => Holds(Read("pidfile"), file)
    BY <1>2 DEF Holds, File, At, Read, Remove
  <2> QED
    BY <2>1, <2>2
<1>3. CASE dropped = "pidfile"
  <2>1. Goto(w, At("ended"))
    BY <1>3 DEF AfterDrop
  <2>2. \A file \in File \ {dropped} : ~Holds(pc[w], file)
    BY <1>3 DEF Holds, File, At, Read, Remove
  <2> QED
    BY <2>1, <2>2
<1> QED
  BY <1>1, <1>2, <1>3 DEF File

-----------------------------------------------------------------------------
(* The steps of a wrapper.                                                 *)

\* The run, up to the drop of its files.
LEMMA RunKeeps ==
  ASSUME OwnedInv, NEW w \in Wrappers,
         \/ Check(w) \/ CreatePidFile(w) \/ UpdateIdFile(w)
         \/ CreateJavaPidFile(w) \/ RunEnds(w) \/ JvmEnds(w) \/ Killed(w)
  PROVE  OwnedInv'
<1> USE DEF Holds, File, At, Read, Remove
<1>1. CASE Check(w)
  <2>1. PICK place : Goto(w, place)
    BY <1>1 DEF Check
  <2>2. \A file \in File : ~Holds(pc[w], file)
    BY <1>1 DEF Check
  <2> QED
    BY <1>1, <2>1, <2>2, MoveKeeps DEF Check
<1>2. CASE CreatePidFile(w)
  <2>1. \A file \in File : ~Holds(pc[w], file)
    BY <1>2 DEF CreatePidFile
  <2>2. CASE WriteFile(w, "pidfile") /\ Goto(w, At("launch"))
    <3>1. "pidfile" \in File /\ Holds(At("launch"), "pidfile")
      OBVIOUS
    <3> QED
      BY <2>1, <2>2, <3>1, WriteKeeps
  <2>3. CASE WriteFails("pidfile") /\ Goto(w, At("ended"))
    BY <2>1, <2>3, WriteFailsKeeps
  <2> QED
    BY <1>2, <2>2, <2>3 DEF CreatePidFile
<1>3. CASE UpdateIdFile(w)
  <2>1. \A file \in File : Holds(pc[w], file) => Holds(At("spawned"), file)
    BY <1>3 DEF UpdateIdFile
  <2>2. "java.idfile" \in File /\ Holds(At("spawned"), "java.idfile")
    OBVIOUS
  <2> QED
    BY <1>3, <2>1, <2>2, WriteKeeps, WriteFailsKeeps DEF UpdateIdFile
<1>4. CASE CreateJavaPidFile(w)
  <2>1. \A file \in File : Holds(pc[w], file) =>
          Holds(At("up"), file) /\ Holds(Read("java.idfile"), file)
    BY <1>4 DEF CreateJavaPidFile
  <2>2. "java.pidfile" \in File /\ Holds(At("up"), "java.pidfile")
    OBVIOUS
  <2> QED
    BY <1>4, <2>1, <2>2, WriteKeeps, WriteFailsKeeps DEF CreateJavaPidFile
<1>5. CASE RunEnds(w)
  <2>1. \A file \in File :
          Holds(pc[w], file) => Holds(Read("java.idfile"), file)
    BY <1>5 DEF RunEnds
  <2> QED
    BY <1>5, <2>1, MoveKeeps DEF RunEnds
<1>6. CASE JvmEnds(w)
  <2>1. \A file \in File :
          Holds(pc[w], file) => Holds(Read("java.pidfile"), file)
    BY <1>6 DEF JvmEnds
  <2> QED
    BY <1>6, <2>1, MoveKeeps DEF JvmEnds
<1>7. CASE Killed(w)
  <2>1. \A file \in File : Holds(At("crashed"), file)
    OBVIOUS
  <2> QED
    BY <1>7, <2>1, MoveKeeps DEF Killed
<1> QED
  BY <1>1, <1>2, <1>3, <1>4, <1>5, <1>6, <1>7

\* run_once that ends before there is a child has no PID file to drop.
LEMMA SpawnFailsKeeps ==
  ASSUME OwnedInv, NEW w \in Wrappers, SpawnFails(w)
  PROVE  OwnedInv'
<1>1. "java.pidfile" \in File /\ ~Holds(pc[w], "java.pidfile")
  BY DEF SpawnFails, Holds, File, At, Read, Remove
<1>2. PICK place : /\ Goto(w, place)
                   /\ \A file \in File \ {"java.pidfile"} :
                        Holds(pc[w], file) => Holds(place, file)
  BY <1>1, AfterDropPlace DEF SpawnFails
<1> QED
  BY <1>1, <1>2, MoveKeeps DEF SpawnFails

\* A drop removes the file, finds that it is not the wrapper's any more, or fails
\* and leaves it stuck.
LEMMA DropKeeps ==
  ASSUME OwnedInv, NEW w \in Wrappers, NEW dropped \in File,
         DropReads(w, dropped) \/ DropRemoves(w, dropped)
  PROVE  OwnedInv'
<1>1. ASSUME UNCHANGED <<disk, owned, writer, stuck>>, pc[w] = Read(dropped),
             Goto(w, Remove(dropped))
      PROVE  OwnedInv'
  <2>1. \A file \in File :
          Holds(pc[w], file) => Holds(Remove(dropped), file)
    BY <1>1 DEF Holds, File, At, Read, Remove
  <2> QED
    BY <1>1, <2>1, MoveKeeps
<1>2. ASSUME pc[w] \in {Read(dropped), Remove(dropped)}, AfterDrop(w, dropped),
             owned' = [owned EXCEPT ![w][dropped] = Absent],
             \/ /\ UNCHANGED <<disk, writer, stuck>>
                /\ owned[w][dropped] = Absent \/ disk[dropped] # owned[w][dropped]
             \/ /\ disk' = [disk EXCEPT ![dropped] = Absent]
                /\ writer' = [writer EXCEPT ![dropped] = Nobody]
                /\ stuck' = stuck \ {dropped}
             \/ DropFails(w, dropped)
      PROVE  OwnedInv'
  <2>1. PICK place : /\ Goto(w, place)
                     /\ \A file \in File \ {dropped} :
                          Holds(pc[w], file) => Holds(place, file)
    <3>1. pc[w] # At("spawned")
      BY <1>2 DEF At, Read, Remove
    <3> QED
      BY <1>2, <3>1, AfterDropPlace
  <2>2. Domains'
    BY <1>2, <2>1 DEF OwnedInv, Domains, Goto, DropFails
  <2>3. Kept(dropped)'
    <3>1. ASSUME disk'[dropped] \notin {Absent, Garbled}, dropped \notin stuck'
          PROVE  /\ disk[dropped] = disk'[dropped] /\ writer[dropped] = writer'[dropped]
                 /\ writer[dropped] # w /\ dropped \notin stuck
      BY <1>2, <3>1 DEF OwnedInv, Domains, Kept, DropFails
    <3>2. \A v \in Wrappers \ {w} :
            owned'[v][dropped] = owned[v][dropped] /\ pc'[v] = pc[v]
      BY <1>2, <2>1 DEF OwnedInv, Domains, Goto
    <3> QED
      BY <3>1, <3>2 DEF OwnedInv, Kept
  <2>4. ASSUME NEW file \in File \ {dropped} PROVE Kept(file)'
    <3>1. /\ disk'[file] = disk[file] /\ writer'[file] = writer[file]
          /\ file \in stuck' <=> file \in stuck
      BY <1>2 DEF OwnedInv, Domains, DropFails
    <3>2. \A v \in Wrappers : owned'[v][file] = owned[v][file]
      BY <1>2 DEF OwnedInv, Domains
    <3>3. \A v \in Wrappers : Holds(pc[v], file) => Holds(pc'[v], file)
      BY <2>1 DEF OwnedInv, Domains, Goto
    <3> QED
      BY <3>1, <3>2, <3>3 DEF OwnedInv, Kept
  <2> QED
    BY <2>2, <2>3, <2>4 DEF OwnedInv
<1>3. CASE DropReads(w, dropped)
  BY <1>1, <1>2, <1>3 DEF DropReads, Dropped
<1>4. CASE DropRemoves(w, dropped)
  BY <1>2, <1>4 DEF DropRemoves, Dropped
<1> QED
  BY <1>3, <1>4

-----------------------------------------------------------------------------

\* At the start there are no files.
LEMMA InitOwned == PidInit => OwnedInv
  BY DEF PidInit, OwnedInv, Domains, Kept

\* Every step of every wrapper keeps the invariant.
LEMMA NextOwned == OwnedInv /\ [PidNext]_pidVars => OwnedInv'
<1> SUFFICES ASSUME OwnedInv, [PidNext]_pidVars PROVE OwnedInv'
  OBVIOUS
<1>1. CASE UNCHANGED pidVars
  BY <1>1 DEF pidVars, OwnedInv, Domains, Kept
<1>2. ASSUME NEW w \in Wrappers,
             \/ Check(w) \/ CreatePidFile(w) \/ UpdateIdFile(w)
             \/ CreateJavaPidFile(w) \/ RunEnds(w) \/ JvmEnds(w) \/ Killed(w)
      PROVE  OwnedInv'
  BY <1>2, RunKeeps
<1>3. ASSUME NEW w \in Wrappers, SpawnFails(w)
      PROVE  OwnedInv'
  BY <1>3, SpawnFailsKeeps
<1>4. ASSUME NEW w \in Wrappers, NEW file \in File,
             DropReads(w, file) \/ DropRemoves(w, file)
      PROVE  OwnedInv'
  BY <1>4, DropKeeps
<1> QED
  BY <1>1, <1>2, <1>3, <1>4 DEF PidNext

\* The PID and id files are removed when the run that wrote them ends: however
\* many wrappers create, overwrite, read and remove the same files, a file that
\* can be read was written by a wrapper that has not ended in good order, or by
\* one whose attempt to read or remove it failed.
THEOREM FilesGoWithTheirRun == PidSpec => []NoFileOutlivesItsWriter
<1>1. OwnedInv => NoFileOutlivesItsWriter
  BY HoldersHaveNotEnded DEF OwnedInv, Kept, NoFileOutlivesItsWriter
<1> QED
  BY <1>1, InitOwned, NextOwned, PTL DEF PidSpec

\* What a step may do to the numbers and to the files.
Counted ==
  \/ jvm_id' = jvm_id
  \/ \E w \in Wrappers : /\ jvm_id[w] < MaxJvmId
                         /\ jvm_id' = [jvm_id EXCEPT ![w] = @ + 1]
Replaced ==
  /\ stuck' \subseteq stuck \cup File
  /\ \/ UNCHANGED <<disk, writer>>
     \/ \E w \in Wrappers, file \in File : WriteFile(w, file)
     \/ \E file \in File : WriteFails(file)
     \/ \E file \in File : /\ disk' = [disk EXCEPT ![file] = Absent]
                           /\ writer' = [writer EXCEPT ![file] = Nobody]

\* The invocations are numbered within the bound, and a file that nobody has
\* written to its end is not there or cannot be read.
THEOREM PidTypeCorrect == PidSpec => []PidTypeOK
<1> DEFINE I == PidTypeOK /\ DOMAIN jvm_id = Wrappers /\ DOMAIN writer = File
                          /\ DOMAIN disk = File
<1>1. PidInit => I
  BY MaxJvmIdAssumption DEF PidInit, PidTypeOK
<1>2. ASSUME I, [PidNext]_pidVars PROVE I'
  <2>1. ASSUME Counted
        PROVE  DOMAIN jvm_id' = Wrappers /\ \A w \in Wrappers : jvm_id'[w] \in 1..MaxJvmId
    BY <1>2, <2>1, MaxJvmIdAssumption DEF PidTypeOK, Counted
  <2>2. ASSUME Replaced
        PROVE  /\ DOMAIN disk' = File /\ DOMAIN writer' = File /\ stuck' \subseteq File
               /\ \A f \in File : writer'[f] = Nobody => disk'[f] \in {Absent, Garbled}
    BY <1>2, <2>2, WrappersAssumption DEF PidTypeOK, Replaced, WriteFile, WriteFails
  <2>3. SUFFICES Counted /\ Replaced
    BY <2>1, <2>2 DEF PidTypeOK
  <2>4. {"pidfile", "java.pidfile", "java.idfile"} = File
    BY DEF File
  <2>5. CASE UNCHANGED pidVars
    BY <2>5 DEF pidVars, Counted, Replaced
  <2>6. ASSUME NEW w \in Wrappers,
               \/ Check(w) \/ CreatePidFile(w) \/ UpdateIdFile(w)
               \/ CreateJavaPidFile(w) \/ RunEnds(w) \/ JvmEnds(w) \/ Killed(w)
        PROVE  Counted /\ Replaced
    BY <2>4, <2>6
       DEF Counted, Replaced, Check, CreatePidFile, UpdateIdFile, CreateJavaPidFile, RunEnds,
           JvmEnds, Killed, WriteFile, WriteFails
  <2>7. ASSUME NEW w \in Wrappers, SpawnFails(w)
        PROVE  Counted /\ Replaced
    BY <2>7 DEF SpawnFails, AfterDrop, Counted, Replaced
  <2>8. ASSUME NEW w \in Wrappers, NEW file \in File,
               DropReads(w, file) \/ DropRemoves(w, file)
        PROVE  Counted /\ Replaced
    BY <2>8 DEF DropReads, DropRemoves, Dropped, DropFails, AfterDrop, Counted, Replaced
  <2> QED
    BY <1>2, <2>5, <2>6, <2>7, <2>8 DEF PidNext
<1>3. I => PidTypeOK
  OBVIOUS
<1> QED
  BY <1>1, <1>2, <1>3, PTL DEF PidSpec
=============================================================================
