---------------------------- MODULE LoggingProofs ----------------------------
(***************************************************************************)
(* Proofs about Logging for every number of logs, backups and messages,    *)
(* every size limit, with files that cannot be opened, renamed or removed  *)
(* and a process that is killed between any two system calls: a rotation   *)
(* loses nothing but the oldest backup and a backup whose own rename       *)
(* failed, and leaves files within the limit, but for one whose own call   *)
(* failed, and streams at them.  Only the last needs that the program      *)
(* calls init_logging.                                                     *)
(***************************************************************************)
EXTENDS Logging, SequenceTheorems, TLAPS

-----------------------------------------------------------------------------
(* The two changes of the files.                                           *)

\* rename() moves the content of one file to another of the same log, and
\* nothing else.
LEMMA RenameMoves ==
  ASSUME TypeOK, AbsentEmpty, i \in Logs,
         NEW from \in Suffixes, NEW to \in Suffixes, from # to, Rename(from, to)
  PROVE  /\ disk' \in [Logs -> [Suffixes -> Seq(1..MaxMessages)]]
         /\ exists' \in [Logs -> SUBSET Suffixes]
         /\ disk'[i][to] = disk[i][from] /\ disk'[i][from] = <<>>
         /\ \A s \in Suffixes \ {from, to} : disk'[i][s] = disk[i][s]
         /\ \A l \in Logs \ {i} : disk'[l] = disk[l] /\ exists'[l] = exists[l]
         /\ exists'[i] = (exists[i] \ {from}) \cup {to}
         /\ AbsentEmpty'
<1> DEFINE log == [disk[i] EXCEPT ![to] = disk[i][from], ![from] = <<>>]
<1>1. /\ disk \in [Logs -> [Suffixes -> Seq(1..MaxMessages)]]
      /\ exists \in [Logs -> SUBSET Suffixes]
  BY DEF TypeOK
<1>2. disk' = [disk EXCEPT ![i] = log]
  BY <1>1 DEF Rename
<1>3. /\ log \in [Suffixes -> Seq(1..MaxMessages)]
      /\ log[to] = disk[i][from] /\ log[from] = <<>>
      /\ \A s \in Suffixes \ {from, to} : log[s] = disk[i][s]
  BY <1>1, EmptySeq
<1>4. exists' = [exists EXCEPT ![i] = (exists[i] \ {from}) \cup {to}]
  BY <1>1 DEF Rename
<1> HIDE DEF log
<1>5. /\ disk' \in [Logs -> [Suffixes -> Seq(1..MaxMessages)]]
      /\ disk'[i] = log /\ \A l \in Logs \ {i} : disk'[l] = disk[l]
  BY <1>1, <1>2, <1>3
<1>6. /\ exists' \in [Logs -> SUBSET Suffixes]
      /\ exists'[i] = (exists[i] \ {from}) \cup {to}
      /\ \A l \in Logs \ {i} : exists'[l] = exists[l]
  BY <1>1, <1>4
<1>7. AbsentEmpty'
  <2> SUFFICES ASSUME NEW l \in Logs, NEW s \in Suffixes, s \notin exists'[l]
               PROVE  disk'[l][s] = <<>>
    BY DEF AbsentEmpty, Logs, Suffixes
  <2>1. CASE l # i  BY <2>1, <1>5, <1>6 DEF AbsentEmpty
  <2>2. CASE l = i /\ s = from  BY <2>2, <1>3, <1>5
  <2>3. CASE l = i /\ s # from  BY <2>3, <1>3, <1>5, <1>6 DEF AbsentEmpty
  <2>4. QED  BY <2>1, <2>2, <2>3
<1>8. QED  BY <1>3, <1>5, <1>6, <1>7

\* A message is one more at the end of one file at most, and no message moves.
LEMMA MessageAppended ==
  ASSUME TypeOK, NEW l \in Logs, LogMessage(l)
  PROVE  /\ disk' \in [Logs -> [Suffixes -> Seq(1..MaxMessages)]]
         /\ \A k \in Logs, s \in Suffixes :
              \/ disk'[k][s] = disk[k][s]
              \/ /\ k = l /\ stream[l] # "null" /\ disk'[k][s] = Append(disk[k][s], sent')
                 /\ s = IF stream[l] = "base" THEN 0 ELSE 1
<1>1. /\ disk \in [Logs -> [Suffixes -> Seq(1..MaxMessages)]]
      /\ sent' \in 1..MaxMessages
      /\ stream[l] \in {"null", "base", "moved"}
      /\ 0 \in Suffixes /\ 1 \in Suffixes
  <2>1. sent' \in 1..MaxMessages
    BY LoggingAssumption DEF TypeOK, LogMessage
  <2>2. 0 \in Suffixes /\ 1 \in Suffixes
    BY LoggingAssumption DEF Suffixes
  <2>3. QED  BY <2>1, <2>2 DEF TypeOK
<1>2. \A s \in Suffixes : Append(disk[l][s], sent') \in Seq(1..MaxMessages)
  BY <1>1, AppendProperties
<1>3. CASE stream[l] = "base"
  <2>1. disk' = [disk EXCEPT ![l] = [disk[l] EXCEPT ![0] = Append(disk[l][0], sent')]]
    BY <1>1, <1>3 DEF LogMessage
  <2>2. QED  BY <2>1, <1>1, <1>2, <1>3
<1>4. CASE stream[l] = "moved"
  <2>1. disk' = [disk EXCEPT ![l] = [disk[l] EXCEPT ![1] = Append(disk[l][1], sent')]]
    BY <1>1, <1>4 DEF LogMessage
  <2>2. QED  BY <2>1, <1>1, <1>2, <1>4
<1>5. CASE stream[l] = "null"
  BY <1>1, <1>5 DEF LogMessage
<1>6. QED  BY <1>1, <1>3, <1>4, <1>5

-----------------------------------------------------------------------------
(* The invariant is inductive.                                             *)

\* The invariant holds at the start.
LEMMA InitInv ==
  ASSUME Init
  PROVE  IInv
<1> USE LoggingAssumption DEF Init
<1>1. TypeOK
  BY EmptySeq DEF TypeOK, Logs, Suffixes
<1>2. ConfigKnown /\ AbsentEmpty
  BY DEF ConfigKnown, AbsentEmpty
<1>3. RoomForRename /\ PassedSmall /\ (InitCalled => StreamsFollowRotation)
  BY DEF RoomForRename, PassedSmall, StreamsFollowRotation, Logs
<1>4. QED  BY <1>1, <1>2, <1>3 DEF IInv

\* init_logging opens every stream, or ends the process.
LEMMA InitLoggingInv ==
  ASSUME IInv, InitLogging
  PROVE  IInv'
<1> USE LoggingAssumption DEF IInv, InitLogging
<1>a. /\ stream' \in [Logs -> {"null", "base", "moved"}]
      /\ exists' \in [Logs -> SUBSET Suffixes]
      /\ \A l \in Logs : exists[l] \subseteq exists'[l]
  BY DEF TypeOK, Open, Exit, Suffixes
<1>1. TypeOK'
  BY <1>a DEF TypeOK, Open, Exit
<1>2. ConfigKnown'
  BY DEF ConfigKnown, Open, Exit
<1>3. AbsentEmpty'
  BY <1>a DEF AbsentEmpty
<1>4. RoomForRename'
  BY DEF RoomForRename
<1>5. PassedSmall'
  BY DEF PassedSmall
<1>6. (InitCalled => StreamsFollowRotation)'
  BY DEF StreamsFollowRotation, Open, Exit
<1>7. QED  BY ONLY <1>1, <1>2, <1>3, <1>4, <1>5, <1>6 DEF IInv

\* The end of a rotation opens every stream again, or ends the process.
LEMMA ReopenInv ==
  ASSUME IInv, Reopen
  PROVE  IInv'
<1> USE LoggingAssumption DEF IInv, Reopen
<1>a. /\ stream' \in [Logs -> {"null", "base", "moved"}]
      /\ exists' \in [Logs -> SUBSET Suffixes]
      /\ \A l \in Logs : exists[l] \subseteq exists'[l]
  BY DEF TypeOK, Open, Exit, Suffixes
<1>1. TypeOK'
  BY <1>a DEF TypeOK, Open, Exit
<1>2. ConfigKnown'
  BY DEF ConfigKnown, Open, Exit
<1>3. AbsentEmpty'
  BY <1>a DEF AbsentEmpty
<1>4. RoomForRename'
  BY DEF RoomForRename
<1>5. PassedSmall'
  BY DEF PassedSmall
<1>6. (InitCalled => StreamsFollowRotation)'
  BY DEF StreamsFollowRotation, Open, Exit
<1>7. QED  BY ONLY <1>1, <1>2, <1>3, <1>4, <1>5, <1>6 DEF IInv

\* A message is written where its stream is, and only there.
LEMMA LogMessageInv ==
  ASSUME IInv, NEW l \in Logs, LogMessage(l)
  PROVE  IInv'
<1> USE LoggingAssumption DEF IInv, LogMessage
<1>a. disk' \in [Logs -> [Suffixes -> Seq(1..MaxMessages)]]
  BY MessageAppended
<1>b. \A k \in Logs, s \in Suffixes :
        disk'[k][s] # disk[k][s] => stream[k] # "null" /\ 0 \in exists[k] /\ s = 0
  BY MessageAppended DEF ConfigKnown, StreamsFollowRotation
<1>1. TypeOK'
  BY <1>a DEF TypeOK
<1>2. ConfigKnown'
  BY <1>b DEF ConfigKnown
<1>3. AbsentEmpty'
  BY ZenonT(30), <1>b DEF AbsentEmpty
<1>4. RoomForRename'
  BY DEF RoomForRename
<1>5. PassedSmall'
  BY DEF PassedSmall, Logs
<1>6. (InitCalled => StreamsFollowRotation)'
  BY DEF StreamsFollowRotation, TypeOK
<1>7. QED  BY ONLY <1>1, <1>2, <1>3, <1>4, <1>5, <1>6 DEF IInv

\* The loop passes a log that is small enough, and no other.
LEMMA CheckSizeInv ==
  ASSUME IInv, CheckSize
  PROVE  IInv'
<1> USE LoggingAssumption DEF IInv
<1>a. /\ UNCHANGED <<disk, exists, stream, config, j, sent, process>>
      /\ process = "up" /\ pc = "check" /\ i \in 0..LogCount
  BY DEF CheckSize, CallFails, files, TypeOK
<1>b. CASE /\ i < LogCount /\ pc' = "remove" /\ UNCHANGED <<i, stuck>>
           /\ config = "set" /\ 0 \in exists[i]
  <2>1. TypeOK'
    BY <1>a, <1>b DEF TypeOK
  <2>2. ConfigKnown' /\ AbsentEmpty' /\ RoomForRename' /\ PassedSmall'
    BY <1>a, <1>b DEF ConfigKnown, AbsentEmpty, RoomForRename, PassedSmall
  <2>3. (InitCalled => StreamsFollowRotation)'
    BY <1>b DEF StreamsFollowRotation
  <2>4. QED  BY ONLY <2>1, <2>2, <2>3 DEF IInv
<1>c. CASE /\ i < LogCount /\ i' = i + 1 /\ pc' = "check"
           /\ stuck' \in {stuck, stuck \cup {<<i, 0>>}}
           /\ \/ ~ (config = "set" /\ 0 \in exists[i] /\ TooLarge(i))
              \/ <<i, 0>> \in stuck'
  <2>0. i \in Logs /\ 0 \in Suffixes
    BY <1>a, <1>c DEF Logs, Suffixes
  <2>1. TypeOK'
    BY <1>a, <1>c, <2>0 DEF TypeOK
  <2>2. ConfigKnown' /\ AbsentEmpty' /\ RoomForRename'
    BY <1>a, <1>c DEF ConfigKnown, AbsentEmpty, RoomForRename
  <2>3. PassedSmall'
    <3>1. Len(disk[i][0]) <= log_max_size \/ <<i, 0>> \in stuck'
      <4>1. Len(<<>>) <= log_max_size  BY EmptySeq
      <4>2. Len(disk[i][0]) \in Nat  BY <2>0, LenProperties DEF TypeOK
      <4>3. CASE config = "set" /\ 0 \in exists[i]
        BY <1>c, <4>2, <4>3 DEF TooLarge
      <4>4. CASE config # "set"
        BY <4>1, <4>4, <2>0, <1>a DEF ConfigKnown, TypeOK
      <4>5. CASE 0 \notin exists[i]
        BY <4>1, <4>5, <2>0 DEF AbsentEmpty
      <4>6. QED  BY <4>3, <4>4, <4>5
    <3>2. \A l \in Logs : l < i + 1 => l < i \/ l = i
      BY <2>0 DEF Logs
    <3>3. QED  BY <1>a, <1>c, <3>1, <3>2 DEF PassedSmall
  <2>4. (InitCalled => StreamsFollowRotation)'
    BY <1>c DEF StreamsFollowRotation
  <2>5. QED  BY ONLY <2>1, <2>2, <2>3, <2>4 DEF IInv
<1>d. CASE i = LogCount /\ pc' = "reopen" /\ UNCHANGED <<i, stuck>>
  <2>1. TypeOK'
    BY <1>a, <1>d DEF TypeOK
  <2>2. ConfigKnown' /\ AbsentEmpty' /\ RoomForRename'
    BY <1>a, <1>d DEF ConfigKnown, AbsentEmpty, RoomForRename
  <2>3. PassedSmall'
    <3>1. \A l \in Logs : l < i  BY <1>d DEF Logs
    <3>2. QED  BY <1>a, <1>d, <3>1 DEF PassedSmall
  <2>4. (InitCalled => StreamsFollowRotation)'
    BY <1>d DEF StreamsFollowRotation
  <2>5. QED  BY ONLY <2>1, <2>2, <2>3, <2>4 DEF IInv
<1>e. QED  BY <1>a, <1>b, <1>c, <1>d DEF CheckSize, CallFails, TypeOK

\* The oldest backup is gone, or its messages are given up: the file before it can
\* take its place.
LEMMA RemoveOldestInv ==
  ASSUME IInv, RemoveOldest
  PROVE  IInv'
<1> USE LoggingAssumption DEF IInv, RemoveOldest
<1>a. i \in Logs /\ log_backup_count \in Suffixes /\ 0 \in Suffixes /\ log_backup_count # 0
  BY DEF RoomForRename, TypeOK, Logs, Suffixes
<1>e. j' + 1 = log_backup_count /\ j' < log_backup_count /\ j' \in Suffixes
  <2>1. j' = log_backup_count - 1 /\ log_backup_count \in Nat \ {0}
    OBVIOUS
  <2>2. QED  BY ONLY <2>1 DEF Suffixes
<1>b. /\ disk' \in [Logs -> [Suffixes -> Seq(1..MaxMessages)]]
      /\ exists' \in [Logs -> SUBSET Suffixes]
      /\ \A l \in Logs, s \in Suffixes :
           \/ disk'[l][s] = disk[l][s] /\ (s \in exists[l] <=> s \in exists'[l])
           \/ disk'[l][s] = <<>> /\ l = i /\ s = log_backup_count
  <2>1. CASE UNCHANGED files
    BY <2>1 DEF TypeOK, files
  <2>2. CASE ~ UNCHANGED files
    <3>1. /\ disk' = [disk EXCEPT ![i] = [disk[i] EXCEPT ![log_backup_count] = <<>>]]
          /\ exists' = [exists EXCEPT ![i] = exists[i] \ {log_backup_count}]
      BY <2>2, <1>a DEF TypeOK
    <3>2. QED  BY <3>1, <1>a, EmptySeq DEF TypeOK
  <2>3. QED  BY <2>1, <2>2
<1>1. TypeOK'
  BY <1>b, <1>e DEF TypeOK
<1>2. ConfigKnown'
  BY <1>b DEF ConfigKnown
<1>3. AbsentEmpty'
  <2> SUFFICES ASSUME NEW l \in Logs, NEW s \in Suffixes, s \notin exists'[l]
               PROVE  disk'[l][s] = <<>>
    BY DEF AbsentEmpty, Logs, Suffixes
  <2>1. QED  BY <1>b DEF AbsentEmpty
<1>4. RoomForRename'
  BY <1>a, <1>b, <1>e DEF RoomForRename, Room, GivenUp
<1>5. PassedSmall'
  BY <1>a, <1>b DEF PassedSmall, Logs
<1>6. (InitCalled => StreamsFollowRotation)'
  BY DEF StreamsFollowRotation, TypeOK
<1>7. QED  BY ONLY <1>1, <1>2, <1>3, <1>4, <1>5, <1>6 DEF IInv

\* A backup moves into the room behind it and leaves room before it, or is given up.
LEMMA ShiftBackupInv ==
  ASSUME IInv, ShiftBackup
  PROVE  IInv'
<1> USE LoggingAssumption DEF IInv, ShiftBackup
<1>a. /\ i \in Logs /\ j \in Suffixes /\ j + 1 \in Suffixes /\ j # j + 1
      /\ 0 \in Suffixes /\ j # 0 /\ j - 1 \in Suffixes /\ (j - 1) + 1 = j
      /\ j - 1 < log_backup_count
  BY DEF RoomForRename, TypeOK, Logs, Suffixes
<1>b. /\ disk' \in [Logs -> [Suffixes -> Seq(1..MaxMessages)]]
      /\ exists' \in [Logs -> SUBSET Suffixes]
      /\ disk'[i][j] = <<>> \/ <<i, j>> \in stuck'
      /\ stuck' \subseteq Logs \X Suffixes /\ stuck \subseteq stuck'
      /\ \A l \in Logs : disk'[l][0] = disk[l][0] /\ (0 \in exists[l] => 0 \in exists'[l])
      /\ AbsentEmpty'
      /\ \A l \in Logs, s \in Suffixes : \E t \in Suffixes : disk'[l][s] \in {disk[l][t], <<>>}
  <2>1. CASE Rename(j, j + 1)
    <3>1. UNCHANGED stuck  BY <2>1 DEF Rename
    <3>2. /\ disk' \in [Logs -> [Suffixes -> Seq(1..MaxMessages)]]
          /\ exists' \in [Logs -> SUBSET Suffixes]
          /\ disk'[i][j + 1] = disk[i][j] /\ disk'[i][j] = <<>>
          /\ \A s \in Suffixes \ {j, j + 1} : disk'[i][s] = disk[i][s]
          /\ \A l \in Logs \ {i} : disk'[l] = disk[l] /\ exists'[l] = exists[l]
          /\ exists'[i] = (exists[i] \ {j}) \cup {j + 1}
          /\ AbsentEmpty'
      BY <2>1, <1>a, RenameMoves
    <3>3. j + 1 # 0  BY <1>a DEF Suffixes
    <3>4. QED  BY <3>1, <3>2, <3>3, <1>a DEF TypeOK
  <2>2. CASE j \notin exists[i] /\ UNCHANGED <<files, stuck>>
    <3>1. disk' = disk /\ exists' = exists  BY <2>2 DEF files
    <3>2. disk[i][j] = <<>>  BY <2>2, <1>a DEF AbsentEmpty
    <3>3. AbsentEmpty'  BY <3>1 DEF AbsentEmpty
    <3>4. QED  BY <2>2, <3>1, <3>2, <3>3, <1>a DEF TypeOK
  <2>3. CASE CallFails(j)
    BY <2>3, <1>a DEF CallFails, files, TypeOK, AbsentEmpty
  <2>4. QED  BY <2>1, <2>2, <2>3
<1>1. TypeOK'
  <2>1. TypeOK /\ j' \in Suffixes
        /\ stream' = stream /\ config' = config /\ pc' = pc /\ i' = i /\ sent' = sent
        /\ process' = process
    BY <1>a
  <2>2. disk' \in [Logs -> [Suffixes -> Seq(1..MaxMessages)]]
    BY ONLY <1>b
  <2>3. exists' \in [Logs -> SUBSET Suffixes] /\ stuck' \subseteq Logs \X Suffixes
    BY ONLY <1>b
  <2>4. QED  BY ONLY ZenonT(40), <2>1, <2>2, <2>3 DEF TypeOK
<1>2. ConfigKnown'
  <2>1. config' = config /\ pc' = "shift" /\ process' = process
    OBVIOUS
  <2>2. config = "set" /\ ConfigKnown /\ pc = "shift" /\ process = "up"
    BY DEF RoomForRename
  <2>3. InitCalled
    BY ONLY <2>2, InitCalled \in BOOLEAN DEF ConfigKnown
  <2>4. QED  BY ONLY <2>1, <2>2, <2>3 DEF ConfigKnown
<1>3. AbsentEmpty'
  BY <1>b
<1>4. RoomForRename'
  <2>1. pc' = "shift" /\ config' = "set" /\ i' = i /\ i < LogCount /\ j' = j - 1
    BY DEF RoomForRename
  <2>2. 0 \in exists'[i]
    BY <1>a, <1>b DEF RoomForRename
  <2>3. j' + 1 = j /\ j' < log_backup_count
    BY <1>a, <2>1
  <2>4. disk'[i'][j' + 1] = <<>> \/ <<i', j' + 1>> \in stuck'
    BY <2>1, <2>3, <1>b
  <2>5. QED  BY ONLY <2>1, <2>2, <2>3, <2>4 DEF RoomForRename, Room, GivenUp
<1>5. PassedSmall'
  BY <1>b DEF PassedSmall
<1>6. (InitCalled => StreamsFollowRotation)'
  BY DEF StreamsFollowRotation, TypeOK
<1>7. QED  BY ONLY <1>1, <1>2, <1>3, <1>4, <1>5, <1>6 DEF IInv

\* All backups have moved: there is room for the current file.
LEMMA ShiftDoneInv ==
  ASSUME IInv, ShiftDone
  PROVE  IInv'
<1> USE LoggingAssumption DEF IInv, ShiftDone
<1>1. TypeOK'
  BY DEF TypeOK, files
<1>2. ConfigKnown'
  BY DEF ConfigKnown, files
<1>3. AbsentEmpty'
  BY DEF AbsentEmpty, files
<1>4. RoomForRename'
  BY DEF RoomForRename, Room, GivenUp, files, TypeOK
<1>5. PassedSmall'
  BY DEF PassedSmall, files
<1>6. (InitCalled => StreamsFollowRotation)'
  BY DEF StreamsFollowRotation
<1>7. QED  BY ONLY <1>1, <1>2, <1>3, <1>4, <1>5, <1>6 DEF IInv

\* The current file becomes the newest backup, or stays; its log is passed.
LEMMA MoveCurrentInv ==
  ASSUME IInv, MoveCurrent
  PROVE  IInv'
<1> USE LoggingAssumption DEF IInv, MoveCurrent
<1>a. /\ i \in Logs /\ 0 \in Suffixes /\ 1 \in Suffixes
  BY DEF RoomForRename, TypeOK, Logs, Suffixes
<1>b. /\ disk' \in [Logs -> [Suffixes -> Seq(1..MaxMessages)]]
      /\ exists' \in [Logs -> SUBSET Suffixes]
      /\ disk'[i][0] = <<>> \/ <<i, 0>> \in stuck'
      /\ stuck' \subseteq Logs \X Suffixes /\ stuck \subseteq stuck'
      /\ \A l \in Logs \ {i} : disk'[l] = disk[l]
      /\ AbsentEmpty'
  <2>1. CASE Rename(0, 1)
    <3>1. UNCHANGED stuck  BY <2>1 DEF Rename
    <3>2. /\ disk' \in [Logs -> [Suffixes -> Seq(1..MaxMessages)]]
          /\ exists' \in [Logs -> SUBSET Suffixes]
          /\ disk'[i][0] = <<>>
          /\ \A l \in Logs \ {i} : disk'[l] = disk[l]
          /\ AbsentEmpty'
      BY <2>1, <1>a, RenameMoves
    <3>3. QED  BY <3>1, <3>2 DEF TypeOK
  <2>2. CASE CallFails(0)
    BY <2>2, <1>a DEF CallFails, files, TypeOK, AbsentEmpty
  <2>3. QED  BY <2>1, <2>2
<1>d. InitCalled
  BY DEF ConfigKnown, RoomForRename
<1>c. /\ i' \in 0..LogCount /\ pc' = "check" /\ UNCHANGED <<config, j, sent, process>>
      /\ stream' \in {stream, [stream EXCEPT ![i] = "moved"]}
  BY <1>a DEF Logs
<1>1. TypeOK'
  <2> HIDE DEF MoveCurrent
  <2>1. QED  BY <1>a, <1>b, <1>c DEF TypeOK
<1>2. ConfigKnown'
  BY <1>d DEF ConfigKnown
<1>3. AbsentEmpty'
  BY <1>b
<1>4. RoomForRename'
  BY DEF RoomForRename
<1>5. PassedSmall'
  <2>1. Len(<<>>) <= log_max_size  BY EmptySeq
  <2>2. \A l \in Logs : l < i + 1 => l < i \/ l = i
    BY <1>a DEF Logs
  <2>3. QED  BY <2>1, <2>2, <1>a, <1>b DEF PassedSmall
<1>6. (InitCalled => StreamsFollowRotation)'
  BY DEF StreamsFollowRotation, TypeOK
<1>7. QED  BY ONLY <1>1, <1>2, <1>3, <1>4, <1>5, <1>6 DEF IInv

\* A killed process leaves its files as they are.
LEMMA KillInv ==
  ASSUME IInv, Kill
  PROVE  IInv'
<1> USE LoggingAssumption DEF IInv, Kill
<1>1. TypeOK'
  BY DEF TypeOK, files
<1>2. ConfigKnown'
  BY DEF ConfigKnown, files
<1>3. AbsentEmpty'
  BY DEF AbsentEmpty, files
<1>4. RoomForRename'
  BY DEF RoomForRename, Room, GivenUp, files
<1>5. PassedSmall'
  BY DEF PassedSmall, files
<1>6. (InitCalled => StreamsFollowRotation)'
  BY DEF StreamsFollowRotation, TypeOK
<1>7. QED  BY ONLY <1>1, <1>2, <1>3, <1>4, <1>5, <1>6 DEF IInv

\* The next process finds the files as they are and has no streams.
LEMMA RestartInv ==
  ASSUME IInv, Restart
  PROVE  IInv'
<1> USE LoggingAssumption DEF IInv, Restart, Fresh
<1>1. TypeOK'
  BY DEF TypeOK, files, Suffixes
<1>2. ConfigKnown'
  BY DEF ConfigKnown, files
<1>3. AbsentEmpty'
  BY DEF AbsentEmpty, files
<1>4. RoomForRename'
  BY DEF RoomForRename
<1>5. PassedSmall'
  BY DEF PassedSmall, Logs
<1>6. (InitCalled => StreamsFollowRotation)'
  BY DEF StreamsFollowRotation, TypeOK
<1>7. QED  BY ONLY <1>1, <1>2, <1>3, <1>4, <1>5, <1>6 DEF IInv

\* The invariant is inductive.
LEMMA StepInv ==
  ASSUME IInv, [Next]_vars
  PROVE  IInv'
<1>1. CASE InitLogging  BY <1>1, InitLoggingInv
<1>2. CASE Reopen  BY <1>2, ReopenInv
<1>3. CASE \E l \in Logs : LogMessage(l)  BY <1>3, LogMessageInv
<1>4. CASE CheckSize  BY <1>4, CheckSizeInv
<1>5. CASE RemoveOldest  BY <1>5, RemoveOldestInv
<1>6. CASE ShiftBackup  BY <1>6, ShiftBackupInv
<1>7. CASE ShiftDone  BY <1>7, ShiftDoneInv
<1>8. CASE MoveCurrent  BY <1>8, MoveCurrentInv
<1>9. CASE Kill  BY <1>9, KillInv
<1>10. CASE Restart  BY <1>10, RestartInv
<1>11. CASE UNCHANGED vars
  BY <1>11 DEF vars, files, IInv, TypeOK, ConfigKnown, AbsentEmpty, RoomForRename,
     Room, GivenUp, PassedSmall, StreamsFollowRotation
<1>12. QED
  BY <1>1, <1>2, <1>3, <1>4, <1>5, <1>6, <1>7, <1>8, <1>9, <1>10, <1>11 DEF Next

\* What the proofs rest on: a file that does not exist is empty, a rename has room
\* unless an earlier one of the same rotation failed, and the logs the loop has
\* passed are small unless their own stat or rename failed.
THEOREM LoggingInvariant == Spec => []IInv
<1>1. Init => IInv  BY InitInv
<1>2. IInv /\ [Next]_vars => IInv'  BY StepInv
<1>3. QED  BY <1>1, <1>2, PTL DEF Spec

\* The variables always hold values of their types.
THEOREM LoggingTypes == Spec => []TypeOK
<1>1. IInv => TypeOK  BY DEF IInv
<1>2. QED  BY <1>1, LoggingInvariant, PTL

\* A program that calls init_logging finds every stream at its log's current
\* file whenever it logs, after any number of rotations, crashes and restarts
\* (rotate_logs, close_logs, init_logging).
THEOREM StreamsAlwaysFollow ==
  ASSUME InitCalled
  PROVE  Spec => []StreamsFollowRotation
<1>1. IInv => StreamsFollowRotation  BY DEF IInv
<1>2. QED  BY <1>1, LoggingInvariant, PTL

-----------------------------------------------------------------------------
(* What a step does to the messages.                                       *)

\* Where the messages of a file are after a step: in a file of the same log, at
\* the same places, unless the rotation has given the file up.
LEMMA MessagesKept ==
  ASSUME IInv, [Next]_vars, NEW l \in Logs, NEW s \in Suffixes,
         ~ GivenUp(l, s)
  PROVE  \/ disk[l][s] = <<>>
         \/ \E t \in Suffixes :
              \/ disk'[l][t] = disk[l][s]
              \/ disk'[l][t] = Append(disk[l][s], sent') /\ sent' \in 1..MaxMessages
<1> USE LoggingAssumption
<1>0. disk[l] \in [Suffixes -> Seq(1..MaxMessages)]  BY DEF IInv, TypeOK
<1>1. CASE UNCHANGED disk  BY <1>1
<1>2. CASE \E k \in Logs : LogMessage(k)
  <2>1. sent' \in 1..MaxMessages
    BY SMTT(20), <1>2 DEF LogMessage, IInv, TypeOK
  <2>2. \/ disk'[l][s] = disk[l][s]
        \/ disk'[l][s] = Append(disk[l][s], sent')
    BY <1>2, MessageAppended DEF IInv
  <2>3. QED  BY <2>1, <2>2
<1>3. CASE RemoveOldest /\ ~ UNCHANGED files
  <2>1. i \in Logs /\ pc = "remove"
    BY <1>3 DEF RemoveOldest, IInv, TypeOK, RoomForRename, Logs
  <2>2. disk' = [disk EXCEPT ![i] = [disk[i] EXCEPT ![log_backup_count] = <<>>]]
    BY <1>3, <2>1 DEF RemoveOldest, IInv, TypeOK
  <2>3. l # i \/ s # log_backup_count
    BY <2>1 DEF GivenUp
  <2>4. disk'[l][s] = disk[l][s]
    BY <2>1, <2>2, <2>3 DEF IInv, TypeOK
  <2>5. QED  BY <2>4
<1>4. CASE ShiftBackup /\ Rename(j, j + 1)
  <2>1. /\ i \in Logs /\ j \in Suffixes /\ j + 1 \in Suffixes /\ j # j + 1
        /\ Room(j + 1)
    BY <1>4 DEF ShiftBackup, IInv, TypeOK, RoomForRename, Logs, Suffixes
  <2>2. /\ disk'[i][j + 1] = disk[i][j]
        /\ \A t \in Suffixes \ {j, j + 1} : disk'[i][t] = disk[i][t]
        /\ \A k \in Logs \ {i} : disk'[k] = disk[k]
    BY <1>4, <2>1, RenameMoves DEF IInv
  <2>3. QED  BY <2>1, <2>2 DEF Room
<1>5. CASE MoveCurrent /\ Rename(0, 1)
  <2>1. i \in Logs /\ 0 \in Suffixes /\ 1 \in Suffixes /\ Room(1)
    BY <1>5 DEF MoveCurrent, IInv, TypeOK, RoomForRename, Logs, Suffixes
  <2>2. /\ disk'[i][1] = disk[i][0]
        /\ \A t \in Suffixes \ {0, 1} : disk'[i][t] = disk[i][t]
        /\ \A k \in Logs \ {i} : disk'[k] = disk[k]
    BY <1>5, <2>1, RenameMoves DEF IInv
  <2>3. QED  BY <2>1, <2>2 DEF Room
<1>6. CASE InitLogging \/ Reopen \/ CheckSize \/ ShiftDone \/ Kill \/ Restart \/ UNCHANGED vars
  <2>1. UNCHANGED disk
    BY <1>6 DEF InitLogging, Reopen, CheckSize, CallFails, ShiftDone, Kill, Restart, vars,
       files
  <2>2. QED  BY <1>1, <2>1
<1>7. CASE \/ RemoveOldest /\ UNCHANGED files
           \/ ShiftBackup /\ ~ Rename(j, j + 1)
           \/ MoveCurrent /\ ~ Rename(0, 1)
  <2>1. UNCHANGED disk
    BY <1>7 DEF ShiftBackup, MoveCurrent, CallFails, files
  <2>2. QED  BY <1>1, <2>1
<1>8. QED  BY <1>1, <1>2, <1>3, <1>4, <1>5, <1>6, <1>7 DEF Next

\* A rotation drops messages of the oldest backup only, or of a backup whose own
\* rename failed before: none of its renames lands on another file that holds
\* messages, also after a rotation that was cut by a crash or left a backup behind
\* (rotate_logs).
THEOREM OnlyOldestIsDropped == Spec => OnlyOldestDropped
<1>1. IInv /\ [Next]_vars =>
        [\A l \in Logs, s \in Suffixes : ~ GivenUp(l, s) =>
           \A x \in 1..Len(disk[l][s]) :
             \E t \in Suffixes : \E y \in 1..Len(disk'[l][t]) :
                disk'[l][t][y] = disk[l][s][x]]_vars
  <2> SUFFICES ASSUME IInv, [Next]_vars, NEW l \in Logs, NEW s \in Suffixes,
                      ~ GivenUp(l, s),
                      NEW x \in 1..Len(disk[l][s])
               PROVE  \E t \in Suffixes : \E y \in 1..Len(disk'[l][t]) :
                        disk'[l][t][y] = disk[l][s][x]
    OBVIOUS
  <2>1. disk[l][s] \in Seq(1..MaxMessages)  BY DEF IInv, TypeOK
  <2>2. disk[l][s] # <<>>  BY EmptySeq
  <2>3. PICK t \in Suffixes :
          \/ disk'[l][t] = disk[l][s]
          \/ disk'[l][t] = Append(disk[l][s], sent') /\ sent' \in 1..MaxMessages
    BY <2>2, MessagesKept
  <2>4. CASE disk'[l][t] = disk[l][s]  BY <2>4
  <2>5. CASE disk'[l][t] = Append(disk[l][s], sent') /\ sent' \in 1..MaxMessages
    <3>1. /\ Len(disk'[l][t]) = Len(disk[l][s]) + 1 /\ Len(disk[l][s]) \in Nat
          /\ disk'[l][t][x] = disk[l][s][x]
      BY <2>1, <2>5, AppendProperties, LenProperties
    <3>2. x \in 1..Len(disk'[l][t])  BY <3>1
    <3>3. QED  BY <3>1, <3>2
  <2>6. QED  BY <2>3, <2>4, <2>5
<1>2. QED  BY <1>1, LoggingInvariant, PTL DEF Spec, OnlyOldestDropped

\* When log_message returns no current file is over the limit but one whose own stat
\* or rename failed in this call (rotate_logs).
THEOREM ReturnsRotated == Spec => RotatedOnReturn
<1>1. IInv /\ [Next]_vars =>
        [pc = "reopen" /\ process' = "up" =>
           \A l \in Logs : Len(disk'[l][0]) <= log_max_size \/ <<l, 0>> \in stuck]_vars
  <2> SUFFICES ASSUME IInv, Next, pc = "reopen"
               PROVE  \A l \in Logs : Len(disk'[l][0]) <= log_max_size \/ <<l, 0>> \in stuck
    BY DEF IInv, PassedSmall, vars, files
  <2>1. disk' = disk
    BY DEF Next, InitLogging, Reopen, LogMessage, CheckSize, RemoveOldest, ShiftBackup,
       ShiftDone, MoveCurrent, Kill, Restart, files
  <2>2. QED  BY <2>1 DEF IInv, PassedSmall
<1>2. QED  BY <1>1, LoggingInvariant, PTL DEF Spec, RotatedOnReturn
=============================================================================
