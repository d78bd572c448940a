------------------------------- MODULE Logging -------------------------------
(***************************************************************************)
(* src/logging.c: log_message, which rotates and reopens all log files     *)
(* after every message, rotate_logs, init_logging and close_logs, called   *)
(* by one thread of a process that may be killed between any two system    *)
(* calls and is started again.  Messages are numbered in the order of the  *)
(* calls; a file's size is the number of its messages.  The calls whose     *)
(* results the code ignores may fail: stat, access, remove and rename.     *)
(***************************************************************************)
EXTENDS Integers, Sequences

CONSTANTS
  LogCount,          \* access, error, security: three in the code
  log_max_size,
  log_backup_count,
  InitCalled,        \* whether the program calls init_logging at its start
  OpenFaults,        \* whether opening a log file may fail
  FileFaults,        \* whether stat, access, remove and rename may fail
  MaxMessages        \* bound: log_message is called this often

ASSUME LoggingAssumption ==
  /\ {LogCount, log_max_size, log_backup_count} \subseteq Nat \ {0}
  /\ MaxMessages \in Nat
  /\ {InitCalled, OpenFaults, FileFaults} \subseteq BOOLEAN

VARIABLES
  disk,      \* disk[l][s]: what the file of log l with suffix s holds
  exists,    \* exists[l]: the suffixes for which there is a file; 0: none
  stream,    \* "null", "base", or "moved" once its file was renamed
  config,    \* current_config: "zero" or "set"
  pc,        \* where log_message is
  i, j,      \* the loop counters of rotate_logs
  sent,      \* number of messages so far
  stuck,     \* history: the files of this call whose stat, access or rename failed
  process    \* "up", "exited" by exit(), or "killed"

files == <<disk, exists>>
vars == <<files, stream, config, pc, i, j, sent, stuck, process>>

Logs == 0 .. LogCount - 1
Suffixes == 0 .. log_backup_count

TypeOK ==
  /\ disk \in [Logs -> [Suffixes -> Seq(1..MaxMessages)]]
  /\ exists \in [Logs -> SUBSET Suffixes]
  /\ stream \in [Logs -> {"null", "base", "moved"}]
  /\ config \in {"zero", "set"}
  /\ pc \in {"start", "idle", "check", "remove", "shift", "move", "reopen"}
  /\ i \in 0..LogCount
  /\ j \in Suffixes
  /\ sent \in 0..MaxMessages
  /\ stuck \subseteq Logs \X Suffixes
  /\ process \in {"up", "exited", "killed"}

Fresh ==
  /\ stream' = [l \in Logs |-> "null"]
  /\ config' = "zero"
  /\ pc' = IF InitCalled THEN "start" ELSE "idle"
  /\ i' = 0 /\ j' = 0
  /\ stuck' = {}
  /\ process' = "up"

Init ==
  /\ disk = [l \in Logs |-> [s \in Suffixes |-> <<>>]]
  /\ exists = [l \in Logs |-> {}]
  /\ stream = [l \in Logs |-> "null"]
  /\ config = "zero"
  /\ pc = IF InitCalled THEN "start" ELSE "idle"
  /\ i = 0 /\ j = 0
  /\ sent = 0
  /\ stuck = {}
  /\ process = "up"

-----------------------------------------------------------------------------
(* init_logging, also as the end of rotate_logs                            *)

\* Mutant of Open: the streams that are still open are not closed first.
OpenClosedOnly ==
  /\ exists' = [l \in Logs |-> IF stream[l] = "null" THEN exists[l] \cup {0} ELSE exists[l]]
  /\ stream' = [l \in Logs |-> IF stream[l] = "null" THEN "base" ELSE stream[l]]
  /\ config' = "set"

\* fopen for appending creates the files that are missing.
Open ==
  /\ exists' = [l \in Logs |-> exists[l] \cup {0}]
  /\ stream' = [l \in Logs |-> "base"]
  /\ config' = "set"

\* A file that cannot be opened ends the process: the files opened before it
\* were created, and with a zeroed configuration the first name is empty.
Exit ==
  /\ process' = "exited"
  /\ \E l \in Logs :
       exists' = [x \in Logs |-> IF x < l /\ config = "set" THEN exists[x] \cup {0}
                                 ELSE exists[x]]
  /\ stream' = [l \in Logs |-> "null"]
  /\ UNCHANGED config

InitLogging ==
  /\ process = "up" /\ pc = "start"
  /\ \/ Open /\ UNCHANGED process
     \/ OpenFaults /\ Exit
  /\ pc' = "idle"
  /\ UNCHANGED <<disk, i, j, sent, stuck>>

\* close_logs, then init_logging with a copy of the same configuration.
Reopen ==
  /\ process = "up" /\ pc = "reopen"
  /\ \/ config = "set" /\ Open /\ UNCHANGED process
     \/ (config = "zero" \/ OpenFaults) /\ Exit
  /\ pc' = "idle"
  /\ stuck' = {}
  /\ UNCHANGED <<disk, i, j, sent>>

-----------------------------------------------------------------------------
(* log_message and rotate_logs                                             *)

\* Without a stream the message is dropped; the rotation happens all the same.
LogMessage(l) ==
  /\ process = "up" /\ pc = "idle"
  /\ sent < MaxMessages
  /\ sent' = sent + 1
  /\ disk' = CASE stream[l] = "base" -> [disk EXCEPT ![l][0] = Append(@, sent')]
               [] stream[l] = "moved" -> [disk EXCEPT ![l][1] = Append(@, sent')]
               [] OTHER -> disk
  /\ pc' = "check"
  /\ i' = 0
  /\ UNCHANGED <<exists, stream, config, j, stuck, process>>

\* Mutant of TooLarge: the limit is taken as a size that may be reached once more.
TooLargeLate(l) == Len(disk[l][0]) > log_max_size + 1

TooLarge(l) == Len(disk[l][0]) > log_max_size

\* A call on the file with suffix s fails, and the loops go on.
CallFails(s) ==
  /\ FileFaults
  /\ stuck' = stuck \cup {<<i, s>>}
  /\ UNCHANGED files

\* stat of an empty name fails, so a zeroed configuration rotates nothing.
CheckSize ==
  /\ process = "up" /\ pc = "check"
  /\ \/ /\ i < LogCount /\ config = "set" /\ 0 \in exists[i] /\ TooLarge(i)
        /\ pc' = "remove"
        /\ UNCHANGED <<files, i, stuck>>
     \/ /\ i < LogCount /\ ~ (config = "set" /\ 0 \in exists[i] /\ TooLarge(i))
        /\ i' = i + 1
        /\ UNCHANGED <<files, pc, stuck>>
     \/ /\ i < LogCount /\ config = "set" /\ CallFails(0)
        /\ i' = i + 1
        /\ UNCHANGED pc
     \/ /\ i = LogCount
        /\ pc' = "reopen"
        /\ UNCHANGED <<files, i, stuck>>
  /\ UNCHANGED <<stream, config, j, sent, process>>

\* Mutant of RemoveOldest: the shift starts one backup too high.
RemoveOldestFromTop ==
  /\ process = "up" /\ pc = "remove"
  /\ UNCHANGED files
  /\ j' = log_backup_count
  /\ pc' = "shift"
  /\ UNCHANGED <<stream, config, i, sent, stuck, process>>

\* remove() of a backup that is not there changes nothing, like one that fails.
RemoveOldest ==
  /\ process = "up" /\ pc = "remove"
  /\ \/ /\ exists' = [exists EXCEPT ![i] = @ \ {log_backup_count}]
        /\ disk' = [disk EXCEPT ![i][log_backup_count] = <<>>]
     \/ FileFaults /\ UNCHANGED files
  /\ j' = log_backup_count - 1
  /\ pc' = "shift"
  /\ UNCHANGED <<stream, config, i, sent, stuck, process>>

\* rename() that succeeds: what the target held before is gone.
Rename(from, to) ==
  /\ exists' = [exists EXCEPT ![i] = (@ \ {from}) \cup {to}]
  /\ disk' = [disk EXCEPT ![i] = [@ EXCEPT ![to] = disk[i][from], ![from] = <<>>]]
  /\ UNCHANGED stuck

\* Mutant of ShiftBackup: the loop ends before the newest backup.
ShiftBackupButFirst ==
  /\ process = "up" /\ pc = "shift" /\ j >= 1
  /\ \/ j \in exists[i] /\ j > 1 /\ Rename(j, j + 1)
     \/ (j \notin exists[i] \/ j = 1) /\ UNCHANGED <<files, stuck>>
  /\ j' = j - 1
  /\ UNCHANGED <<stream, config, pc, i, sent, process>>

\* A backup that cannot be renamed stays where the next rename lands.
ShiftBackup ==
  /\ process = "up" /\ pc = "shift" /\ j >= 1
  /\ \/ j \in exists[i] /\ (Rename(j, j + 1) \/ CallFails(j))
     \/ j \notin exists[i] /\ UNCHANGED <<files, stuck>>
  /\ j' = j - 1
  /\ UNCHANGED <<stream, config, pc, i, sent, process>>

ShiftDone ==
  /\ process = "up" /\ pc = "shift" /\ j = 0
  /\ pc' = "move"
  /\ UNCHANGED <<files, stream, config, i, j, sent, stuck, process>>

\* The open stream goes with its file; neither moves when the rename fails.
MoveCurrent ==
  /\ process = "up" /\ pc = "move"
  /\ \/ /\ Rename(0, 1)
        /\ stream' = [stream EXCEPT ![i] = "moved"]
     \/ /\ CallFails(0)
        /\ UNCHANGED stream
  /\ i' = i + 1
  /\ pc' = "check"
  /\ UNCHANGED <<config, j, sent, process>>

-----------------------------------------------------------------------------
(* The process                                                             *)

Kill ==
  /\ process = "up"
  /\ process' = "killed"
  /\ UNCHANGED <<files, stream, config, pc, i, j, sent, stuck>>

Restart ==
  /\ process # "up"
  /\ Fresh
  /\ UNCHANGED <<files, sent>>

Next ==
  \/ InitLogging \/ Reopen
  \/ \E l \in Logs : LogMessage(l)
  \/ CheckSize \/ RemoveOldest \/ ShiftBackup \/ ShiftDone \/ MoveCurrent
  \/ Kill \/ Restart

Spec == Init /\ [][Next]_vars

-----------------------------------------------------------------------------
(* Properties                                                              *)

\* A rotation gives up the messages of the oldest backup, and those of a backup
\* whose own rename failed before it: the next rename lands there.
GivenUp(l, s) ==
  /\ pc \in {"remove", "shift", "move"} /\ l = i
  /\ s = log_backup_count \/ <<l, s>> \in stuck

\* No other message ever disappears: no rename lands on another file that exists,
\* also when an earlier rotation was cut by a crash or left a backup behind.
OnlyOldestDropped ==
  [][\A l \in Logs, s \in Suffixes : ~ GivenUp(l, s) =>
       \A x \in 1..Len(disk[l][s]) :
         \E t \in Suffixes : \E y \in 1..Len(disk'[l][t]) :
            disk'[l][t][y] = disk[l][s][x]]_vars

\* When log_message returns, no current log file is over its limit but one whose
\* own stat or rename failed in this call.
RotatedOnReturn ==
  [][pc = "reopen" /\ process' = "up" =>
       \A l \in Logs : Len(disk'[l][0]) <= log_max_size \/ <<l, 0>> \in stuck]_vars

\* A message that is logged while the process lives is written to the log it is
\* for: whenever log_message can be called again, each stream is at its log's
\* current file, never at a renamed one.
StreamsFollowRotation ==
  process = "up" /\ pc = "idle" =>
    \A l \in Logs : stream[l] = "base" /\ 0 \in exists[l]

\* As OnlyOldestDropped, but also when a rename fails.
NothingButOldestDropped ==
  [][\A l \in Logs, s \in Suffixes : ~ (pc \in {"remove", "shift", "move"} /\ s = log_backup_count) =>
       \A x \in 1..Len(disk[l][s]) :
         \E t \in Suffixes : \E y \in 1..Len(disk'[l][t]) :
            disk'[l][t][y] = disk[l][s][x]]_vars

\* As RotatedOnReturn, but also when a stat or a rename fails.
AlwaysRotated ==
  [][pc = "reopen" /\ process' = "up" =>
       \A l \in Logs : Len(disk'[l][0]) <= log_max_size]_vars

\* Logging a message does not end the process.
LoggingReturns == process # "exited"

-----------------------------------------------------------------------------
(* The inductive invariant the proofs of LoggingProofs use.                *)

\* A file that does not exist holds nothing.
AbsentEmpty == \A l \in Logs : \A s \in Suffixes \ exists[l] : disk[l][s] = <<>>

\* The configuration is there once init_logging returned; a program that never
\* calls it has no configuration, no stream and no message on disk.
ConfigKnown ==
  /\ InitCalled /\ process = "up" /\ pc # "start" => config = "set"
  /\ ~ InitCalled => /\ config = "zero" /\ pc # "start"
                     /\ \A l \in Logs : stream[l] = "null" /\ \A s \in Suffixes : disk[l][s] = <<>>

\* The rotation of log i has made room for the next rename, or one that failed has
\* left a file there; to the last place it may rename in any case.
Room(s) == disk[i][s] = <<>> \/ GivenUp(i, s)

RoomForRename ==
  /\ pc \in {"remove", "shift", "move"} => config = "set" /\ i < LogCount /\ 0 \in exists[i]
  /\ pc = "shift" => j < log_backup_count /\ Room(j + 1)
  /\ pc = "move" => Room(1)

\* The logs the loop has passed are within their limit, or could not be rotated.
PassedSmall ==
  \A l \in Logs :
    \/ pc \in {"check", "remove", "shift", "move"} /\ l < i
    \/ pc = "reopen"
    => Len(disk[l][0]) <= log_max_size \/ <<l, 0>> \in stuck

\* The inductive invariant.
IInv ==
  /\ TypeOK
  /\ ConfigKnown /\ AbsentEmpty
  /\ RoomForRename /\ PassedSmall
  /\ InitCalled => StreamsFollowRotation
=============================================================================
