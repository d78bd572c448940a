\* Three logs, files of one message, three backups, seven messages; the process is
\* killed and started again at any point, and opening a log may fail.
SPECIFICATION Spec
CONSTANTS
  LogCount = 3
  log_max_size = 1
  log_backup_count = 3
  InitCalled = TRUE
  OpenFaults = TRUE
  FileFaults = TRUE
  MaxMessages = 7
INVARIANTS
  TypeOK
  StreamsFollowRotation
PROPERTIES
  OnlyOldestDropped
  RotatedOnReturn
