\* One log, two backups; the rename of a backup may fail.
SPECIFICATION Spec
CONSTANTS
  LogCount = 1
  log_max_size = 1
  log_backup_count = 2
  InitCalled = TRUE
  OpenFaults = FALSE
  FileFaults = TRUE
  MaxMessages = 7
PROPERTIES
  NothingButOldestDropped
