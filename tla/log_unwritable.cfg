\* The directory of the log is not writable: its renames fail.
SPECIFICATION Spec
CONSTANTS
  LogCount = 1
  log_max_size = 1
  log_backup_count = 2
  InitCalled = TRUE
  OpenFaults = FALSE
  FileFaults = TRUE
  MaxMessages = 7
PROPERTIES
  AlwaysRotated
