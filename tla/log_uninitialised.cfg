\* As main does it: init_logging is never called.
SPECIFICATION Spec
CONSTANTS
  LogCount = 3
  log_max_size = 1
  log_backup_count = 2
  InitCalled = FALSE
  OpenFaults = FALSE
  FileFaults = FALSE
  MaxMessages = 5
INVARIANTS
  LoggingReturns
