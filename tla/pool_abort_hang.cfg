\* The creation of the second thread may fail while the first goes to sleep.
SPECIFICATION FairSpec
CONSTANTS
  MAX_THREADS = 2
  MAX_QUEUE = 1
  ThreadCounts = {2}
  QueueSizes = {1}
  Tasks = {t1}
  Destroyers = {d1}
  NoTask = NoTask
  NoOwner = NoOwner
  SyncFaults = FALSE
PROPERTIES
  CreateTerminates
\* The system may come to rest: every call made, the pool freed or given up.
CHECK_DEADLOCK FALSE
