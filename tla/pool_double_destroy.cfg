\* Two callers of threadpool_destroy.
SPECIFICATION FairSpec
CONSTANTS
  MAX_THREADS = 1
  MAX_QUEUE = 1
  ThreadCounts = {1}
  QueueSizes = {1}
  Tasks = {t1}
  Destroyers = {d1, d2}
  NoTask = NoTask
  NoOwner = NoOwner
  SyncFaults = FALSE
PROPERTIES
  DestroyTerminates
\* The system may come to rest: every call made, the pool freed or given up.
CHECK_DEADLOCK FALSE
