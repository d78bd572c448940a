\* The calls of threadpool_add may fail after the task was stored.
SPECIFICATION Spec
CONSTANTS
  MAX_THREADS = 1
  MAX_QUEUE = 1
  ThreadCounts = {1}
  QueueSizes = {1}
  Tasks = {t1}
  Destroyers = {d1}
  NoTask = NoTask
  NoOwner = NoOwner
  SyncFaults = TRUE
INVARIANTS
  RefusedNeverRuns
\* The system may come to rest: every call made, the pool freed or given up.
CHECK_DEADLOCK FALSE
