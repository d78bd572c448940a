\* As many as three workers, two callers of threadpool_destroy, and every
\* pthread call whose result the code checks may fail.
SPECIFICATION Spec
CONSTANTS
  MAX_THREADS = 3
  MAX_QUEUE = 2
  ThreadCounts = {1, 2, 3}
  QueueSizes = {1, 2}
  Tasks = {t1, t2}
  Destroyers = {d1, d2}
  NoTask = NoTask
  NoOwner = NoOwner
  SyncFaults = TRUE
SYMMETRY Symmetry
INVARIANTS
  QueueInv
  NoUseAfterFree
  NullLeaksNothing
PROPERTIES
  ShutdownIsFinal
\* The system may come to rest: every call made, the pool freed or given up.
CHECK_DEADLOCK FALSE
