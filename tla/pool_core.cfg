\* Up to two workers, rings of one and two slots, four tasks, one shutdown that may
\* never come; arguments out of range on both sides. Threads that can run do run.
SPECIFICATION FairSpec
CONSTANTS
  MAX_THREADS = 2
  MAX_QUEUE = 2
  ThreadCounts = {0, 1, 2, 3}
  QueueSizes = {0, 1, 2, 3}
  Tasks = {t1, t2, t3, t4}
  Destroyers = {d1}
  NoTask = NoTask
  NoOwner = NoOwner
  SyncFaults = FALSE
INVARIANTS
  TypeOK
  WorkConserving
  DestroyFrees
  GracefulDrains
PROPERTIES
  ImplementsQueue
  AcceptedTasksRun
  DestroyTerminates
\* The system may come to rest: every call made, the pool freed or given up.
CHECK_DEADLOCK FALSE
