\* Two threads, an array of two events, a window shorter than the retention.
SPECIFICATION FairSpec
CONSTANTS
  Threads = {t1, t2}
  Sources <- SomeSources
  MAX_EVENTS = 2
  LOG_RETENTION_DAYS = 1
  Window = 1
  Attempts = 1
  MaxTime = 2
  MaxCalls = 4
  Nobody = Nobody
INVARIANTS
  TypeOK
  RecordKept
PROPERTIES
  BruteForceFound
  CallsReturn
\* Every call is done and the clock has stopped.
CHECK_DEADLOCK FALSE
