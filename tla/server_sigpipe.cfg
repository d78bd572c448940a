\* One client, which may leave before its response.
SPECIFICATION Spec
CONSTANTS
  Conns = {c1}
  Configs <- PooledPlain
  MAX_THREADS = 1
  MAX_CONNECTIONS = 1
  Backlog = 2
  NoConn = NoConn
INVARIANTS
  SurvivesFailedWrite
\* The system may come to rest: every client served, or the process killed.
CHECK_DEADLOCK FALSE
