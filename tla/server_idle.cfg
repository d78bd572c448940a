\* A client may stay silent.
SPECIFICATION FairSpec
CONSTANTS
  Conns = {c1}
  Configs <- PooledPlain
  MAX_THREADS = 1
  MAX_CONNECTIONS = 1
  Backlog = 2
  NoConn = NoConn
PROPERTIES
  ConnectionsEnd
\* The system may come to rest: every client served, or the process killed.
CHECK_DEADLOCK FALSE
