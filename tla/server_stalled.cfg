\* Two clients, with TLS: one may stay silent.
SPECIFICATION FairSpec
CONSTANTS
  Conns = {c1, c2}
  Configs <- PooledTLS
  MAX_THREADS = 2
  MAX_CONNECTIONS = 1
  Backlog = 2
  NoConn = NoConn
PROPERTIES
  BacklogMoves
\* The system may come to rest: every client served, or the process killed.
CHECK_DEADLOCK FALSE
