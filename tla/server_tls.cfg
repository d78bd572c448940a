\* One client, with TLS.
SPECIFICATION Spec
CONSTANTS
  Conns = {c1}
  Configs <- PooledTLS
  MAX_THREADS = 1
  MAX_CONNECTIONS = 1
  Backlog = 2
  NoConn = NoConn
INVARIANTS
  PlaintextParsed
\* The system may come to rest: every client served, or the process killed.
CHECK_DEADLOCK FALSE
