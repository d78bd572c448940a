\* Four clients for one thread, one queue slot and main: one too many.
SPECIFICATION Spec
CONSTANTS
  Conns = {c1, c2, c3, c4}
  Configs <- AllConfigs
  MAX_THREADS = 1
  MAX_CONNECTIONS = 1
  Backlog = 2
  NoConn = NoConn
SYMMETRY Symmetry
INVARIANTS
  TypeOK
  HeldByOneOwner
PROPERTIES
  ClosedWithAnswer
\* The system may come to rest: every client served, or the process killed.
CHECK_DEADLOCK FALSE
