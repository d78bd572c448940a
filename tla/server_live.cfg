\* Two clients, neither of which is silent for ever.
SPECIFICATION TalkativeSpec
CONSTANTS
  Conns = {c1, c2}
  Configs <- AllConfigs
  MAX_THREADS = 1
  MAX_CONNECTIONS = 1
  Backlog = 2
  NoConn = NoConn
PROPERTIES
  ConnectionsEnd
  BacklogMoves
\* The system may come to rest: every client served, or the process killed.
CHECK_DEADLOCK FALSE
