CONSTANTS
  Clients = {c1, c2}
  Conns = {k1, k2}
  MaxThreads = 1
  MaxConnections = {0}
  RequestsPerSession = {0, 2}
  ReplyLengths = {1}
  NULL = NULL
SPECIFICATION Spec
PROPERTY KilledForGood
CHECK_DEADLOCK FALSE
