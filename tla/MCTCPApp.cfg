CONSTANTS
  Clients = {c1, c2}
  Conns = {k1, k2}
  MaxThreads = 1
  MaxConnections = {0, 1}
  RequestsPerSession = {0, 2}
  ReplyLengths = {0, 1}
  NULL = NULL
SPECIFICATION FairSpec
INVARIANTS TypeOK NoError AcceptedConnections ThreadLimit SessionComplete RepliesBeforeClose
PROPERTIES ClientEnds ServerEnds
CHECK_DEADLOCK FALSE
