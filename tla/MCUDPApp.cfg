CONSTANTS
  Clients = {c1, c2}
  Server = srv
  Sockets = {s1, s2, s3}
  MaxThreads = 1
  Fragments = 1
  RequestsPerSession = {2}
  MaxReplies = 1
  MaxPackets = 2
  NULL = NULL
SPECIFICATION FairSpec
INVARIANTS TypeOK Admission OneThreadPerTransmission
PROPERTIES RepliesStartNothing StrangersTurnedAway TransmissionDone
CHECK_DEADLOCK FALSE
