CONSTANTS
  cA1 = cA1
  cA2 = cA2
  gA1 = gA1
  gA2 = gA2
  eA1 = eA1
  eA2 = eA2
  h1 = h1
  h2 = h2
  cB = cB
  gB = gB
  eB = eB
  h3 = h3
  corporate = corporate
  field = field
  Nodes = {cA1, cA2, gA1, gA2, eA1, eA2, h1, h2, cB, gB, eB, h3}
  Word <- Names
  moduleId <- Id
  Interfaces <- Neighbours
  ASOf <- Where
  asNodeVec <- Systems
  ASName <- ASNames
  NetSize = 16
  NONE = NONE
  Hosts = {h1, h2, h3}
  Traced = {gA2}
  protocolOf <- Talks
  Capacities = {0, 1}
  HopLimit = 4
  MaxPackets = 3
SPECIFICATION FairSpec
INVARIANTS TypeOK IntraASRoutes DeliveredToAddressee TraceAddsUp InOrder
PROPERTY Arrives
CHECK_DEADLOCK FALSE
