CONSTANTS
  Functions = {3, 16, 17}
  DataCounts = {0, 2}
  StrayCounts = {0, 2, 243, 244}
  MaxQueries = 2
SPECIFICATION FairSpec
INVARIANTS TypeOK WholeQueries
PROPERTY QueriesServed
CHECK_DEADLOCK FALSE
