CONSTANTS
  Clients = {c1, c2, c3}
  Sizes = {1, 2}
  MaxBatch = 2
  Depth = 1
  PoolCap = 2
  MapMayFail = TRUE
  MaxRounds = 1
SPECIFICATION FairSpec
INVARIANTS
  OwnTokens
  SetsExclusive
  PoolIsQuiet
  NoJobLost
PROPERTIES
  SubmitsReturn
  ShutdownCompletes
CHECK_DEADLOCK FALSE
