SPECIFICATION Spec
CONSTANTS
  Tree <- SmallTree
  Height <- SmallHeight
  TreeHeight = 1
  Requests <- SomeRequests
  LinkLimit = 2
  ChunkSize = 2
INVARIANTS
  DiskIsPrefix
  OkIsComplete
PROPERTIES
  PackReturns
CHECK_DEADLOCK FALSE
