SPECIFICATION Spec
CONSTANTS
  Tree <- SmallTree
  Height <- SmallHeight
  TreeHeight = 1
  Requests <- SomeRequests
  LinkLimit = 2
  ChunkSize = 2
INVARIANTS
  GpuFallsBack
CHECK_DEADLOCK FALSE
