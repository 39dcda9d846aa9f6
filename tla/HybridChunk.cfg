CONSTANTS
  Workers = {w1, w2, w3}
  CpuWorkers = 2
  GpuWorkers = 2
  Warmup = 1
  Pieces = 2
  MaxChunks = 4
SPECIFICATION HybridFairSpec
INVARIANTS
  PermitsConserved
  InitOnce
  WarmupAvoidsInit
PROPERTIES
  ImplementsPermits
  ChunksFinish
CHECK_DEADLOCK FALSE
