CONSTANTS
  ChunkSize = 2
  MaxInFlight = 2
  MaxBytes = 8
  MaxWrite = 2
SPECIFICATION Spec
INVARIANT FinalizeReportsAnyFailure
CHECK_DEADLOCK FALSE
