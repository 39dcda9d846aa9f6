CONSTANTS
  ChunkSize = 2
  MaxInFlight = 3
  MaxBytes = 11
  MaxWrite = 3
SPECIFICATION FairSpec
INVARIANTS
  OutputIsPrefix
  InFlightExact
  BackPressure
  NothingLeftBehind
  NoSilentLoss
PROPERTIES
  ImplementsStream
  CallsReturn
CHECK_DEADLOCK FALSE
