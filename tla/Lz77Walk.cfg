CONSTANTS
  ByteBits = 1
  Window = 4
  MaxMatch = 5
  LongMatch = 4
  SegLog2 = 1
  HashBits = 1
  WordBits = 3
  Multiplier = 5
  MaxLen = 8
  MaxChunks = 2
  BlockSize = 2
SPECIFICATION Spec
INVARIANTS
  TablesExact
  NoRepeatMissed
  LosslessSoFar
  BlockWalkIsStrict
PROPERTIES
  SlotsWrittenOnce
CHECK_DEADLOCK FALSE
