SPECIFICATION Spec
CONSTANTS
  WgSize = 4
  WordBits = 4
  ByteBits = 2
  MaxBlocks = 2
  Blocks <- MCBlocks
INVARIANTS
  OffsetsExact
  OutputIsSequential
