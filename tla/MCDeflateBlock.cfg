SPECIFICATION BlockSpec
CONSTANTS
  Streams <- MCStreams
  LitCap = 4
  MetaCap = 7
INVARIANTS
  BlockDecodes
  CodesComplete
  EncodersAgree
  AnnouncedBitsExact
  RleReadsBack
  HalvingEnds
