CONSTANTS
  Levels = {1, 5, 9}
  Pieces = 2
  MaxData = 4
SPECIFICATION MembersSpec
INVARIANTS
  RoundTrip
  CutReadsAsPrefix
CHECK_DEADLOCK FALSE
