SPECIFICATION Spec
CONSTANTS
  Archives <- SomeArchives
  Workers = {w1, w2}
  Main = w1
  Hole = hole
INVARIANTS
  ReportedIsWhole
  TreeIsRight
  BarTellsResult
PROPERTIES
  SessionEnds
CHECK_DEADLOCK FALSE
