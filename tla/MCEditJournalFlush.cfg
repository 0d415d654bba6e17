CONSTANTS
  Devices = {"ordered"}
  RingSize = 3
  Capacity = 2
  Word = 1000
  MaxEdits = 2
  MaxCommits = 4
  MaxCrashes = 2
SPECIFICATION Spec
INVARIANT FlushedSurvives
CHECK_DEADLOCK FALSE
