CONSTANTS
  Devices = {"ordered", "tearing", "cached"}
  RingSize = 3
  Capacity = 2
  Word = 1000
  MaxEdits = 2
  MaxCommits = 4
  MaxCrashes = 2
SPECIFICATION Spec
INVARIANTS IInv AlwaysRecovers FlushedSurvivesOnce PolicyCounts
PROPERTY Refines
CHECK_DEADLOCK FALSE
