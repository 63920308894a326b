SPECIFICATION Spec
CONSTANTS
  Detector = {d1, d2}
  Concentration = {2, 12}
  Position <- Places
  HighConcentrationThreshold = 10
  MinHighConcReadings = 2
  LeakMergeDistance = 5
  EnoughReadings = 2
  Gradient = 5
  MaxReadings = 3
  MaxFound = 3
INVARIANTS
  LeakHasEvidence
  ListedLeakIsKnown
PROPERTIES
  LeaksGoAway
\* Stop ends both goroutines
CHECK_DEADLOCK FALSE
