SPECIFICATION SafetySpec
CONSTANTS
  d1 = d1
  d2 = d2
  Device = {d1}
  Concentration = {0, 1, 2, 3}
  Level1 = 1
  Level2 = 2
  Level3 = 3
  DataCap = 1
  AlarmCap = 1
  MaxReadings = 1
INVARIANTS
  AckIsRecorded
\* readings are bounded: the router may stop for want of them
CHECK_DEADLOCK FALSE
