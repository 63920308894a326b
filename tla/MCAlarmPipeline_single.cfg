SPECIFICATION PipeSpec
CONSTANTS
  d1 = d1
  d2 = d2
  Device = {d1}
  Concentration = {0, 1, 3}
  Level1 = 2
  Level2 = 3
  Level3 = 4
  ForwardThreshold = 0
  Consumer = {"emergency"}
  DataCap = 1
  AlarmCap = 1
  LeakCap = 1
  ClosesChannels = TRUE
  MaxReadings = 2
INVARIANTS
  NoFalseAlarm
PROPERTIES
  RouterIsFaithful
  DangerNoticed
  AlarmReachesController
\* readings are bounded: the pipeline may stop for want of them
CHECK_DEADLOCK FALSE
