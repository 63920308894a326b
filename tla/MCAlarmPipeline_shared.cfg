SPECIFICATION PipeSpec
CONSTANTS
  d1 = d1
  d2 = d2
  Device = {d1}
  Concentration = {1, 3}
  Level1 = 2
  Level2 = 3
  Level3 = 4
  ForwardThreshold = 0
  Consumer = {"emergency", "planner"}
  DataCap = 1
  AlarmCap = 1
  LeakCap = 1
  ClosesChannels = FALSE
  MaxReadings = 2
PROPERTIES
  AlarmReachesController
\* readings are bounded: the pipeline may stop for want of them
CHECK_DEADLOCK FALSE
