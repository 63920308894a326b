SPECIFICATION SafetySpec
CONSTANTS
  x1 = x1
  x2 = x2
  d1 = d1
  d2 = d2
  Corridor <- Line
  ExitAt <- Exits
  Available = {x1, x2}
  DoorAt <- Doors
  Zone = {z1}
  Person = {p1}
  PersonAt <- Nearby
  Worker = {w1, w2}
  MaxAlarms = 1
  MaxReports = 1
  MaxDoorReports = 0
INVARIANT AlarmHelps
\* alarms, reports and Stop are bounded: the planner is then at rest
CHECK_DEADLOCK FALSE
