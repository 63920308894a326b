SPECIFICATION Spec
CONSTANTS
  Device = {d1}
  Check = {k1, k2}
  Alarm = {k1, k2}
  Point = {k1, k2}
  Message = {k1, k2}
  Concentration = {5, 30}
  Level1Threshold = 10
  Level2Threshold = 20
  Level3Threshold = 50
  Valves <- OneValve
  Fans <- OneFan
  BatchSize = 2
  Client = {c1}
  Snapshot = snapshot
  BroadcastCap = 1
  MaxSnapshots = 1
INVARIANTS
  PointsTakenOnce
PROPERTIES
  PointsArrive
  AlarmsReachClients
  RepeatsAreRaces
  SecondOrdersAreRaces
CHECK_DEADLOCK FALSE
