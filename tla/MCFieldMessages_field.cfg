SPECIFICATION Spec
CONSTANTS
  Composition = {1, 2, 3}
  Wobbe <- Wobbes
  Adjustment <- Adjustments
  TargetWobbeIndex = 48
  WobbeTolerance = 1
  MaxValveAdjustment = 5
  LeastAdjustment = 1
  MaxChange = 6
  StartOpening <- Openings
  Fiber = {f1}
  Reading <- Readings
  Sample = {1, 2, 3, 4, 5}
  StrainJumpThreshold = 3
  BrillouinJumpThreshold = 5
  DataGapTimeout = 5
  MaxInterpolationDistance = 4
  StrainWarningThreshold = 5
  StrainAlarmThreshold = 9
  TemperatureWarningThreshold = 5
  TemperatureAlarmThreshold = 8
  MaxStrain = 40
  MaxPosition = 30
  MinTemperature <- Cold
  MaxTemperature = 20
  MaxRatio = 3
  MaxStored = 3
  Pipe = {p1}
  Inspection = {1, 2, 3}
  Thickness = {4, 9}
  OriginalWallThickness = 10
  Rate = {0, 3}
  RepairRatio = 10
  MinRepairThickness = 1
  HighPriorityRate = 3
  MediumPriorityRate = 1
  MinWallThickness = 4
  ReplacementRatio = 50
  Years = {1, 2}
  MaxInspections = 3
  MaxTogether = 2
INVARIANTS
  OrdersChain
  InterpolationDoesNotDrift
  BreaksAreSeen
  RateIsOfNeighbours
PROPERTIES
  CooldownHolds
CHECK_DEADLOCK FALSE
