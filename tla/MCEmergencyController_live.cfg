SPECIFICATION Spec
CONSTANTS
  z1 = z1
  z2 = z2
  v1 = v1
  f1 = f1
  Zone = {z1}
  Valve = {v1}
  Fan = {f1}
  ZoneOf <- Together
  AlarmCap = 1
  CommandCap = 1
  LongOutages = FALSE
  MaxAlarms = 2
  MaxResets = 0
  MaxByHand = 0
INVARIANTS
  RowFollowsOrders
  EvacuationComesLast
PROPERTIES
  AlarmAnswered
\* alarms and resets are bounded: the controller is then at rest
CHECK_DEADLOCK FALSE
