SPECIFICATION SafetySpec
CONSTANTS
  z1 = z1
  z2 = z2
  v1 = v1
  f1 = f1
  Zone = {z1, z2}
  Valve = {v1}
  Fan = {f1}
  ZoneOf <- Apart
  AlarmCap = 1
  CommandCap = 1
  LongOutages = TRUE
  MaxAlarms = 2
  MaxResets = 1
  MaxByHand = 1
INVARIANTS
  OrdersAreWarranted
  RowFollowsOrders
\* alarms and resets are bounded: the controller is then at rest
CHECK_DEADLOCK FALSE
