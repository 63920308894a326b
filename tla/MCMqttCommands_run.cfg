SPECIFICATION Spec
CONSTANTS
  c1 = c1
  Command = {c1}
  MaxRetries = 3
  ExecCap = 2
  BrokerDuplicates = TRUE
INVARIANTS
  ConfirmIsBacked
  OneVerdict
  NothingForgotten
  PayloadWritesAlternate
  RetryBudget
  OneStraggler
  IndInv
PROPERTIES
  TableDrains
  ImplementsOutcome
\* every command may be over: the layer is then at rest
CHECK_DEADLOCK FALSE
