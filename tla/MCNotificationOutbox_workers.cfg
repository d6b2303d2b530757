SPECIFICATION OutboxSpec
CONSTANTS
  None = None
  Rows = 2
  Push = {1}
  Worker = {a, b}
  BatchSize = 2
  MaxRetries = 2
  EarlyExpiry = TRUE
  KeepCount = TRUE
  MaxDisturbances = 1
SYMMETRY Symmetry
CHECK_DEADLOCK FALSE
INVARIANTS OutboxTypeOK DuplicatesAreExcused
PROPERTIES LateWorkersAreHarmless
