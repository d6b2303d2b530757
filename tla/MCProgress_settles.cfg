CONSTANTS
  None = None
  Rows = 2
  Push = {1}
  Worker = {a, b}
  BatchSize = 1
  MaxRetries = 2
  EarlyExpiry = FALSE
  KeepCount = FALSE
  MaxDisturbances = 1
  User = {u1, u2}
  Nis = {n1}
  Email = {e1, e2}
  Code = {}
  Client = {c1, c2}
  Desk = {d1}
  Decision = {}
  MaxFailures = 2
  LastSecond = 0
SPECIFICATION ProgressSpec
PROPERTIES DeliveriesEnd RegistrationRecovers ImplementsDelivery
CHECK_DEADLOCK FALSE
