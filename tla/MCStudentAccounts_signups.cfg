CONSTANTS
  User = {u1, u2}
  Nis = {n1, n2}
  Email = {e1, e2}
  Code = {}
  Client = {c1, c2}
  Desk = {d1}
  Decision = {"reject"}
  None = None
  MaxFailures = 1
  LastSecond = 0
SPECIFICATION SignupsSpec
INVARIANT BindingsMatchAccounts
CHECK_DEADLOCK FALSE
SYMMETRY Interchangeable
