CONSTANTS
  User = {u1, u2}
  Nis = {n1}
  Email = {e1}
  Code = {}
  Client = {c1}
  Desk = {d1}
  Decision = {"reject"}
  None = None
  MaxFailures = 1
  LastSecond = 0
SPECIFICATION AccountsSpec
PROPERTY RejectionReleases
CHECK_DEADLOCK FALSE
