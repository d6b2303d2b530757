CONSTANTS
  User = {u1}
  Nis = {n1}
  Email = {e1}
  Code = {k1}
  Client = {c1}
  Desk = {d1}
  Decision = {"approve", "reject", "disable", "code"}
  None = None
  MaxFailures = 1
  LastSecond = 1
  Staff = {s1}
  Name = {platform, teacher}
  Primary = {platform, teacher}
  PlatformAdmin = platform
  Officer = {o1, o2}
  Lists = {{teacher}}
  LastTick = 2
  Account = {a1, a2}
  Address = {m1, m2}
  Registrar = {o1, o2}
  Slot = {o1, o2}
  Place = {l1}
  Exception = {e1}
  LastHour = 2
  Times <- OneMorning
  Manual = {"Hadir", "Alpha"}
SPECIFICATION AccessSpec
INVARIANTS AccessTypeOK StaleTokensStayOut ApprovedAreServed SettledRolesAreInForce StoresAgree ButtonMatchesGate ToldWhatIsSaved
SYMMETRY Interchangeable
CHECK_DEADLOCK FALSE
