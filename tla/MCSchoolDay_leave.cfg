SPECIFICATION Spec
CONSTANTS
  Student = {s1}
  Request = {r1, r2}
  Row = {}
  Attempt = {}
  Submission = {}
  Handler = {h1, h2}
  LastDay = 2
  MaxDuration = 2
  MaxDecisions = 2
SYMMETRY Symmetry
CHECK_DEADLOCK FALSE
INVARIANTS SchoolTypeOK LeavePeriodsSound AuditExplainsLeave OutboxMatchesAudit RecordsAccountedFor
