SPECIFICATION Spec
CONSTANTS
  Student = {s1}
  Request = {r1}
  Row = {}
  Attempt = {}
  Submission = {}
  Handler = {h1, h2}
  LastDay = 1
  MaxDuration = 1
  MaxDecisions = 3
CHECK_DEADLOCK FALSE
PROPERTIES ApprovedIsImmutable
