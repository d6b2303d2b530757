SPECIFICATION Spec
CONSTANTS
  Student = {s1}
  Request = {r1}
  Row = {}
  Attempt = {}
  Submission = {}
  Handler = {h1}
  LastDay = 1
  MaxDuration = 1
  MaxDecisions = 4
CHECK_DEADLOCK FALSE
PROPERTIES ReopeningNotifies
