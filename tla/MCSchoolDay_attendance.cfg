SPECIFICATION Spec
CONSTANTS
  Student = {s1}
  Request = {}
  Row = {w1, w2, w3}
  Attempt = {t1, t2}
  Submission = {p1, p2}
  Handler = {}
  LastDay = 2
  MaxDuration = 1
  MaxDecisions = 0
SYMMETRY Symmetry
CHECK_DEADLOCK FALSE
INVARIANTS OneRowPerAction CheckOutFollowsCheckIn RecordsAccountedFor

