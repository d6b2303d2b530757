SPECIFICATION Spec
CONSTANTS
  Student = {s1}
  Request = {r1}
  Row = {w1}
  Attempt = {t1}
  Submission = {p1}
  Handler = {h1}
  LastDay = 2
  MaxDuration = 2
  MaxDecisions = 3
SYMMETRY Symmetry
CHECK_DEADLOCK FALSE
INVARIANTS NoPresenceOnLeave CalendarMatchesGate
PROPERTIES ImplementsDayBook
