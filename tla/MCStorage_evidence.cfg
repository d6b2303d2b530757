CONSTANTS
  None = None
  Submission = {p1, p2}
  Student = {s1, s2}
  Class = {c1, c2}
  Site = {x1, x2}
  MaxVerifications = 2
  File = {f1}
  Permit = {s1, s2}
  Client = {p1, p2}
  Attempt = {x1, x2}
  Images = 2
  Caller = {p1, p2}
  Host = {p1, p2}
  Window = 3
  Limit = 2
  MaxSkew = 1
  LastInstant = 6
  MaxRequests = 5
SPECIFICATION StorageSpec
INVARIANTS StorageTypeOK ReportHasPhoto ObjectsStayTracked ReportsConsistent FilesMatchObjects ChangesSettle LimitIsExact
PROPERTIES ClosedAfterVerification FiledUnderEnrolledClass RejectedIsFinal
SYMMETRY Interchangeable
CHECK_DEADLOCK FALSE
