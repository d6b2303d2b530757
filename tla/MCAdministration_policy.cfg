CONSTANTS
  None = None
  n1 = n1
  d1 = d1
  d2 = d2
  Student = {n1}
  User = {u1, u2}
  NisOf <- OneStudent
  Class = {c1, c2}
  Period = {t1, t2}
  Absence = {1}
  Report = {r1, r2}
  Desk = {d1, d2}
  ExitStatus = {"archived"}
  MaxRows = 2
  School = {c1, c2}
  Term = {t1, t2, t3}
  Chief = {d1, d2}
SPECIFICATION AdministrationSpec
INVARIANTS AdministrationTypeOK OneClassPerPerson AcceptedMeansEnrolled OfferedIsGranted ActivationSettles
SYMMETRY Interchangeable
CHECK_DEADLOCK FALSE
