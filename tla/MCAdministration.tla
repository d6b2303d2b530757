-------------------------- MODULE MCAdministration --------------------------
(* The administration of the school for TLC: classes and enrollments, and     *)
(* academic periods.  They share no state.  A behaviour is one of one of      *)
(* them, chosen at the start.                                                 *)
EXTENDS AdiwiyataAccess, AcademicPeriods, TLC

CONSTANTS n1, d1, d2  \* the student, and the two administrators

VARIABLE part

\* Every account of the instance signed up for one student.
OneStudent == [u \in User |-> n1]

\* Accounts, reports, classes and periods are told apart by name only, and so
\* are administrators.
Interchangeable ==
  Permutations(User) \cup Permutations(Report) \cup Permutations(Class)
    \cup Permutations(Period) \cup Permutations({d1, d2})

AdministrationTypeOK == EnrollmentsTypeOK /\ PeriodsTypeOK

AdministrationInit ==
  /\ part \in {"classes", "periods"}
  /\ EnrollmentsInit /\ PeriodsInit

AdministrationNext ==
  /\ UNCHANGED part
  /\ \/ part = "classes" /\ EnrollmentsNext /\ UNCHANGED periodVars
     \/ part = "periods" /\ PeriodsNext /\ UNCHANGED enrollmentVars

AdministrationSpec ==
  AdministrationInit /\ [][AdministrationNext]_<<part, enrollmentVars, periodVars>>
=============================================================================
