------------------------------ MODULE MCAccess ------------------------------
(* Who is let in, for TLC: students' accounts, the roles of staff and the     *)
(* correction of addresses, and the gate before attendance.  They share no    *)
(* state.  A behaviour is one of one of them, chosen at the start.            *)
EXTENDS StudentAccounts, StaffRoles, EmailCorrection, AttendanceGate, TLC

VARIABLE part

\* A morning with a grace: on time at 0, late at 1, home at 2.
OneMorning == {[start |-> 0, end |-> 0, grace |-> 1, leave |-> 2, close |-> 2]}

\* Administrators who change staff or addresses, and the schedules of the gate,
\* are told apart by name only.
Interchangeable == Permutations(Officer)

AccessTypeOK == AccountTypeOK /\ StaffTypeOK /\ EmailTypeOK /\ GateTypeOK

\* What the provider and the database both hold of a person agrees once a change
\* that met no other is written: the roles of staff, the address of a student
\* (updateStaff, correctStudentEmail).
StoresAgree == SettledRolesAgree /\ EmailsAgree

AccessInit ==
  /\ part \in {"students", "staff", "addresses", "gate"}
  /\ AccountsInit /\ StaffInit /\ EmailInit /\ GateInit

AccessNext ==
  /\ UNCHANGED part
  /\ \/ part = "students" /\ Next /\ UNCHANGED <<staffVars, emailVars, gateVars>>
     \/ part = "staff" /\ StaffNext /\ UNCHANGED <<vars, emailVars, gateVars>>
     \/ part = "addresses" /\ EmailNext /\ UNCHANGED <<vars, staffVars, gateVars>>
     \/ part = "gate" /\ GateNext /\ UNCHANGED <<vars, staffVars, emailVars>>

AccessSpec == AccessInit /\ [][AccessNext]_<<part, vars, staffVars, emailVars, gateVars>>
=============================================================================
