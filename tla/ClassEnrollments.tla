-------------------------- MODULE ClassEnrollments --------------------------
(***************************************************************************)
(* Classes, the roster reports that create students, and the enrollments   *)
(* that administrators then change by account.                             *)
(*                                                                         *)
(* A transaction of the store is atomic except where it acts on what it    *)
(* has read before: a transfer or promotion writes by id the row it        *)
(* selected, and an acceptance inserts the report it loaded.  Those take   *)
(* a step that reads and a step that commits.  Periods exist throughout    *)
(* (AcademicPeriods has their life), whether one is active matters to      *)
(* none of these.  Audit rows, which no handler of these reads, are left   *)
(* out, and so are names and dates; profiles.class_name is the class of    *)
(* the last row created by account.                                        *)
(***************************************************************************)
EXTENDS Naturals, FiniteSets, Sequences, SequencesExt, NoValue

CONSTANTS Student,  \* canonical students, by NIS
          User,     \* accounts
          NisOf,    \* the student an account signed up for
          Class, Period,
          Absence,  \* absence numbers
          Report,   \* roster reports
          Desk,     \* concurrent administrators
          ExitStatus, \* how students leave: graduated, archived
          MaxRows   \* bound: rows of class_enrollments

\* An account belongs to one signup, and so to one student.  A report lists
\* finitely many.
ASSUME EnrollmentsAssumption ==
  /\ IsFiniteSet(Student)
  /\ NisOf \in [User -> Student]
  /\ MaxRows \in Nat /\ ExitStatus \subseteq {"graduated", "archived"}
  /\ None \notin Student \cup User \cup Class \cup Period \cup Absence

VARIABLES
  signupOpen,  \* schools.signup_open
  class,       \* classes: the period a class belongs to
  student,     \* students
  binding,     \* student_bindings, by student
  enrollment,  \* class_enrollments, in the order they were created
  report,      \* roster_reports
  call         \* what each administrator's transaction has read

enrollmentVars == <<signupOpen, class, student, binding, enrollment, report, call>>

Status == {"active", "transferred", "promoted", "graduated", "archived"}

EnrollmentRow == [student : Student \cup {None}, user : User \cup {None}, class : Class,
                  period : Period, absence : Absence \cup {None}, status : Status]

\* The rows of a report: what it says of each student it lists.
Listing == [class : Class, absence : Absence]

ReportRow == [period : Period, rows : UNION {[S -> Listing] : S \in SUBSET Student},
              status : {"staged", "rejected", "accepted"}]

\* The null of the database is no row.
ASSUME EnrollmentsNullAssumption == \A row \in ReportRow : row # None

Idle == [op |-> "idle"]

Call == {Idle}
  \cup [op : {"transferred", "promoted"}, row : 1 .. MaxRows, class : Class, period : Period, user : User]
  \cup [op : {"accept"}, report : Report]

EnrollmentsTypeOK ==
  /\ signupOpen \in BOOLEAN
  /\ class \in [Class -> Period \cup {None}]
  /\ student \subseteq Student
  /\ binding \in [Student -> User \cup {None}]
  /\ enrollment \in Seq(EnrollmentRow) /\ Len(enrollment) <= MaxRows
  /\ \A e \in ToSet(enrollment) : ~(e.student = None /\ e.user = None)
  /\ report \in [Report -> ReportRow \cup {None}]
  /\ call \in [Desk -> Call]

EnrollmentsInit ==
  /\ signupOpen = FALSE /\ class = [c \in Class |-> None]
  /\ student = {} /\ binding = [s \in Student |-> None]
  /\ enrollment = <<>>
  /\ report = [r \in Report |-> None]
  /\ call = [d \in Desk |-> Idle]

ActiveIn(table) == {i \in DOMAIN table : table[i].status = "active"}

Becomes(d, c) == call' = [call EXCEPT ![d] = c]

-----------------------------------------------------------------------------
\* Classes and the roster.

\* createClass and updateClass of the store.
SetClass(c, p) == class' = [class EXCEPT ![c] = p]

\* An administrator creates a class of a period, or moves one that exists.
PutClass(d) ==
  /\ call[d] = Idle
  /\ \E c \in Class, p \in Period : class[c] # p /\ SetClass(c, p)
  /\ UNCHANGED <<signupOpen, student, binding, enrollment, report, call>>

\* The checks of a staged row, against the tables as they are.
Acceptable(p, rows) ==
  \A s \in DOMAIN rows :
    /\ s \notin student
    /\ class[rows[s].class] = p
    /\ \A t \in (DOMAIN rows) \ {s} : rows[t] # rows[s]
    /\ \A i \in ActiveIn(enrollment) :
         ~(enrollment[i].period = p /\ enrollment[i].class = rows[s].class
             /\ enrollment[i].absence = rows[s].absence)

\* stageRosterReport of the store: a new report.
InsertReport(row) ==
  \E r \in Report : report[r] = None /\ report' = [report EXCEPT ![r] = row]

\* validateAndStageRoster: one bad row makes the report rejected for good.
StageRoster(d) ==
  /\ call[d] = Idle
  /\ \E p \in Period, S \in SUBSET Student : \E rows \in [S -> Listing] :
       InsertReport([period |-> p, rows |-> rows,
                     status |-> IF Acceptable(p, rows) THEN "staged" ELSE "rejected"])
  /\ UNCHANGED <<signupOpen, class, student, binding, enrollment, call>>

\* The reports that load with a status.
ReportsThatAre(status) == {r \in Report : report[r] # None /\ report[r].status = status}

\* acceptRosterReport loads the report and looks at its status before the
\* transaction that carries it out.
AcceptRoster(d) ==
  /\ call[d] = Idle
  /\ \E r \in ReportsThatAre("staged") : Becomes(d, [op |-> "accept", report |-> r])
  /\ UNCHANGED <<signupOpen, class, student, binding, enrollment, report>>

\* The unique indexes on active enrollments: one per account and period, one
\* per student and period, one per absence number of a class.
IndexesHold(table) ==
  \A i \in ActiveIn(table) : \A j \in ActiveIn(table) \ {i} :
    table[i].period = table[j].period =>
      /\ table[i].user = None \/ table[i].user # table[j].user
      /\ table[i].student = None \/ table[i].student # table[j].student
      /\ table[i].absence = None \/ table[i].class # table[j].class
           \/ table[i].absence # table[j].absence

\* A statement that would break an index, or a row too many, undoes its
\* transaction: the table is never left that way.
Commits(table) == Len(table) <= MaxRows /\ IndexesHold(table) /\ enrollment' = table

\* The rows an accepted listing of students S adds.
Listed(rep, S) ==
  SetToSeq({[student |-> s, user |-> None, class |-> rep.rows[s].class, period |-> rep.period,
             absence |-> rep.rows[s].absence, status |-> "active"] : s \in S})

\* Variant: students that exist already are passed over.
CarryOut_PassOver(rep) ==
  /\ student' = student \cup DOMAIN rep.rows
  /\ Commits(enrollment \o Listed(rep, (DOMAIN rep.rows) \ student))

\* The transaction creates every student and an enrollment of each in the
\* class of its listing.  A student that exists or a class that has moved
\* undoes it all.
CarryOut(rep) ==
  /\ (DOMAIN rep.rows) \cap student = {}
  /\ \A s \in DOMAIN rep.rows : class[rep.rows[s].class] = rep.period
  /\ student' = student \cup DOMAIN rep.rows
  /\ Commits(enrollment \o Listed(rep, DOMAIN rep.rows))

CommitRoster(d) ==
  /\ call[d].op = "accept"
  /\ LET r == call[d].report IN
       /\ CarryOut(report[r])
       /\ report' = [report EXCEPT ![r].status = "accepted"]
  /\ Becomes(d, Idle)
  /\ UNCHANGED <<signupOpen, class, binding>>

\* getBootstrapStatus.
RosterAccepted == ReportsThatAre("accepted") # {}

\* openSignup of the store, after which signup stays open.
SetSignupOpen == signupOpen' = TRUE

\* openStudentSignup, once some report was accepted.
OpenSignup(d) ==
  /\ call[d] = Idle /\ ~signupOpen
  /\ RosterAccepted
  /\ SetSignupOpen
  /\ UNCHANGED <<class, student, binding, enrollment, report, call>>

-----------------------------------------------------------------------------
\* Binding, as signup and rejection do it.

\* Variant: the enrollments stay with the student.
Bind_BindingOnly(u) ==
  /\ NisOf[u] \in student /\ signupOpen
  /\ binding[NisOf[u]] \in {None, u}
  /\ binding' = [binding EXCEPT ![NisOf[u]] = u]
  /\ UNCHANGED <<signupOpen, class, student, enrollment, report, call>>

\* bindStudentToUser: the student's enrollments become the account's, which
\* an enrollment the account already has may forbid.  Its SELECT and upsert
\* are taken as one step.
Bind(u) ==
  /\ NisOf[u] \in student /\ signupOpen
  /\ binding[NisOf[u]] \in {None, u}
  /\ binding' = [binding EXCEPT ![NisOf[u]] = u]
  /\ Commits([i \in DOMAIN enrollment |->
               IF enrollment[i].student = NisOf[u] THEN [enrollment[i] EXCEPT !.user = u]
               ELSE enrollment[i]])
  /\ UNCHANGED <<signupOpen, class, student, report, call>>

\* unbindStudentByNis leaves the enrollments with the account.
Unbind(u) ==
  /\ binding[NisOf[u]] = u
  /\ binding' = [binding EXCEPT ![NisOf[u]] = None]
  /\ UNCHANGED <<signupOpen, class, student, enrollment, report, call>>

-----------------------------------------------------------------------------
\* Enrollments, by account.

ByAccount(u, c, p) == [student |-> None, user |-> u, class |-> c, period |-> p,
                       absence |-> None, status |-> "active"]

ActiveOf(u, p) == {i \in ActiveIn(enrollment) : enrollment[i].user = u /\ enrollment[i].period = p}

\* enrollStudentInClass: any class that exists will do.
EnrollStudent(d) ==
  /\ call[d] = Idle
  /\ \E u \in User, c \in Class, p \in Period :
       /\ class[c] # None /\ ActiveOf(u, p) = {}
       /\ Commits(Append(enrollment, ByAccount(u, c, p)))
  /\ UNCHANGED <<signupOpen, class, student, binding, report, call>>

\* transferStudentEnrollment selects the active row of the period.
TransferStudent(d) ==
  /\ call[d] = Idle
  /\ \E u \in User, c \in Class, p \in Period : \E i \in ActiveOf(u, p) :
       /\ class[c] # None /\ enrollment[i].class # c
       /\ Becomes(d, [op |-> "transferred", row |-> i, class |-> c, period |-> p, user |-> u])
  /\ UNCHANGED <<signupOpen, class, student, binding, enrollment, report>>

\* promoteStudentEnrollment selects that of one period, and must find none in
\* the other.
PromoteStudent(d) ==
  /\ call[d] = Idle
  /\ \E u \in User, c \in Class, p, q \in Period : \E i \in ActiveOf(u, p) :
       /\ class[c] # None /\ ActiveOf(u, q) = {}
       /\ Becomes(d, [op |-> "promoted", row |-> i, class |-> c, period |-> q, user |-> u])
  /\ UNCHANGED <<signupOpen, class, student, binding, enrollment, report>>

\* The row is given its new status whatever it has become meanwhile.
Left(c) == [enrollment EXCEPT ![c.row].status = c.op]

\* The new row is not of the student's roster number, or of the student.
Moves(c) == Commits(Append(Left(c), ByAccount(c.user, c.class, c.period)))

CommitTransfer(d) ==
  /\ call[d].op = "transferred"
  /\ Moves(call[d])
  /\ Becomes(d, Idle)
  /\ UNCHANGED <<signupOpen, class, student, binding, report>>

CommitPromotion(d) ==
  /\ call[d].op = "promoted"
  /\ Moves(call[d])
  /\ Becomes(d, Idle)
  /\ UNCHANGED <<signupOpen, class, student, binding, report>>

\* exitStudentEnrollment, one statement.
ExitStudent(d) ==
  /\ call[d] = Idle
  /\ \E u \in User, p \in Period, status \in ExitStatus :
       /\ ActiveOf(u, p) # {}
       /\ enrollment' = [i \in DOMAIN enrollment |->
            IF i \in ActiveOf(u, p) THEN [enrollment[i] EXCEPT !.status = status]
            ELSE enrollment[i]]
  /\ UNCHANGED <<signupOpen, class, student, binding, report, call>>

\* The database refuses or fails: the transaction leaves nothing.
Fails(d) ==
  /\ call[d] # Idle
  /\ Becomes(d, Idle)
  /\ UNCHANGED <<signupOpen, class, student, binding, enrollment, report>>

EnrollmentsNext ==
  \/ \E d \in Desk :
       \/ PutClass(d) \/ StageRoster(d) \/ AcceptRoster(d) \/ CommitRoster(d) \/ OpenSignup(d)
       \/ EnrollStudent(d) \/ TransferStudent(d) \/ PromoteStudent(d)
       \/ CommitTransfer(d) \/ CommitPromotion(d) \/ ExitStudent(d) \/ Fails(d)
  \/ \E u \in User : Bind(u) \/ Unbind(u)

EnrollmentsSpec == EnrollmentsInit /\ [][EnrollmentsNext]_enrollmentVars

-----------------------------------------------------------------------------
\* Properties.

\* A student and the account bound to it are one person, counted by student
\* id in some rows and by account in others: together they have at most one
\* active enrollment per period, whatever transfers, promotions and signups
\* are under way (schema.sql:175-177, bindStudentToUser, the enrollment
\* transactions).
OneClassPerPerson ==
  \A u \in User, p \in Period :
    LET mine == {i \in ActiveIn(enrollment) :
                   /\ enrollment[i].period = p
                   /\ \/ enrollment[i].user = u
                      \/ binding[NisOf[u]] = u /\ enrollment[i].student = NisOf[u]}
    IN \A i, j \in mine : i = j

\* An accepted report was carried out as a whole: each of its students exists
\* and was enrolled in the period and class it says, even if several reports
\* that list the same students or numbers were staged and accepted at once
\* (acceptRosterReport).
AcceptedMeansEnrolled ==
  \A r \in Report : report[r] # None /\ report[r].status = "accepted" =>
    \A s \in DOMAIN report[r].rows :
      /\ s \in student
      /\ \E i \in DOMAIN enrollment :
           /\ enrollment[i].student = s
           /\ enrollment[i].period = report[r].period
           /\ enrollment[i].class = report[r].rows[s].class
           /\ enrollment[i].absence = report[r].rows[s].absence

\* What the documents say (invariants.md, INV-ASTRA-015): the class of a bound
\* student is that of the latest active enrollment.  Read by student id, as
\* getRosterStudentByNis and the leave collection do, it is one that an active
\* enrollment of the bound account names.
ClassFollowsEnrollment ==
  \A u \in User : binding[NisOf[u]] = u =>
    LET byAccount == {enrollment[i].class : i \in {j \in ActiveIn(enrollment) : enrollment[j].user = u}}
        byStudent == {enrollment[i].class :
                        i \in {j \in ActiveIn(enrollment) : enrollment[j].student = NisOf[u]}}
    IN byAccount # {} => byStudent # {} /\ byStudent \subseteq byAccount

=============================================================================
