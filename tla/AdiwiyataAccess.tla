--------------------------- MODULE AdiwiyataAccess ---------------------------
(***************************************************************************)
(* Who may file Adiwiyata reports, and of which class a student is, as the *)
(* readers of the enrollments compute it.  The administrators' list reads  *)
(* the roster, where an enrollment is the student's; the grant and the     *)
(* student's dashboard read the enrollments of the account; the profile    *)
(* reads both; and the list of the classes that should report reads the    *)
(* administrators' list.  ClassEnrollments changes the rows under them.    *)
(*                                                                         *)
(* They only read, so what they compute are functions of the tables, of    *)
(* the active periods, which AcademicPeriods changes, and of the accounts  *)
(* that were granted.  Accounts are of approved students.                  *)
(***************************************************************************)
EXTENDS ClassEnrollments, FiniteSets

\* An answer without a reason gives none.
ASSUME ReasonAssumption ==
  None \notin {"ambiguous_active_enrollment", "class_not_in_current_period"}

Answer(c) == [class |-> c, reason |-> None]
Because(why) == [class |-> None, reason |-> why]

-----------------------------------------------------------------------------
\* The rows.

\* listStudentProfiles: the active enrollments of the student bound to u.
RosterRows(u) ==
  IF binding[NisOf[u]] = u THEN {i \in ActiveIn(enrollment) : enrollment[i].student = NisOf[u]}
  ELSE {}

\* listClassEnrollments of an account, active ones of one period.
AccountRows(u, p) == ActiveOf(u, p)

\* The class that getRosterStudentByNis reports: of the last active enrollment.
RosterClass(s) ==
  LET rows == {i \in ActiveIn(enrollment) : enrollment[i].student = s}
  IN IF rows = {} THEN None ELSE enrollment[Max(rows)].class

\* getClassById, and the period the class must be of.
ClassIn(i, p) ==
  LET c == enrollment[i].class IN
    IF class[c] = p THEN Answer(c) ELSE Because("class_not_in_current_period")

-----------------------------------------------------------------------------
\* The readers.

\* getActiveSitePeriod: the active period, if there is one and no other.
TheActive(active) == IF Cardinality(active) = 1 THEN CHOOSE p \in active : TRUE ELSE None

\* One class of exactly one row.
OfOneRow(rows, p) ==
  CASE rows = {} -> Because("no_active_enrollment")
    [] Cardinality(rows) > 1 -> Because("ambiguous_active_enrollment")
    [] OTHER -> ClassIn(CHOOSE i \in rows : TRUE, p)

\* Variant: the class is not looked up.
ViewOf_Unchecked(u, active) ==
  LET p == TheActive(active)
      rows == {i \in RosterRows(u) : enrollment[i].period = p}
  IN CASE p = None -> Because("active_period_unavailable")
       [] Cardinality(rows) = 1 -> Answer(enrollment[CHOOSE i \in rows : TRUE].class)
       [] OTHER -> OfOneRow(rows, p)

\* buildView of listAdiwiyataAdminEligibility; a class is an offer to grant.
ViewOf(u, active) ==
  LET p == TheActive(active) IN
    IF p = None THEN Because("active_period_unavailable")
    ELSE OfOneRow({i \in RosterRows(u) : enrollment[i].period = p}, p)

\* What grantAdiwiyataEligibility and getAdiwiyataDashboard find for u.
AccountAnswer(u, active) ==
  LET p == TheActive(active) IN
    IF p = None THEN Because("academic_period") ELSE OfOneRow(AccountRows(u, p), p)

\* getCanonicalProfile: the roster knows the class of the student bound to u;
\* None stands for what the profile itself says.
CanonicalClass(u) == IF binding[NisOf[u]] = u THEN RosterClass(NisOf[u]) ELSE None

\* getProfile prefers the account's enrollment in p, the active period it read.
ProfileClass(u, p) ==
  IF AccountRows(u, p) = {} THEN CanonicalClass(u)
  ELSE enrollment[Max(AccountRows(u, p))].class

\* listAdiwiyataAdminReports, of today: an error once the enrollment of one
\* who was granted does not give its class, and their classes otherwise.
CoverageFails(granted, active) ==
  \/ TheActive(active) = None
  \/ \E u \in granted :
       ViewOf(u, active).reason \in {"ambiguous_active_enrollment", "class_not_in_current_period"}

CoveredClasses(granted, active) ==
  IF CoverageFails(granted, active) THEN {}
  ELSE {ViewOf(u, active).class : u \in granted} \ {None}

-----------------------------------------------------------------------------
\* Properties.

\* The administrators' list joins enrollments by student, the grant and the
\* dashboard look for them by account, and the profile does both.  Through
\* signups, rejections, transfers and moved classes, whoever the list offers
\* can be granted, then opens the dashboard of that very class, and has it in
\* the profile; a class that today's coverage waits for has a student whose
\* dashboard is of that class; and the coverage fails only with a student whose
\* dashboard fails over the same class (listAdiwiyataAdminEligibility,
\* grantAdiwiyataEligibility, getAdiwiyataDashboard, getProfile,
\* listAdiwiyataAdminReports).
OfferedIsGranted ==
  \A active \in SUBSET Period :
    /\ \A u \in User :
         LET view == ViewOf(u, active) IN
           view.class # None =>
             /\ AccountAnswer(u, active) = view
             /\ CanonicalClass(u) = view.class /\ ProfileClass(u, TheActive(active)) = view.class
    /\ \A granted \in SUBSET User :
         /\ \A c \in CoveredClasses(granted, active) :
              \E u \in granted : AccountAnswer(u, active) = Answer(c)
         /\ CoverageFails(granted, active) /\ TheActive(active) # None =>
              \E u \in granted : AccountAnswer(u, active) = Because("class_not_in_current_period")
=============================================================================
