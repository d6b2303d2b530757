-------------------------- MODULE AdiwiyataReports --------------------------
(***************************************************************************)
(* Adiwiyata photo reports of one day: submission over three stores that   *)
(* share no transaction (file metadata, object storage and the reports     *)
(* table), verification by administrators, and the changes to enrollments, *)
(* Sites and eligibility they race with.                                   *)
(*                                                                         *)
(* A submission draws one file id, one object path and one report id, so   *)
(* all three are named after it.  Its handler awaits the stores one after  *)
(* the other; its database transaction is an actor of its own, which may   *)
(* still commit, or abort, after the handler has lost the connection.      *)
(***************************************************************************)
EXTENDS Naturals, Sequences, FiniteSets, NoValue

CONSTANTS Submission,       \* submissions, and the ids each of them draws
          Student, Class, Site,
          MaxVerifications  \* bound: audited verifications of one report

\* None is no class, Site or student; the bound is a number.
ASSUME ReportsAssumption ==
  /\ None \notin Class \cup Site \cup Student
  /\ MaxVerifications \in Nat

VARIABLES
  class,      \* class of the student's active enrollment
  eligible,   \* approved students with an active Adiwiyata grant
  visible,    \* classes that see a Site; none once it is deactivated
  file,       \* files.lifecycle of the submission's file
  stored,     \* object paths that hold an object
  filed,      \* rows of adiwiyata_reports
  verified,   \* those whose verified_at is set
  trail,      \* audit rows of each report's verification
  submission, \* the handler
  open        \* submissions whose transaction has taken its locks

school == <<class, eligible, visible>>
reports == <<filed, verified, trail>>
vars == <<school, file, stored, reports, submission, open>>

Phase == {"new", "created", "stored", "sent", "refused", "unsure", "unstored",
          "unmarked", "done"}

SubmissionState ==
  [phase : Phase, student : Student \cup {None}, class : Class \cup {None},
   site : Site \cup {None}]

ReportsTypeOK ==
  /\ class \in [Student -> Class \cup {None}]
  /\ eligible \subseteq Student
  /\ visible \in [Site -> SUBSET Class]
  /\ file \in [Submission -> {"none", "pending", "available", "deleted"}]
  /\ stored \subseteq Submission
  /\ verified \subseteq filed /\ filed \subseteq Submission
  /\ trail \in [Submission -> Seq({"verify", "unverify"})]
  /\ submission \in [Submission -> SubmissionState]
  /\ open \subseteq {p \in Submission : submission[p].student # None}

ReportsInit ==
  /\ class \in [Student -> Class]
  /\ eligible = Student
  /\ visible = [x \in Site |-> Class]
  /\ file = [p \in Submission |-> "none"]
  /\ stored = {} /\ filed = {} /\ verified = {}
  /\ trail = [p \in Submission |-> <<>>]
  /\ submission = [p \in Submission |->
       [phase |-> "new", student |-> None, class |-> None, site |-> None]]
  /\ open = {}

-----------------------------------------------------------------------------
\* What the handlers and transactions read.

In(p, phase) == submission[p].phase = phase

GoTo(p, phase) == submission' = [submission EXCEPT ![p].phase = phase]

\* Reports of a class for a Site: the pair that one advisory lock stands for.
PairOf(p) == <<submission[p].class, submission[p].site>>

OfPair(c, x) == {p \in filed : PairOf(p) = <<c, x>>}

Closed(c, x) == OfPair(c, x) \cap verified # {}

\* Variant: only the reports of the student's class are looked through.
Duplicate_OfClass(s, c, x) ==
  \E p \in OfPair(c, x) : submission[p].student = s

\* The SELECT, with the unique index behind it.
Duplicate(s, c, x) ==
  \E p \in filed : submission[p].student = s /\ submission[p].site = x

\* pg_advisory_xact_lock on the pair; the lock on the enrollment row.
PairFree(pair) == \A q \in open : PairOf(q) # pair
EnrollmentFree(s) == \A q \in open : submission[q].student # s

-----------------------------------------------------------------------------
\* submitAdiwiyataStudentReport

\* What the dashboard of the student says of the Site.
CanReport(s, x) ==
  /\ s \in eligible /\ class[s] \in visible[x]
  /\ ~Duplicate(s, class[s], x) /\ ~Closed(class[s], x)

\* The dashboard is read, and a file record created before anything is stored.
Begin(p, s, x) ==
  /\ In(p, "new")
  /\ CanReport(s, x)
  /\ submission' = [submission EXCEPT ![p] =
       [phase |-> "created", student |-> s, class |-> class[s], site |-> x]]
  /\ file' = [file EXCEPT ![p] = "pending"]
  /\ UNCHANGED <<school, stored, reports, open>>

\* An upload that fails may have stored the object all the same.
Upload(p) ==
  /\ In(p, "created")
  /\ \/ stored' = stored \cup {p} /\ GoTo(p, "stored")
     \/ stored' \in {stored, stored \cup {p}} /\ GoTo(p, "unstored")
  /\ UNCHANGED <<school, file, reports, open>>

\* submitAdiwiyataReport up to the insert: under the lock of the pair and of
\* the enrollment everything is read again.  Schedules, holidays, periods and
\* names may refuse as well.
Check(p) ==
  LET s == submission[p].student
      c == submission[p].class
      x == submission[p].site IN
    /\ In(p, "stored")
    /\ PairFree(PairOf(p))
    /\ \/ /\ EnrollmentFree(s)
          /\ s \in eligible /\ class[s] = c /\ c \in visible[x]
          /\ ~Duplicate(s, c, x) /\ ~Closed(c, x) /\ file[p] = "pending"
          /\ open' = open \cup {p}
          /\ GoTo(p, "sent")
       \/ GoTo(p, "refused") /\ UNCHANGED open
    /\ UNCHANGED <<school, file, stored, reports>>

Commit(p) ==
  /\ p \in open
  /\ filed' = filed \cup {p}
  /\ file' = [file EXCEPT ![p] = "available"]
  /\ open' = open \ {p}
  /\ IF In(p, "sent") THEN GoTo(p, "done") ELSE UNCHANGED submission
  /\ UNCHANGED <<school, stored, verified, trail>>

\* The transaction ends without effect; a waiting handler sees an error that
\* is no refusal.
Abort(p) ==
  /\ p \in open
  /\ open' = open \ {p}
  /\ IF In(p, "sent") THEN GoTo(p, "unsure") ELSE UNCHANGED submission
  /\ UNCHANGED <<school, file, stored, reports>>

\* The connection is lost before the locks, or while the transaction runs on.
LoseConnection(p) ==
  /\ In(p, "stored") \/ In(p, "sent")
  /\ GoTo(p, "unsure")
  /\ UNCHANGED <<school, file, stored, reports, open>>

\* Variant: a report that is not found was not filed.
ListReports_NotFoundIsRefused(p) ==
  /\ In(p, "unsure") \/ In(p, "refused")
  /\ GoTo(p, IF p \in filed THEN "done" ELSE "unstored")
  /\ UNCHANGED <<school, file, stored, reports, open>>

\* After an error the report is looked for.  Only a known refusal is cleaned
\* up; a report that was found is the answer; anything else, a failing look
\* included, is left as it is.
ListReports(p) ==
  /\ In(p, "unsure") \/ In(p, "refused")
  /\ \/ In(p, "refused") /\ p \notin filed /\ GoTo(p, "unstored")
     \/ GoTo(p, "done")
  /\ UNCHANGED <<school, file, stored, reports, open>>

\* Variant: the answer of the storage is not looked at.
DeleteObject_Unchecked(p) ==
  /\ In(p, "unstored")
  /\ stored' \in {stored, stored \ {p}}
  /\ GoTo(p, "unmarked")
  /\ UNCHANGED <<school, file, reports, open>>

DeleteObject(p) ==
  /\ In(p, "unstored")
  /\ \/ stored' = stored \ {p} /\ GoTo(p, "unmarked")
     \/ stored' \in {stored, stored \ {p}} /\ GoTo(p, "done")
  /\ UNCHANGED <<school, file, reports, open>>

\* Variant: the lifecycle of a refused upload by the client.
MarkDeleted_Rejected(p) ==
  /\ In(p, "unmarked")
  /\ file' \in {file, [file EXCEPT ![p] = "rejected"]}
  /\ GoTo(p, "done")
  /\ UNCHANGED <<school, stored, reports, open>>

\* updateFileLifecycle(file.id, 'deleted'), which may fail too.
MarkDeleted(p) ==
  /\ In(p, "unmarked")
  /\ file' \in {file, [file EXCEPT ![p] = "deleted"]}
  /\ GoTo(p, "done")
  /\ UNCHANGED <<school, stored, reports, open>>

\* The process of the handler dies; its transaction may still commit.
Crash(p) ==
  /\ submission[p].phase \notin {"new", "done"}
  /\ GoTo(p, "done")
  /\ UNCHANGED <<school, file, stored, reports, open>>

-----------------------------------------------------------------------------
\* Administrators.

Sets(p, v) ==
  /\ verified' = IF v THEN verified \cup {p} ELSE verified \ {p}
  /\ trail' = [trail EXCEPT ![p] = Append(@, IF v THEN "verify" ELSE "unverify")]
  /\ UNCHANGED <<school, file, stored, filed, submission, open>>

\* Variant: verification takes the row and not the lock of the pair.
UpdateVerification_NoLock(p, v) ==
  /\ p \in filed /\ Len(trail[p]) < MaxVerifications
  /\ v <=> p \notin verified
  /\ Sets(p, v)

\* updateAdiwiyataReportVerification.  Reads, update and audit row are under
\* the lock of the pair, so they are one step; what is already set is left
\* alone.
UpdateVerification(p, v) ==
  /\ p \in filed /\ Len(trail[p]) < MaxVerifications
  /\ PairFree(PairOf(p))
  /\ v <=> p \notin verified
  /\ Sets(p, v)

\* Whom a Site may be shown to: the class that validateSiteClass accepts, or all.
Viewers == {{c} : c \in Class} \cup {Class}

\* updateAdiwiyataSite of the store; nobody sees what is not active.
SetVisible(x, viewers) == visible' = [visible EXCEPT ![x] = viewers]

\* A deactivated Site stays so.
UpdateSite(x) ==
  /\ visible[x] # {}
  /\ \E viewers \in Viewers \cup {{}} : SetVisible(x, viewers)
  /\ UNCHANGED <<class, eligible, file, stored, reports, submission, open>>

\* upsertAdiwiyataEligibility and setAdiwiyataEligibilityActive of the store.
SetEligible(students) == eligible' = students

\* Grants need an enrollment; revocations need nothing.
GrantEligibility(s) ==
  /\ class[s] # None
  /\ SetEligible(eligible \cup {s})
  /\ UNCHANGED <<class, visible, file, stored, reports, submission, open>>

RevokeEligibility(s) ==
  /\ SetEligible(eligible \ {s})
  /\ UNCHANGED <<class, visible, file, stored, reports, submission, open>>

\* Variant: the new enrollment is written without touching the old row.
TransferStudent_NoRowLock(s, c) ==
  /\ class[s] \notin {None, c}
  /\ class' = [class EXCEPT ![s] = c]
  /\ UNCHANGED <<eligible, visible, file, stored, reports, submission, open>>

\* transferStudentEnrollment updates the enrollment row a submission has locked.
TransferStudent(s, c) ==
  /\ class[s] \notin {None, c}
  /\ EnrollmentFree(s)
  /\ class' = [class EXCEPT ![s] = c]
  /\ UNCHANGED <<eligible, visible, file, stored, reports, submission, open>>

\* exitStudentEnrollment, and the enrollment that may follow it.
ExitStudent(s) ==
  /\ class[s] # None
  /\ EnrollmentFree(s)
  /\ class' = [class EXCEPT ![s] = None]
  /\ UNCHANGED <<eligible, visible, file, stored, reports, submission, open>>

EnrollStudent(s, c) ==
  /\ class[s] = None
  /\ class' = [class EXCEPT ![s] = c]
  /\ UNCHANGED <<eligible, visible, file, stored, reports, submission, open>>

HandlerStep(p) ==
  \/ Upload(p) \/ Check(p) \/ LoseConnection(p) \/ ListReports(p)
  \/ DeleteObject(p) \/ MarkDeleted(p) \/ Crash(p)

Next ==
  \/ \E p \in Submission, s \in Student, x \in Site : Begin(p, s, x)
  \/ \E p \in Submission : HandlerStep(p) \/ Commit(p) \/ Abort(p)
  \/ \E p \in Submission, v \in BOOLEAN : UpdateVerification(p, v)
  \/ \E x \in Site : UpdateSite(x)
  \/ \E s \in Student : \/ GrantEligibility(s) \/ RevokeEligibility(s) \/ ExitStudent(s)
                        \/ \E c \in Class : TransferStudent(s, c) \/ EnrollStudent(s, c)

ReportsSpec == ReportsInit /\ [][Next]_vars

-----------------------------------------------------------------------------
\* Properties.

\* A report always has its photo: its file is available and its object is
\* stored, whatever answer of the database or the storage got lost on the way.
\* (Deletion by another route is refused for files of this purpose.)
ReportHasPhoto == \A p \in filed : file[p] = "available" /\ p \in stored

\* "Rejected object writes remain tracked until cleanup is confirmed"
\* (INV-ADIWIYATA-002): no object is left whose file record is missing or says
\* deleted, after failing uploads, refusals, failing cleanups and crashes.
ObjectsStayTracked == \A p \in stored : file[p] \in {"pending", "available"}

\* "Upload and verification serialize on the same lock" (INV-ADIWIYATA-002):
\* once a report of a class for a Site is verified no further one is filed.
ClosedAfterVerification ==
  [][\A p \in filed' \ filed : ~Closed(submission[p].class, submission[p].site)]_vars

\* A report is filed under the class the student is enrolled in at that
\* moment, although the class was read long before.
FiledUnderEnrolledClass ==
  [][\A p \in filed' \ filed : class[submission[p].student] = submission[p].class]_vars

\* A student files one report a day for a Site, before and after a transfer.
OneReportPerSite ==
  \A p, q \in filed :
    p # q => <<submission[p].student, submission[p].site>>
               # <<submission[q].student, submission[q].site>>

\* What a submission reports: who, for which class, on which Site.
EntryOf(p) == <<submission[p].student, submission[p].class, submission[p].site>>

Book == INSTANCE ReportBook WITH
          Pupil <- Student, Group <- Class, Place <- Site, NoGroup <- None,
          group <- class,
          book <- {EntryOf(p) : p \in filed}, accepted <- {EntryOf(p) : p \in verified}

\* Submissions, their transactions and files, verifications and changes of the
\* school are together no more than a book of reports.
ImplementsReportBook == Book!BookSpec

\* The audit trail of a report tells its verifications apart: verify and
\* unverify alternate, and the last one is what the report shows.
TrailAlternates ==
  \A p \in Submission :
    LET n == Len(trail[p]) IN
      /\ n > 0 => trail[p][1] = "verify"
      /\ \A i \in 1 .. n - 1 : trail[p][i] # trail[p][i + 1]
      /\ p \in verified <=> (n > 0 /\ trail[p][n] = "verify")

\* Reports and their trails stay consistent through all of it.
ReportsConsistent == OneReportPerSite /\ TrailAlternates
=============================================================================
