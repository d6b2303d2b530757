-------------------------- MODULE StudentRecords --------------------------
(***************************************************************************)
(* The tables that hold a student's day, and the transactions of the       *)
(* PostgreSQL DomainStore that write them: leave_requests, attendances,    *)
(* attendance_attempts, audit_logs and the enqueueing side of              *)
(* notification_outbox.                                                    *)
(*                                                                         *)
(* Each transaction below is one atomic step.  The ones that read a        *)
(* condition over several rows of a student (create, approve, force-finish,*)
(* both attendance inserts) hold pg_advisory_xact_lock(student) until they *)
(* commit, so they are serial per student; the others write one row that   *)
(* they hold FOR UPDATE, or a set of rows in one statement.  A transaction *)
(* whose condition fails throws and writes nothing: it is simply not       *)
(* enabled here, and the handler that called it ends (AttendanceService,   *)
(* LeaveService).                                                          *)
(***************************************************************************)
EXTENDS Naturals, Sequences, FiniteSets, LeavePeriods

CONSTANTS
  Student,      \* students (user_id)
  Request,      \* identities leave_requests rows can draw
  Row,          \* identities attendances rows can draw
  Attempt,      \* identities attendance_attempts rows can draw
  LastDay,      \* bound: the last calendar day of the model
  MaxDuration,  \* longest approvable period, 30 in the service
  MaxDecisions  \* bound: decisions ever taken on one request

\* There is a first day, and a leave may last a day.
ASSUME DaysAssumption == /\ LastDay \in Nat \ {0}
                         /\ MaxDuration \in Nat \ {0}
                         /\ MaxDecisions \in Nat

VARIABLES
  leave,       \* leave_requests by id
  decisions,   \* audit_logs rows of the four decision actions, by request
  attendance,  \* attendances by id
  attempt,     \* attendance_attempts by id
  notes,       \* the other audit_logs rows, as <<action, id>>
  outbox,      \* event keys present in notification_outbox
  today        \* the WIB date

tables == <<leave, decisions, attendance, attempt, notes, outbox>>

Day == 1 .. LastDay
Action == {"check_in", "check_out"}

\* Hadir stands for Hadir and Terlambat, which no property tells apart.
AttendanceStatus == {"Hadir", "Pulang", "Alpha"}
Present == {"Hadir", "Pulang"}

DecisionAction == {"approve", "reject", "reopen", "finish"}

LeaveRow ==
  [student : Student,
   status : {"unused", "pending", "approved", "rejected", "deleted"},
   start : Nat, originalEnd : Nat, effectiveEnd : Nat]

AttendanceRow ==
  [student : Student, day : Nat, action : Action,
   status : AttendanceStatus \cup {"unused", "deleted"}]

AttemptRow ==
  [student : Student, day : Nat, action : Action,
   status : {"unused", "success", "failed", "error"}]

\* until: the effective end the decision set.
Decision == [action : DecisionAction, until : Nat]

Note == ({"create_manual_attendance", "delete_attendance"} \X Row)
        \cup ({"create_admin_leave_request", "delete_leave_request"} \X Request)

EventKey == ({"leave_approved", "leave_rejected", "leave_reopened"} \X Request)
            \cup ({"manual_attendance"} \X Attempt)

TypeOK ==
  /\ leave \in [Request -> LeaveRow]
  /\ decisions \in [Request -> Seq(Decision)]
  /\ attendance \in [Row -> AttendanceRow]
  /\ attempt \in [Attempt -> AttemptRow]
  /\ notes \subseteq Note
  /\ outbox \subseteq EventKey
  /\ today \in Day

(***************************************************************************)
(* Rows are drawn from pools.  An identity is bound from the start to the  *)
(* student whose insert will draw it, which is the choice a fresh UUID     *)
(* leaves open.                                                            *)
(***************************************************************************)
RecordsInit ==
  /\ leave \in [Request -> {[student |-> s, status |-> "unused", start |-> NoDay,
                             originalEnd |-> NoDay, effectiveEnd |-> NoDay] : s \in Student}]
  /\ decisions = [r \in Request |-> <<>>]
  /\ attendance \in [Row -> {[student |-> s, day |-> NoDay, action |-> "check_in",
                              status |-> "unused"] : s \in Student}]
  /\ attempt \in [Attempt -> {[student |-> s, day |-> NoDay, action |-> "check_in",
                               status |-> "unused"] : s \in Student}]
  /\ notes = {}
  /\ outbox = {}
  /\ today = 1

-----------------------------------------------------------------------------
\* What the transactions read.

LiveRequest(r) == leave[r].status \in {"pending", "approved", "rejected"}
LiveRow(w) == attendance[w].status \in AttendanceStatus

RequestsOf(s) == {r \in Request : leave[r].student = s}
RowsOf(s, d) == {w \in Row : LiveRow(w) /\ attendance[w].student = s
                                        /\ attendance[w].day = d}

Approved(r) == leave[r].status = "approved"

\* An approved leave of student s covers day d.
OnLeave(s, d) == \E r \in RequestsOf(s) : Approved(r) /\ Covers(leave[r], d)

\* A row counts as check-in (check-out) by its action or by its status.
MarksIn(row) == row.action = "check_in" \/ row.status = "Hadir"
MarksOut(row) == row.action = "check_out" \/ row.status = "Pulang"

CheckedIn(s, d) == \E w \in RowsOf(s, d) : MarksIn(attendance[w])
CheckedOut(s, d) == \E w \in RowsOf(s, d) : MarksOut(attendance[w])

\* Variant: a second check-out is not refused.
CanRecordAttendanceAction_OutAgain(s, d, a) ==
  IF a = "check_in" THEN ~CheckedIn(s, d) ELSE CheckedIn(s, d)

\* Variant: a check-out does not ask for a check-in.
CanRecordAttendanceAction_OutFirst(s, d, a) ==
  IF a = "check_in" THEN ~CheckedIn(s, d) ELSE ~CheckedOut(s, d)

CanRecordAttendanceAction(s, d, a) ==
  IF a = "check_in" THEN ~CheckedIn(s, d)
                    ELSE CheckedIn(s, d) /\ ~CheckedOut(s, d)

\* Variant: the enqueue is apart from the transaction and may fail on its own.
Enqueue_Apart(key) == outbox' \in {outbox, outbox \cup {key}}

\* insertNotificationOutboxRow: a second row with the same event key is
\* silently not inserted.
Enqueue(key) == outbox' = outbox \cup {key}

Decide(r, action, until) ==
  /\ Len(decisions[r]) < MaxDecisions
  /\ decisions' = [decisions EXCEPT ![r] =
       Append(@, [action |-> action, until |-> until])]

-----------------------------------------------------------------------------
\* Transactions on leave_requests.

CreateLeaveRequest(r, d) ==
  LET s == leave[r].student IN
  /\ leave[r].status = "unused"
  /\ \A q \in RequestsOf(s) : leave[q].status # "pending"
  /\ ~OnLeave(s, d)
  /\ leave' = [leave EXCEPT ![r].status = "pending", ![r].start = d]
  /\ UNCHANGED <<decisions, attendance, attempt, notes, outbox>>

\* Variant: only another leave that ends within the period is noticed.
FreeOfLeave_Ends(r, first, last) ==
  \A q \in RequestsOf(leave[r].student) \ {r} :
    Approved(q) => EffectiveEnd(leave[q]) \notin first .. last

\* No other approved leave of the student has a day of the period.
FreeOfLeave(r, first, last) ==
  \A q \in RequestsOf(leave[r].student) \ {r} :
    Approved(q) => ~Overlaps(leave[q], first, last)

\* Variant: only the first day of the period is looked at.
FreeOfPresence_FirstDay(s, first, last) ==
  \A w \in Row : attendance[w].student = s /\ attendance[w].status \in Present
                   => attendance[w].day # first

\* The student is not recorded present on a day of the period.
FreeOfPresence(s, first, last) ==
  \A w \in Row : attendance[w].student = s /\ attendance[w].status \in Present
                   => attendance[w].day < first \/ attendance[w].day > last

\* updateLeaveRequestStatus with approvalStatus = 'approved'.
ApproveLeaveRequest(r, n) ==
  LET first == leave[r].start
      last == LastOf(first, n)
  IN  /\ leave[r].status = "pending"
      /\ FreeOfLeave(r, first, last)
      /\ FreeOfPresence(leave[r].student, first, last)
      /\ leave' = [leave EXCEPT ![r].status = "approved",
                                ![r].originalEnd = last, ![r].effectiveEnd = last]
      /\ Decide(r, "approve", last)
      /\ Enqueue(<<"leave_approved", r>>)
      /\ UNCHANGED <<attendance, attempt, notes>>

\* updateLeaveRequestStatus with any other status: no advisory lock, and the
\* row's current status is not looked at.
SetDecision(r, status, action, key) ==
  /\ LiveRequest(r)
  /\ leave' = [leave EXCEPT ![r].status = status,
                            ![r].originalEnd = NoDay, ![r].effectiveEnd = NoDay]
  /\ Decide(r, action, NoDay)
  /\ Enqueue(<<key, r>>)
  /\ UNCHANGED <<attendance, attempt, notes>>

\* Variant: a status the column does not know.
RejectLeaveRequest_Unknown(r) == SetDecision(r, "denied", "reject", "leave_rejected")

\* Variant: audited as another decision.
RejectLeaveRequest_Misnamed(r) == SetDecision(r, "rejected", "reopen", "leave_rejected")

RejectLeaveRequest(r) == SetDecision(r, "rejected", "reject", "leave_rejected")
ReopenLeaveRequest(r) == SetDecision(r, "pending", "reopen", "leave_reopened")

ForceFinishLeaveRequest(r, target) ==
  /\ Approved(r)
  /\ leave[r].start <= target
  /\ target <= EffectiveEnd(leave[r])
  /\ leave' = [leave EXCEPT ![r].originalEnd = Coalesce(@, leave[r].start),
                            ![r].effectiveEnd = target]
  /\ Decide(r, "finish", target)
  /\ UNCHANGED <<attendance, attempt, notes, outbox>>

\* DELETE ... WHERE id: nothing but the id is compared.
DeleteLeaveRequest(r) ==
  /\ LiveRequest(r)
  /\ leave' = [leave EXCEPT ![r].status = "deleted"]
  /\ UNCHANGED <<decisions, attendance, attempt, notes, outbox>>

-----------------------------------------------------------------------------
\* Transactions on attendances and attendance_attempts.

\* Variant: the insert trusts the leave check the handler made earlier.
InsertAttendance_NoLeaveCheck(w, s, d, a, status) ==
  /\ attendance[w].status = "unused"
  /\ attendance[w].student = s
  /\ CanRecordAttendanceAction(s, d, a)
  /\ attendance' = [attendance EXCEPT ![w].day = d, ![w].action = a,
                                      ![w].status = status]

InsertAttendance(w, s, d, a, status) ==
  /\ attendance[w].status = "unused"
  /\ attendance[w].student = s
  /\ ~OnLeave(s, d)
  /\ CanRecordAttendanceAction(s, d, a)
  /\ attendance' = [attendance EXCEPT ![w].day = d, ![w].action = a,
                                      ![w].status = status]

InsertAttempt(t, s, a, status) ==
  /\ attempt[t].status = "unused"
  /\ attempt[t].student = s
  /\ attempt' = [attempt EXCEPT ![t].day = today, ![t].action = a,
                                ![t].status = status]

\* Variant: the success attempt is left to another transaction.
SaveAttendanceRecord_NoAttempt(w, t, s, d, a) ==
  /\ InsertAttendance(w, s, d, a, IF a = "check_in" THEN "Hadir" ELSE "Pulang")
  /\ UNCHANGED <<leave, decisions, attempt, notes, outbox>>

\* The attendance row and its success attempt, in one transaction, for the
\* date d the caller computed before the transaction began.
SaveAttendanceRecord(w, t, s, d, a) ==
  /\ InsertAttendance(w, s, d, a, IF a = "check_in" THEN "Hadir" ELSE "Pulang")
  /\ InsertAttempt(t, s, a, "success")
  /\ UNCHANGED <<leave, decisions, notes, outbox>>

RecordAttendanceAttempt(t, s, a, status) ==
  /\ InsertAttempt(t, s, a, status)
  /\ UNCHANGED <<leave, decisions, attendance, notes, outbox>>

\* The attendance row, its audit row and its notification, in one transaction.
CreateManualAttendance(w, t, s, d, a, status) ==
  /\ InsertAttendance(w, s, d, a, status)
  /\ notes' = notes \cup {<<"create_manual_attendance", w>>}
  /\ Enqueue(<<"manual_attendance", t>>)
  /\ UNCHANGED <<leave, decisions, attempt>>

\* All the rows or none; no advisory lock and no leave check.
DeleteAttendances(ids) ==
  /\ \A w \in ids : LiveRow(w)
  /\ attendance' = [w \in Row |-> IF w \in ids
                                  THEN [attendance[w] EXCEPT !.status = "deleted"]
                                  ELSE attendance[w]]
  /\ UNCHANGED <<leave, decisions, attempt, notes, outbox>>

\* insertAuditLog, outside any transaction of the change it reports.
InsertAuditLog(note) ==
  /\ notes' = notes \cup {note}
  /\ UNCHANGED <<leave, decisions, attendance, attempt, outbox>>

-----------------------------------------------------------------------------
(***************************************************************************)
(* The tables under every possible caller: any transaction, any arguments. *)
(* The services of the other modules take a subset of these steps.         *)
(***************************************************************************)
LeaveTransaction ==
  \E r \in Request :
     \/ \E d \in Day : CreateLeaveRequest(r, d)
     \/ \E n \in 1 .. MaxDuration : ApproveLeaveRequest(r, n)
     \/ RejectLeaveRequest(r)
     \/ ReopenLeaveRequest(r)
     \/ \E target \in 1 .. LastOf(LastDay, MaxDuration) : ForceFinishLeaveRequest(r, target)
     \/ DeleteLeaveRequest(r)

AttendanceTransaction ==
  \/ \E w \in Row, t \in Attempt, s \in Student, d \in Day, a \in Action :
       \/ SaveAttendanceRecord(w, t, s, d, a)
       \/ \E status \in AttendanceStatus : CreateManualAttendance(w, t, s, d, a, status)
  \/ \E t \in Attempt, s \in Student, a \in Action, status \in {"failed", "error"} :
       RecordAttendanceAttempt(t, s, a, status)
  \/ \E ids \in SUBSET Row : DeleteAttendances(ids)

\* The audit rows that are inserted apart from the change they report.
LooseNote == {note \in Note : note[1] # "create_manual_attendance"}

AuditTransaction == \E note \in LooseNote : InsertAuditLog(note)

Transaction == LeaveTransaction \/ AttendanceTransaction \/ AuditTransaction

\* Midnight WIB.
NextDay == /\ today < LastDay
           /\ today' = today + 1

RecordsNext == \/ Transaction /\ UNCHANGED today
               \/ NextDay /\ UNCHANGED tables

RecordsSpec == RecordsInit /\ [][RecordsNext]_<<tables, today>>

-----------------------------------------------------------------------------
(***************************************************************************)
(* What the tables promise.                                                *)
(***************************************************************************)

\* No student is recorded present on a day an approved leave covers, however
\* mobile submissions, manual attendance and approvals interleave: they share
\* the student's lock and each looks at the other's rows.
NoPresenceOnLeave ==
  \A w \in Row, r \in Request :
    /\ attendance[w].status \in Present
    /\ Approved(r)
    /\ attendance[w].student = leave[r].student
    => ~Covers(leave[r], attendance[w].day)

\* Two approved leave periods of one student have no day in common, through
\* approvals, force-finishes and the race of create against approve.
NoLeaveOverlap ==
  \A r, q \in Request :
    /\ r # q
    /\ Approved(r) /\ Approved(q)
    /\ leave[r].student = leave[q].student
    => ~Overlaps(leave[q], leave[r].start, EffectiveEnd(leave[r]))

\* An approved period starts no later than it ends and never ends after the
\* end it was approved with; a request that is not approved has no period.
PeriodsWellFormed ==
  \A r \in Request :
    /\ Approved(r) => /\ leave[r].start <= leave[r].effectiveEnd
                      /\ leave[r].effectiveEnd <= leave[r].originalEnd
    /\ leave[r].status \in {"pending", "rejected"}
         => leave[r].originalEnd = NoDay /\ leave[r].effectiveEnd = NoDay

\* The leave periods of a student are well-formed and disjoint.
LeavePeriodsSound == PeriodsWellFormed /\ NoLeaveOverlap

\* Among the rows that still exist, a student has at most one of each action
\* a day, whatever mix of devices and administrators recorded them.
OneRowPerAction ==
  \A w, x \in Row :
    /\ w # x
    /\ LiveRow(w) /\ LiveRow(x)
    /\ attendance[w].student = attendance[x].student
    /\ attendance[w].day = attendance[x].day
    => attendance[w].action # attendance[x].action

\* A check-out was only ever recorded on a day on which that student had been
\* recorded checked in, even if an administrator has since deleted that row.
CheckOutFollowsCheckIn ==
  \A w \in Row :
    /\ attendance[w].status # "unused"
    /\ attendance[w].action = "check_out"
    => \E x \in Row :
         /\ attendance[x].status # "unused"
         /\ attendance[x].action = "check_in"
         /\ attendance[x].student = attendance[w].student
         /\ attendance[x].day = attendance[w].day

\* The audit trail explains the row: a live request is in the state its last
\* audited decision says, and an approved one ends when that decision says.
AuditExplainsLeave ==
  \A r \in Request :
    LET trail == decisions[r]
        last == trail[Len(trail)]
    IN  LiveRequest(r) =>
          \/ trail = <<>> /\ leave[r].status = "pending"
          \/ /\ trail # <<>>
             /\ \/ last.action \in {"approve", "finish"} /\ Approved(r)
                                                     /\ leave[r].effectiveEnd = last.until
                \/ last.action = "reject" /\ leave[r].status = "rejected"
                \/ last.action = "reopen" /\ leave[r].status = "pending"

\* The student is told of an approval, a rejection or a reopening if and only
\* if one was audited: decision, audit row and outbox row commit together.
OutboxMatchesAudit ==
  \A r \in Request :
    LET Audited(action) == \E i \in DOMAIN decisions[r] : decisions[r][i].action = action
    IN  /\ Audited("approve") <=> <<"leave_approved", r>> \in outbox
        /\ Audited("reject") <=> <<"leave_rejected", r>> \in outbox
        /\ Audited("reopen") <=> <<"leave_reopened", r>> \in outbox

\* Every attendance ever recorded is accounted for by exactly one success
\* attempt or one manual audit row of the same student, and neither exists
\* without its attendance.
AttendanceAccountedFor ==
  \A s \in Student :
    Cardinality({w \in Row : attendance[w].student = s /\ attendance[w].status # "unused"})
    = Cardinality({t \in Attempt : attempt[t].student = s /\ attempt[t].status = "success"})
      + Cardinality({w \in Row : /\ attendance[w].student = s
                                 /\ <<"create_manual_attendance", w>> \in notes})

\* A notification about a manual attendance refers to an attempt that failed.
ManualRestsOnFailure ==
  \A t \in Attempt :
    <<"manual_attendance", t>> \in outbox => attempt[t].status \in {"failed", "error"}
=============================================================================
