------------------------- MODULE SchoolDay_proofs -------------------------
(***************************************************************************)
(* Proofs about the handlers: whatever they have read and however they     *)
(* interleave, what they do to the tables is a transaction of              *)
(* StudentRecords, so that every promise of the tables holds of SchoolDay. *)
(***************************************************************************)
EXTENDS SchoolDay, StudentRecords_proofs

\* A recorded attempt has the date of a day.
AttemptsDated ==
  \A t \in Attempt : attempt[t].status # "unused" => attempt[t].day \in Day

SchoolInv == SchoolTypeOK /\ AttemptsDated

(***************************************************************************)
(* What a handler does to the tables is one of their transactions, or      *)
(* nothing.                                                                *)
(***************************************************************************)
LEMMA AttendanceHandlersTransact ==
  ASSUME SchoolInv, AttendanceNext
  PROVE  Transaction \/ UNCHANGED tables
<1>1. submission \in [Submission -> SubmissionState] /\ unaudited \subseteq Row
  BY DEF SchoolInv, SchoolTypeOK, ServiceTypeOK
<1>2. ASSUME NEW p \in Submission, submission[p].phase \in {"identifying", "saving"}
      PROVE  /\ submission[p].student \in Student
             /\ submission[p].action \in Action /\ submission[p].day \in Day
  BY <1>1, <1>2 DEF SubmissionState, NoSubmission
<1>3. ASSUME NEW p \in Submission,
             \/ \E s \in Student : StartGate(p, s)
             \/ ReadPermits(p) \/ ReadAbsences(p)
             \/ ValidateGate(p) \/ IdentifyMatch(p) \/ EndSubmission(p)
      PROVE  UNCHANGED tables
  BY <1>3 DEF StartGate, ReadPermits, ReadAbsences, ValidateGate, IdentifyMatch, EndSubmission
<1>4. ASSUME NEW p \in Submission, NEW t \in Attempt, NEW status \in RobinFailure,
             IdentifyFail(p, t, status)
      PROVE  Transaction
  BY <1>2, <1>4 DEF IdentifyFail, RobinFailure, Transaction, AttendanceTransaction
<1>5. ASSUME NEW p \in Submission, NEW w \in Row, NEW t \in Attempt, SaveSubmission(p, w, t)
      PROVE  Transaction
  BY <1>2, <1>5 DEF SaveSubmission, Transaction, AttendanceTransaction
<1>6. ASSUME NEW w \in Row, NEW t \in Attempt, NEW status \in AttendanceStatus,
             ManualAttendance(w, t, status)
      PROVE  Transaction
  <2>1. /\ attempt[t].student \in Student /\ attempt[t].action \in Action
        /\ attempt[t].day \in Day
    BY <1>6 DEF SchoolInv, SchoolTypeOK, TypeOK, AttemptRow, AttemptsDated, ManualAttendance,
                 RobinFailure
  <2>. QED
    BY <1>6, <2>1 DEF ManualAttendance, Transaction, AttendanceTransaction
<1>7. ASSUME NEW ids \in SUBSET Row, DeleteAdminAttendances(ids)
      PROVE  Transaction
  BY <1>7 DEF DeleteAdminAttendances, Transaction, AttendanceTransaction
<1>8. ASSUME NEW w \in Row, AuditDeletion(w)
      PROVE  Transaction
  <2>1. <<"delete_attendance", w>> \in LooseNote
    BY DEF LooseNote, Note
  <2>. QED
    BY <1>8, <2>1 DEF AuditDeletion, Transaction, AuditTransaction
<1>9. ASSUME NEW w \in Row, AbandonAudit(w)
      PROVE  UNCHANGED tables
  BY <1>9 DEF AbandonAudit
<1>. QED
  BY <1>1, <1>3, <1>4, <1>5, <1>6, <1>7, <1>8, <1>9 DEF AttendanceNext

\* What a leave handler writes, with the status it read earlier, is one
\* transaction of the tables.
LEMMA LeaveHandlersTransact ==
  ASSUME SchoolInv, LeaveNext
  PROVE  Transaction \/ UNCHANGED tables
<1>1. call \in [Handler -> CallState]
  BY DEF SchoolInv, SchoolTypeOK, CallTypeOK
<1>2. ASSUME NEW h \in Handler, call[h].op # "idle"
      PROVE  call[h].req \in Request
  BY <1>1, <1>2 DEF CallState, NoCall
<1>3. ASSUME NEW r \in Request, NEW d \in Day,
             CreatePermit(r, d) \/ \E h \in Handler : CreateAdminLeaveRequest(h, r, d)
      PROVE  Transaction
  BY <1>3 DEF CreatePermit, CreateAdminLeaveRequest, Transaction, LeaveTransaction
<1>4. ASSUME NEW h \in Handler, NEW n \in 1 .. MaxDuration, Approve(h, n)
      PROVE  Transaction
  BY <1>2, <1>4 DEF Approve, Transaction, LeaveTransaction
<1>5. ASSUME NEW h \in Handler, Reject(h) \/ Reopen(h)
      PROVE  Transaction
  BY <1>2, <1>5 DEF Reject, Reopen, Transaction, LeaveTransaction
<1>6. ASSUME NEW h \in Handler, NEW target \in 1 .. LastOf(LastDay, MaxDuration),
             Finish(h, target)
      PROVE  Transaction
  BY <1>2, <1>6 DEF Finish, Transaction, LeaveTransaction
<1>7. ASSUME NEW h \in Handler, Withdraw(h) \/ Remove(h)
      PROVE  Transaction \/ UNCHANGED tables
  BY <1>2, <1>7 DEF Withdraw, Remove, Transaction, LeaveTransaction
<1>8. ASSUME NEW h \in Handler, AuditCall(h)
      PROVE  Transaction
  <2>1. call[h].op \in {"removed", "created"}
    BY <1>8 DEF AuditCall
  <2>2. /\ <<"delete_leave_request", call[h].req>> \in LooseNote
        /\ <<"create_admin_leave_request", call[h].req>> \in LooseNote
    BY <1>2, <2>1 DEF LooseNote, Note
  <2>. QED
    BY <1>8, <2>2 DEF AuditCall, Transaction, AuditTransaction
<1>9. ASSUME NEW h \in Handler,
             \/ \E r \in Request, op \in Op \ {"removed", "created"} : ReadRequest(h, op, r)
             \/ EndCall(h)
      PROVE  UNCHANGED tables
  BY <1>9 DEF ReadRequest, EndCall
<1>. QED
  BY <1>3, <1>4, <1>5, <1>6, <1>7, <1>8, <1>9 DEF LeaveNext

\* So is every step of the school day, midnight apart.
LEMMA HandlersTransact ==
  ASSUME SchoolInv, [Next]_vars
  PROVE  [RecordsNext]_<<tables, today>>
<1>1. CASE AttendanceNext /\ UNCHANGED <<today, call>>
  BY <1>1, AttendanceHandlersTransact DEF RecordsNext
<1>2. CASE LeaveNext /\ UNCHANGED <<today, submission, unaudited>>
  BY <1>2, LeaveHandlersTransact DEF RecordsNext
<1>3. CASE NextDay /\ UNCHANGED <<tables, submission, unaudited, call>>
  BY <1>3 DEF RecordsNext
<1>4. CASE UNCHANGED vars
  BY <1>4 DEF vars
<1>. QED
  BY <1>1, <1>2, <1>3, <1>4 DEF Next
-----------------------------------------------------------------------------
(***************************************************************************)
(* Types of what the handlers keep.                                        *)
(***************************************************************************)
LEMMA SubmissionType ==
  ASSUME SchoolInv, AttendanceNext
  PROVE  ServiceTypeOK'
<1>1. submission \in [Submission -> SubmissionState] /\ unaudited \subseteq Row /\ today \in Day
  BY DEF SchoolInv, SchoolTypeOK, ServiceTypeOK, TypeOK
<1>2. NoSubmission \in SubmissionState
  BY DEF SubmissionState
<1>3. ASSUME NEW p \in Submission, NEW new \in SubmissionState,
             submission' = [submission EXCEPT ![p] = new], UNCHANGED unaudited
      PROVE  ServiceTypeOK'
  BY <1>1, <1>3 DEF ServiceTypeOK
<1>4. ASSUME NEW p \in Submission, \E s \in Student : StartGate(p, s)
      PROVE  ServiceTypeOK'
  BY <1>1, <1>3, <1>4 DEF StartGate, SubmissionState
<1>5. ASSUME NEW p \in Submission, ReadPermits(p)
       PROVE  ServiceTypeOK'
  <2> DEFINE new == [submission[p] EXCEPT !.phase =
                       IF submission[p].phase = "rows" THEN "gated" ELSE "permits"]
  <2>1. new \in SubmissionState
    BY <1>1, <1>5 DEF ReadPermits, SubmissionState, NoSubmission
  <2>2. submission' = [submission EXCEPT ![p] = new] /\ UNCHANGED unaudited
    BY <1>1, <1>5 DEF ReadPermits
  <2>. HIDE DEF new
  <2>. QED
    BY <1>3, <2>1, <2>2
<1>6. ASSUME NEW p \in Submission, ReadAbsences(p)
       PROVE  ServiceTypeOK'
  <2> DEFINE me == submission[p]
             action == ExpectedAction(StatusOfDay(me.student, me.day))
             new == [me EXCEPT !.phase = IF me.phase = "permits" THEN "gated" ELSE "rows",
                               !.action = action]
  <2>1. action \in Action
    BY <1>6 DEF ReadAbsences, ExpectedAction, Action
  <2>2. submission' = [submission EXCEPT ![p] = new] /\ UNCHANGED unaudited
    BY <1>1, <1>6 DEF ReadAbsences
  <2>3. new \in SubmissionState
    <3>1. me \in [phase : {"started", "permits"}, student : Student,
                  action : {"unread"}, day : Day]
      BY <1>1, <1>6 DEF ReadAbsences, SubmissionState, NoSubmission
    <3>. HIDE DEF me, action
    <3>. QED
      BY <2>1, <3>1 DEF SubmissionState
  <2>. HIDE DEF new
  <2>. QED
    BY <1>3, <2>2, <2>3
<1>7. ASSUME NEW p \in Submission, ValidateGate(p)
      PROVE  ServiceTypeOK'
  <2> DEFINE new == [submission[p] EXCEPT !.phase = "identifying"]
  <2>1. new \in SubmissionState
    BY <1>1, <1>7 DEF ValidateGate, SubmissionState, NoSubmission
  <2>2. submission' = [submission EXCEPT ![p] = new] /\ UNCHANGED unaudited
    BY <1>1, <1>7 DEF ValidateGate
  <2>. HIDE DEF new
  <2>. QED
    BY <1>3, <2>1, <2>2
<1>8. ASSUME NEW p \in Submission, IdentifyMatch(p)
      PROVE  ServiceTypeOK'
  <2> DEFINE new == [submission[p] EXCEPT !.phase = "saving", !.day = today]
  <2>1. new \in SubmissionState
    <3>1. submission[p] \in [phase : {"rows", "gated", "identifying", "saving"},
                             student : Student, action : Action, day : Day]
      BY <1>1, <1>8 DEF IdentifyMatch, SubmissionState, NoSubmission
    <3>2. new \in [phase : {"rows", "gated", "identifying", "saving"},
                   student : Student, action : Action, day : Day]
      BY <1>1, <3>1
    <3>. QED
      BY <3>2 DEF SubmissionState
  <2>2. submission' = [submission EXCEPT ![p] = new] /\ UNCHANGED unaudited
    BY <1>1, <1>8 DEF IdentifyMatch
  <2>. HIDE DEF new
  <2>. QED
    BY <1>3, <2>1, <2>2
<1>9. ASSUME NEW p \in Submission,
             \/ \E t \in Attempt, status \in RobinFailure : IdentifyFail(p, t, status)
             \/ \E w \in Row, t \in Attempt : SaveSubmission(p, w, t)
             \/ EndSubmission(p)
      PROVE  ServiceTypeOK'
  BY <1>1, <1>2, <1>9 DEF IdentifyFail, SaveSubmission, EndSubmission, ServiceTypeOK
<1>10. ASSUME NEW w \in Row, NEW t \in Attempt, NEW status \in AttendanceStatus,
             ManualAttendance(w, t, status)
      PROVE  ServiceTypeOK'
  BY <1>1, <1>10 DEF ManualAttendance, ServiceTypeOK
<1>11. ASSUME NEW ids \in SUBSET Row, DeleteAdminAttendances(ids)
      PROVE  ServiceTypeOK'
  BY <1>1, <1>11 DEF DeleteAdminAttendances, ServiceTypeOK
<1>12. ASSUME NEW w \in Row, AuditDeletion(w) \/ AbandonAudit(w)
       PROVE  ServiceTypeOK'
  BY <1>1, <1>12 DEF AuditDeletion, AbandonAudit, ServiceTypeOK
<1>. QED
  BY <1>1, <1>4, <1>5, <1>6, <1>7, <1>8, <1>9, <1>10, <1>11, <1>12 DEF AttendanceNext

\* The leave handlers keep the type of what they hold between two awaits.
LEMMA CallType ==
  ASSUME SchoolInv, LeaveNext
  PROVE  CallTypeOK'
<1>1. call \in [Handler -> CallState]
  BY DEF SchoolInv, SchoolTypeOK, CallTypeOK
<1>2. NoCall \in CallState
  BY DEF CallState
<1>3. ASSUME NEW h \in Handler, Ends(h)
      PROVE  CallTypeOK'
  BY <1>1, <1>2, <1>3 DEF Ends, CallTypeOK
<1>4. ASSUME NEW h \in Handler, NEW op \in Op, NEW r \in Request,
             call' = [call EXCEPT ![h] = [op |-> op, req |-> r]]
      PROVE  CallTypeOK'
  BY <1>1, <1>4 DEF CallTypeOK, CallState
<1>5. ASSUME NEW r \in Request, NEW d \in Day,
             CreatePermit(r, d) \/ \E h \in Handler : CreateAdminLeaveRequest(h, r, d)
      PROVE  CallTypeOK'
  BY <1>1, <1>4, <1>5 DEF CreatePermit, CreateAdminLeaveRequest, CallTypeOK, Op
<1>6. ASSUME NEW h \in Handler, NEW r \in Request, NEW op \in Op \ {"removed", "created"},
             ReadRequest(h, op, r)
      PROVE  CallTypeOK'
  BY <1>4, <1>6 DEF ReadRequest
<1>7. ASSUME NEW h \in Handler, Remove(h)
      PROVE  CallTypeOK'
  <2>1. call[h].req \in Request
        /\ [call[h] EXCEPT !.op = "removed"] = [op |-> "removed", req |-> call[h].req]
    BY <1>1, <1>7 DEF Remove, CallState, NoCall
  <2>2. call' = [call EXCEPT ![h] = [call[h] EXCEPT !.op = "removed"]]
    BY <1>7 DEF Remove
  <2>. QED
    BY <1>4, <2>1, <2>2 DEF Op
<1>8. ASSUME NEW h \in Handler,
             \/ \E n \in 1 .. MaxDuration : Approve(h, n)
             \/ Reject(h) \/ Reopen(h)
             \/ \E target \in 1 .. LastOf(LastDay, MaxDuration) : Finish(h, target)
             \/ Withdraw(h) \/ AuditCall(h) \/ EndCall(h)
      PROVE  CallTypeOK'
  BY <1>3, <1>8 DEF Approve, Reject, Reopen, Finish, Withdraw, AuditCall, EndCall
<1>. QED
  BY <1>5, <1>6, <1>7, <1>8 DEF LeaveNext

\* Attempts are only ever inserted with the date of their day.
LEMMA AttemptsStep ==
  ASSUME TypeOK, AttemptsDated, [RecordsNext]_<<tables, today>>
  PROVE  AttemptsDated'
<1>1. attempt \in [Attempt -> AttemptRow] /\ today \in Day
  BY DEF TypeOK
<1>2. ASSUME NEW t \in Attempt, NEW s \in Student, NEW a \in Action,
             NEW status \in {"success", "failed", "error"}, InsertAttempt(t, s, a, status)
      PROVE  AttemptsDated'
  <2>1. attempt' = [attempt EXCEPT ![t] =
          [attempt[t] EXCEPT !.day = today, !.action = a, !.status = status]]
    BY <1>1, <1>2 DEF InsertAttempt
  <2>2. attempt'[t].day = today /\ \A u \in Attempt \ {t} : attempt'[u] = attempt[u]
    BY <1>1, <2>1 DEF AttemptRow
  <2>. QED
    BY <1>1, <2>2 DEF AttemptsDated, Day
<1>3. ASSUME UNCHANGED attempt
      PROVE  AttemptsDated'
  BY <1>3 DEF AttemptsDated, Day
<1>4. ASSUME AttendanceTransaction
      PROVE  AttemptsDated'
  BY <1>2, <1>3, <1>4 DEF AttendanceTransaction, SaveAttendanceRecord, CreateManualAttendance,
                          RecordAttendanceAttempt, DeleteAttendances
<1>5. ASSUME LeaveTransaction \/ AuditTransaction
      PROVE  UNCHANGED attempt
  BY <1>5 DEF LeaveTransaction, CreateLeaveRequest, ApproveLeaveRequest, RejectLeaveRequest,
              ReopenLeaveRequest, SetDecision, ForceFinishLeaveRequest, DeleteLeaveRequest,
              AuditTransaction, InsertAuditLog
<1>. QED
  BY <1>3, <1>4, <1>5 DEF RecordsNext, Transaction, tables

-----------------------------------------------------------------------------
\* The initial states of the school day are those of the tables.
LEMMA InitSchoolInv == Init => SchoolInv /\ RecordsInit
<1> SUFFICES ASSUME Init PROVE SchoolInv /\ RecordsInit
  OBVIOUS
<1>1. RecordsInit /\ TypeOK
  BY InitTablesInv DEF Init, TablesInv, PeriodInv
<1>2. ServiceTypeOK /\ CallTypeOK
  BY DEF Init, AttendanceInit, LeaveInit, ServiceTypeOK, CallTypeOK, SubmissionState, CallState
<1>3. AttemptsDated
  BY <1>1 DEF RecordsInit, AttemptsDated
<1>. QED
  BY <1>1, <1>2, <1>3 DEF SchoolInv, SchoolTypeOK

\* Transactions and midnight keep the types of the tables.
LEMMA RecordsStepType ==
  ASSUME TypeOK, [RecordsNext]_<<tables, today>>
  PROVE  TypeOK'
<1>1. CASE Transaction /\ UNCHANGED today
  BY <1>1, TransactionType
<1>2. CASE NextDay /\ UNCHANGED tables
  <2>1. today \in 1 .. LastDay /\ today < LastDay /\ today' = today + 1
    BY <1>2 DEF TypeOK, NextDay, Day
  <2>2. today' \in Day
    BY <2>1, DaysAssumption DEF Day
  <2>. QED
    BY <1>2, <2>2 DEF TypeOK, tables
<1>3. CASE UNCHANGED <<tables, today>>
  BY <1>3 DEF TypeOK, tables, Day
<1>. QED
  BY <1>1, <1>2, <1>3 DEF RecordsNext

\* The invariant of tables and handlers is inductive.
LEMMA NextSchoolInv == SchoolInv /\ [Next]_vars => SchoolInv'
<1> SUFFICES ASSUME SchoolInv, [Next]_vars PROVE SchoolInv'
  OBVIOUS
<1>1. TypeOK' /\ AttemptsDated'
  BY HandlersTransact, RecordsStepType, AttemptsStep DEF SchoolInv, SchoolTypeOK
<1>2. ServiceTypeOK'
  <2>1. CASE UNCHANGED <<submission, unaudited>>
    BY <2>1 DEF SchoolInv, SchoolTypeOK, ServiceTypeOK, SubmissionState, Day
  <2>. QED
    BY <2>1, SubmissionType DEF Next, vars
<1>3. CallTypeOK'
  <2>1. CASE UNCHANGED call
    BY <2>1 DEF SchoolInv, SchoolTypeOK, CallTypeOK
  <2>. QED
    BY <2>1, CallType DEF Next, vars
<1>. QED
  BY <1>1, <1>2, <1>3 DEF SchoolInv, SchoolTypeOK

\* Every variable of SchoolDay keeps its type.
THEOREM SchoolTyped == Spec => []SchoolTypeOK
<1>1. SchoolInv => SchoolTypeOK
  BY DEF SchoolInv
<1>. QED
  BY <1>1, InitSchoolInv, NextSchoolInv, PTL DEF Spec

\* The handlers, with their stale reads and crashes, implement the tables: each
\* of their steps is one transaction, the next day, or invisible.
THEOREM SchoolImplementsRecords == Spec => RecordsSpec
  BY InitSchoolInv, NextSchoolInv, HandlersTransact, PTL DEF Spec, RecordsSpec

\* The invariant of the tables carries over to the tables under their handlers.
LEMMA SchoolTables == Spec => []TablesInv
  BY SchoolImplementsRecords, RecordsSafe, PTL

\* No student is ever recorded present on a day of an approved leave.
THEOREM PresenceExcludesLeave == Spec => []NoPresenceOnLeave
<1>1. TablesInv => NoPresenceOnLeave
  BY DEF TablesInv
<1>. QED
  BY <1>1, SchoolTables, PTL

\* Approved leave periods of a student never overlap.
THEOREM LeavesDisjoint == Spec => []NoLeaveOverlap
<1>1. TablesInv => NoLeaveOverlap
  BY DEF TablesInv
<1>. QED
  BY <1>1, SchoolTables, PTL

\* Periods are well formed, and only approved requests have one.
THEOREM PeriodsStayWellFormed == Spec => []PeriodsWellFormed
<1>1. TablesInv => PeriodsWellFormed
  BY DEF TablesInv, PeriodInv
<1>. QED
  BY <1>1, SchoolTables, PTL

\* Both together: the leave periods of a student are well formed and disjoint.
THEOREM LeavePeriodsHold == Spec => []LeavePeriodsSound
<1>1. PeriodsWellFormed /\ NoLeaveOverlap => LeavePeriodsSound
  BY DEF LeavePeriodsSound
<1>. QED
  BY <1>1, LeavesDisjoint, PeriodsStayWellFormed, PTL

\* A student has at most one row of each action a day.
THEOREM AttendanceUnique == Spec => []OneRowPerAction
<1>1. TablesInv => OneRowPerAction
  BY DEF TablesInv
<1>. QED
  BY <1>1, SchoolTables, PTL

\* No check-out without a check-in before it.
THEOREM CheckOutNeedsCheckIn == Spec => []CheckOutFollowsCheckIn
<1>1. TablesInv => CheckOutFollowsCheckIn
  BY DEF TablesInv
<1>. QED
  BY <1>1, SchoolTables, PTL

\* The last audited decision explains the state of every live request.
THEOREM AuditTrailExplains == Spec => []AuditExplainsLeave
<1>1. TablesInv => AuditExplainsLeave
  BY DEF TablesInv, TrailInv
<1>. QED
  BY <1>1, SchoolTables, PTL

\* A student is notified of a kind of decision if and only if one was audited.
THEOREM OutboxMatchesTrail == Spec => []OutboxMatchesAudit
<1>1. TablesInv => OutboxMatchesAudit
  BY DEF TablesInv
<1>. QED
  BY <1>1, SchoolTables, PTL

-----------------------------------------------------------------------------
(***************************************************************************)
(* Audit rows and notifications that handlers write tell the truth.        *)
(***************************************************************************)

\* What a handler is about to report stays so until it does: a deleted row or
\* request stays deleted, and a request that a handler has read is not one that
\* is still to be created.
ReportsHold ==
  /\ \A w \in unaudited : attendance[w].status = "deleted"
  /\ \A h \in Handler : call[h] # NoCall =>
       /\ leave[call[h].req].status # "unused"
       /\ call[h].op = "removed" => leave[call[h].req].status = "deleted"

NotesInv == NotesAreTrue /\ ReportsHold /\ ManualRestsOnFailure

\* No table forgets: rows are never taken out of "deleted" or back to "unused",
\* and the attempt of a failure stays one.
NothingUndone ==
  /\ \A w \in Row : attendance[w].status = "deleted" => attendance'[w].status = "deleted"
  /\ \A r \in Request :
       /\ leave[r].status = "deleted" => leave'[r].status = "deleted"
       /\ leave[r].status # "unused" => leave'[r].status # "unused"
  /\ \A t \in Attempt :
       attempt[t].status \in RobinFailure => attempt'[t].status \in RobinFailure

\* No transaction takes back a deletion, a leave request that was made or a
\* refusal by Robin.
LEMMA TransactionsUndoNothing ==
  ASSUME TypeOK, [RecordsNext]_<<tables, today>>
  PROVE  NothingUndone
<1>1. /\ leave \in [Request -> LeaveRow] /\ attendance \in [Row -> AttendanceRow]
      /\ attempt \in [Attempt -> AttemptRow]
  BY DEF TypeOK
<1>2. ASSUME NEW w \in Row, NEW s \in Student, NEW d \in Day, NEW a \in Action,
             NEW status \in AttendanceStatus, InsertAttendance(w, s, d, a, status)
      PROVE  \A x \in Row : attendance[x].status = "deleted" => attendance'[x].status = "deleted"
  BY <1>1, <1>2 DEF InsertAttendance, AttendanceRow
<1>3. ASSUME NEW ids \in SUBSET Row, DeleteAttendances(ids)
      PROVE  \A x \in Row : attendance[x].status = "deleted" => attendance'[x].status = "deleted"
  BY <1>1, <1>3 DEF DeleteAttendances, AttendanceRow
<1>4. ASSUME NEW t \in Attempt, NEW s \in Student, NEW a \in Action,
             NEW status \in {"success", "failed", "error"}, InsertAttempt(t, s, a, status)
      PROVE  \A u \in Attempt :
               attempt[u].status \in RobinFailure => attempt'[u].status \in RobinFailure
  BY <1>1, <1>4 DEF InsertAttempt, AttemptRow, RobinFailure
<1>5. ASSUME LeaveTransaction
      PROVE  \A r \in Request :
               /\ leave[r].status = "deleted" => leave'[r].status = "deleted"
               /\ leave[r].status # "unused" => leave'[r].status # "unused"
  <2>1. ASSUME NEW r \in Request, NEW d \in Day, CreateLeaveRequest(r, d)
        PROVE  \A q \in Request :
                 /\ leave[q].status = "deleted" => leave'[q].status = "deleted"
                 /\ leave[q].status # "unused" => leave'[q].status # "unused"
    BY <1>1, <2>1 DEF CreateLeaveRequest, LeaveRow
  <2>2. ASSUME NEW r \in Request, NEW n \in 1 .. MaxDuration, ApproveLeaveRequest(r, n)
        PROVE  \A q \in Request :
                 /\ leave[q].status = "deleted" => leave'[q].status = "deleted"
                 /\ leave[q].status # "unused" => leave'[q].status # "unused"
    BY <1>1, <2>2 DEF ApproveLeaveRequest, LeaveRow
  <2>3. ASSUME NEW r \in Request, RejectLeaveRequest(r) \/ ReopenLeaveRequest(r)
        PROVE  \A q \in Request :
                 /\ leave[q].status = "deleted" => leave'[q].status = "deleted"
                 /\ leave[q].status # "unused" => leave'[q].status # "unused"
    BY <1>1, <2>3 DEF RejectLeaveRequest, ReopenLeaveRequest, SetDecision, LiveRequest, LeaveRow
  <2>4. ASSUME NEW r \in Request, NEW target \in 1 .. LastOf(LastDay, MaxDuration),
               ForceFinishLeaveRequest(r, target)
        PROVE  \A q \in Request : leave'[q].status = leave[q].status
    BY <1>1, <2>4 DEF ForceFinishLeaveRequest, LeaveRow
  <2>5. ASSUME NEW r \in Request, DeleteLeaveRequest(r)
        PROVE  \A q \in Request :
                 /\ leave[q].status = "deleted" => leave'[q].status = "deleted"
                 /\ leave[q].status # "unused" => leave'[q].status # "unused"
    BY <1>1, <2>5 DEF DeleteLeaveRequest, LeaveRow
  <2>. QED
    BY <1>5, <2>1, <2>2, <2>3, <2>4, <2>5 DEF LeaveTransaction
<1>6. LeaveTransaction => UNCHANGED <<attendance, attempt>>
  BY DEF LeaveTransaction, CreateLeaveRequest, ApproveLeaveRequest, RejectLeaveRequest,
         ReopenLeaveRequest, SetDecision, ForceFinishLeaveRequest, DeleteLeaveRequest
<1>7. AttendanceTransaction => UNCHANGED leave
  BY AttendanceWrites
<1>8. ASSUME AttendanceTransaction
      PROVE  /\ \A x \in Row :
                  attendance[x].status = "deleted" => attendance'[x].status = "deleted"
             /\ \A u \in Attempt :
                  attempt[u].status \in RobinFailure => attempt'[u].status \in RobinFailure
  <2>1. ASSUME NEW w \in Row, NEW t \in Attempt, NEW s \in Student, NEW d \in Day, NEW a \in Action,
               \/ SaveAttendanceRecord(w, t, s, d, a)
               \/ \E status \in AttendanceStatus : CreateManualAttendance(w, t, s, d, a, status)
        PROVE  /\ \A x \in Row :
                  attendance[x].status = "deleted" => attendance'[x].status = "deleted"
               /\ \A u \in Attempt :
                    attempt[u].status \in RobinFailure => attempt'[u].status \in RobinFailure
    BY <1>2, <1>4, <2>1 DEF SaveAttendanceRecord, CreateManualAttendance, AttendanceStatus
  <2>2. ASSUME NEW t \in Attempt, NEW s \in Student, NEW a \in Action,
               NEW status \in {"failed", "error"}, RecordAttendanceAttempt(t, s, a, status)
        PROVE  UNCHANGED attendance /\ \A u \in Attempt :
                 attempt[u].status \in RobinFailure => attempt'[u].status \in RobinFailure
    BY <1>4, <2>2 DEF RecordAttendanceAttempt
  <2>3. ASSUME NEW ids \in SUBSET Row, DeleteAttendances(ids)
        PROVE  UNCHANGED attempt
    BY <2>3 DEF DeleteAttendances
  <2>. QED
    BY <1>3, <1>8, <2>1, <2>2, <2>3 DEF AttendanceTransaction
<1>9. AuditTransaction => UNCHANGED <<leave, attendance, attempt>>
  BY DEF AuditTransaction, InsertAuditLog
<1>. QED
  BY <1>5, <1>6, <1>7, <1>8, <1>9 DEF RecordsNext, Transaction, tables, NothingUndone

\* Nothing is reported at first.
LEMMA NotesInit == Init => NotesInv
BY DEF Init, RecordsInit, AttendanceInit, LeaveInit, NotesInv, NotesAreTrue, ReportsHold,
       ManualRestsOnFailure

\* Reports that hold go on holding, whatever the other handlers do, and a
\* handler reports only what it has done.
LEMMA NotesStep ==
  ASSUME SchoolInv, NotesInv, [Next]_vars
  PROVE  NotesInv'
<1>1. NothingUndone /\ TypeOK
  BY HandlersTransact, TransactionsUndoNothing DEF SchoolInv, SchoolTypeOK
<1>2. /\ submission \in [Submission -> SubmissionState] /\ unaudited \subseteq Row
      /\ call \in [Handler -> CallState]
      /\ leave \in [Request -> LeaveRow] /\ attendance \in [Row -> AttendanceRow]
  BY DEF SchoolInv, SchoolTypeOK, ServiceTypeOK, CallTypeOK, TypeOK
<1>3. \A h \in Handler : call[h] # NoCall => call[h].req \in Request /\ call[h].op \in Op
  BY <1>2 DEF CallState, NoCall
<1> DEFINE NotesKept == notes' \cap LooseNote = notes \cap LooseNote
           OutboxKept == \A t \in Attempt :
                           <<"manual_attendance", t>> \in outbox'
                             => <<"manual_attendance", t>> \in outbox
<1>4. NotesKept => NotesAreTrue'
  <2> SUFFICES ASSUME NotesKept PROVE NotesAreTrue'
    OBVIOUS
  <2>1. /\ \A w \in Row : <<"delete_attendance", w>> \in LooseNote
        /\ \A r \in Request : /\ <<"delete_leave_request", r>> \in LooseNote
                              /\ <<"create_admin_leave_request", r>> \in LooseNote
    BY DEF LooseNote, Note
  <2>. QED
    BY <1>1, <2>1 DEF NotesInv, NotesAreTrue, NothingUndone
<1>5. OutboxKept => ManualRestsOnFailure'
  BY <1>1 DEF NotesInv, ManualRestsOnFailure, NothingUndone, RobinFailure
<1>6. UNCHANGED unaudited \/ unaudited' \subseteq unaudited
        => \A w \in unaudited' : attendance'[w].status = "deleted"
  BY <1>1, <1>2 DEF NotesInv, ReportsHold, NothingUndone
<1>7. UNCHANGED call => \A h \in Handler : call'[h] # NoCall =>
        /\ leave'[call'[h].req].status # "unused"
        /\ call'[h].op = "removed" => leave'[call'[h].req].status = "deleted"
  BY <1>1, <1>3 DEF NotesInv, ReportsHold, NothingUndone
<1>8. ASSUME NotesKept, OutboxKept, unaudited' \subseteq unaudited, UNCHANGED call
      PROVE  NotesInv'
  BY <1>4, <1>5, <1>6, <1>7, <1>8 DEF NotesInv, ReportsHold
<1>9. ASSUME NEW t \in Attempt, NEW w \in Row, NEW status \in AttendanceStatus,
             ManualAttendance(w, t, status), UNCHANGED call
      PROVE  NotesInv'
  <2>1. /\ notes' = notes \cup {<<"create_manual_attendance", w>>}
        /\ outbox' = outbox \cup {<<"manual_attendance", t>>}
        /\ attempt[t].status \in RobinFailure
        /\ UNCHANGED <<unaudited, attempt>>
    BY <1>9 DEF ManualAttendance, CreateManualAttendance, Enqueue
  <2>2. NotesKept
    BY <2>1 DEF LooseNote
  <2>3. ManualRestsOnFailure'
    BY <2>1 DEF NotesInv, ManualRestsOnFailure, RobinFailure
  <2>. QED
    BY <1>4, <1>6, <1>7, <1>9, <2>1, <2>2, <2>3 DEF NotesInv, ReportsHold
<1>10. ASSUME NEW ids \in SUBSET Row, DeleteAdminAttendances(ids), UNCHANGED call
       PROVE  NotesInv'
  <2>1. /\ \A w \in ids : attendance'[w].status = "deleted"
        /\ unaudited' = unaudited \cup ids /\ UNCHANGED <<notes, outbox>>
    BY <1>2, <1>10 DEF DeleteAdminAttendances, DeleteAttendances, AttendanceRow
  <2>2. \A w \in unaudited' : attendance'[w].status = "deleted"
    BY <1>1, <1>2, <2>1 DEF NotesInv, ReportsHold, NothingUndone
  <2>. QED
    BY <1>4, <1>5, <1>7, <1>10, <2>1, <2>2 DEF NotesInv, ReportsHold
<1>11. ASSUME NEW w \in unaudited, AuditDeletion(w), UNCHANGED call
       PROVE  NotesInv'
  <2>1. /\ notes' = notes \cup {<<"delete_attendance", w>>}
        /\ UNCHANGED <<leave, attendance, attempt, outbox>>
        /\ unaudited' \subseteq unaudited /\ attendance[w].status = "deleted"
    BY <1>11 DEF AuditDeletion, InsertAuditLog, NotesInv, ReportsHold
  <2>2. NotesAreTrue'
    BY <2>1 DEF NotesInv, NotesAreTrue
  <2>. QED
    BY <1>5, <1>6, <1>7, <1>11, <2>1, <2>2 DEF NotesInv, ReportsHold
<1>12. ASSUME AttendanceNext, UNCHANGED call
       PROVE  NotesInv'
  <2>1. ASSUME NEW p \in Submission,
               \/ \E s \in Student : StartGate(p, s)
               \/ ReadPermits(p) \/ ReadAbsences(p) \/ ValidateGate(p) \/ IdentifyMatch(p)
               \/ \E t \in Attempt, status \in RobinFailure : IdentifyFail(p, t, status)
               \/ \E w \in Row, t \in Attempt : SaveSubmission(p, w, t)
               \/ EndSubmission(p)
        PROVE  UNCHANGED <<notes, outbox, unaudited>>
    BY <2>1 DEF StartGate, ReadPermits, ReadAbsences, ValidateGate, IdentifyMatch, IdentifyFail,
                SaveSubmission, EndSubmission, RecordAttendanceAttempt, SaveAttendanceRecord, tables
  <2>2. ASSUME NEW w \in unaudited, AbandonAudit(w)
        PROVE  UNCHANGED <<notes, outbox>> /\ unaudited' \subseteq unaudited
    BY <2>2 DEF AbandonAudit, tables
  <2>. QED
    BY <1>8, <1>9, <1>10, <1>11, <1>12, <2>1, <2>2 DEF AttendanceNext
<1>13. ASSUME NEW h \in Handler, NEW c \in CallState, call' = [call EXCEPT ![h] = c],
              c # NoCall => /\ leave'[c.req].status # "unused"
                            /\ c.op = "removed" => leave'[c.req].status = "deleted"
       PROVE  \A g \in Handler : call'[g] # NoCall =>
                /\ leave'[call'[g].req].status # "unused"
                /\ call'[g].op = "removed" => leave'[call'[g].req].status = "deleted"
  <2>1. call'[h] = c /\ \A g \in Handler \ {h} : call'[g] = call[g]
    BY <1>2, <1>13
  <2>. QED
    BY <1>1, <1>3, <1>13, <2>1 DEF NotesInv, ReportsHold, NothingUndone
<1>14. ASSUME NEW h \in Handler, NEW c \in CallState, call' = [call EXCEPT ![h] = c],
              c # NoCall => /\ leave'[c.req].status # "unused"
                            /\ c.op = "removed" => leave'[c.req].status = "deleted",
              NotesAreTrue', OutboxKept, UNCHANGED unaudited
       PROVE  NotesInv'
  BY <1>5, <1>6, <1>13, <1>14 DEF NotesInv, ReportsHold
<1>15. NoCall \in CallState /\ \A op \in Op, r \in Request : [op |-> op, req |-> r] \in CallState
  BY DEF CallState
<1>16. ASSUME NEW r \in Request, NEW d \in Day, NEW h \in Handler,
              CreateAdminLeaveRequest(h, r, d), UNCHANGED unaudited
       PROVE  NotesInv'
  <2> DEFINE c == [op |-> "created", req |-> r]
  <2>1. c \in CallState /\ c.op = "created" /\ c.req = r /\ call' = [call EXCEPT ![h] = c]
    BY <1>15, <1>16 DEF Op, CreateAdminLeaveRequest
  <2>2. leave'[r].status = "pending" /\ UNCHANGED <<notes, outbox>>
    BY <1>2, <1>16 DEF CreateAdminLeaveRequest, CreateLeaveRequest, LeaveRow
  <2> HIDE DEF c
  <2>. QED
    BY <1>4, <1>14, <1>16, <2>1, <2>2
<1>17. ASSUME NEW h \in Handler, NEW r \in Request, NEW op \in Op \ {"removed", "created"},
              ReadRequest(h, op, r), UNCHANGED unaudited
       PROVE  NotesInv'
  <2> DEFINE c == [op |-> op, req |-> r]
  <2>1. c \in CallState /\ c.op # "removed" /\ c.req = r /\ call' = [call EXCEPT ![h] = c]
    BY <1>15, <1>17 DEF ReadRequest
  <2>2. leave'[r].status # "unused" /\ UNCHANGED <<notes, outbox>>
    BY <1>17 DEF ReadRequest, LiveRequest, tables
  <2> HIDE DEF c
  <2>. QED
    BY <1>4, <1>14, <1>17, <2>1, <2>2
<1>18. ASSUME NEW h \in Handler, Ends(h), NotesAreTrue', OutboxKept, UNCHANGED unaudited
       PROVE  NotesInv'
  BY <1>14, <1>15, <1>18 DEF Ends
<1>19. ASSUME NEW h \in Handler,
              \/ \E n \in 1 .. MaxDuration : Approve(h, n)
              \/ Reject(h) \/ Reopen(h)
              \/ \E target \in 1 .. LastOf(LastDay, MaxDuration) : Finish(h, target)
              \/ Withdraw(h) \/ EndCall(h),
              UNCHANGED unaudited
       PROVE  NotesInv'
  <2>1. Ends(h) /\ UNCHANGED notes
    BY <1>19 DEF Approve, Reject, Reopen, Finish, Withdraw, EndCall, ApproveLeaveRequest,
                 RejectLeaveRequest, ReopenLeaveRequest, SetDecision, ForceFinishLeaveRequest,
                 DeleteLeaveRequest, tables
  <2>2. \/ UNCHANGED outbox
        \/ \E key \in {"leave_approved", "leave_rejected", "leave_reopened"} :
             outbox' = outbox \cup {<<key, call[h].req>>}
    BY <1>19 DEF Approve, Reject, Reopen, Finish, Withdraw, EndCall, ApproveLeaveRequest,
                 RejectLeaveRequest, ReopenLeaveRequest, SetDecision, ForceFinishLeaveRequest,
                 DeleteLeaveRequest, tables, Enqueue
  <2>3. OutboxKept
    BY <2>2
  <2>. QED
    BY <1>4, <1>18, <1>19, <2>1, <2>3
<1>20. ASSUME NEW h \in Handler, Remove(h), UNCHANGED unaudited
       PROVE  NotesInv'
  <2> DEFINE r == call[h].req
             c == [op |-> "removed", req |-> r]
  <2>1. call[h] # NoCall /\ r \in Request
    BY <1>2, <1>3, <1>20 DEF Remove, NoCall
  <2>2. [call[h] EXCEPT !.op = "removed"] = c
    BY <1>2, <2>1 DEF CallState
  <2>3. c \in CallState /\ c.req = r /\ call' = [call EXCEPT ![h] = c]
    BY <1>15, <1>20, <2>1, <2>2 DEF Op, Remove
  <2>4. leave[r].status # "unused"
    BY <2>1 DEF NotesInv, ReportsHold
  <2>5. leave'[r].status = "deleted" /\ UNCHANGED <<notes, outbox>>
    <3>1. CASE DeleteLeaveRequest(r)
      BY <1>2, <2>1, <3>1 DEF DeleteLeaveRequest, LeaveRow
    <3>2. CASE ~LiveRequest(r) /\ UNCHANGED tables
      BY <1>2, <2>1, <2>4, <3>2 DEF LiveRequest, LeaveRow, tables
    <3>. QED
      BY <1>20, <3>1, <3>2 DEF Remove
  <2> HIDE DEF c
  <2>. QED
    BY <1>4, <1>14, <1>20, <2>1, <2>3, <2>5
<1>21. ASSUME NEW h \in Handler, AuditCall(h), UNCHANGED unaudited
       PROVE  NotesInv'
  <2>1. call[h] # NoCall /\ call[h].req \in Request
    BY <1>3, <1>21 DEF AuditCall, NoCall
  <2>2. /\ leave[call[h].req].status # "unused"
        /\ call[h].op = "removed" => leave[call[h].req].status = "deleted"
    BY <2>1 DEF NotesInv, ReportsHold
  <2>3. Ends(h) /\ UNCHANGED <<leave, attendance, attempt, outbox>>
    BY <1>21 DEF AuditCall, InsertAuditLog
  <2>4. NotesAreTrue'
    BY <1>21, <2>1, <2>2, <2>3 DEF AuditCall, InsertAuditLog, NotesInv, NotesAreTrue
  <2>. QED
    BY <1>18, <1>21, <2>3, <2>4
<1>22. ASSUME NEW r \in Request, NEW d \in Day, CreatePermit(r, d), UNCHANGED unaudited
       PROVE  NotesInv'
  BY <1>8, <1>22 DEF CreatePermit, CreateLeaveRequest
<1>23. ASSUME LeaveNext, UNCHANGED unaudited
       PROVE  NotesInv'
  BY <1>16, <1>17, <1>19, <1>20, <1>21, <1>22, <1>23 DEF LeaveNext
<1>24. ASSUME UNCHANGED <<tables, unaudited, call>>
       PROVE  NotesInv'
  BY <1>8, <1>24 DEF tables
<1>. QED
  BY <1>12, <1>23, <1>24 DEF Next, vars

\* What the trail, the attempts and the outbox say of attendances and requests
\* is true, whoever overtakes whom between a change and its audit row.
THEOREM RecordsAccountForThemselves == Spec => []RecordsAccountedFor
<1>1. SchoolInv /\ NotesInv /\ [Next]_vars => NotesInv'
  BY NotesStep
<1>2. Spec => []AttendanceAccountedFor
  BY SchoolImplementsRecords, RecordsAccounted, PTL
<1>3. AttendanceAccountedFor /\ NotesInv => RecordsAccountedFor
  BY DEF NotesInv, RecordsAccountedFor
<1>. QED
  BY <1>1, <1>2, <1>3, NotesInit, InitSchoolInv, NextSchoolInv, PTL DEF Spec

-----------------------------------------------------------------------------
(***************************************************************************)
(* The calendar, the administrators' list and the gate agree.              *)
(***************************************************************************)

\* Of an approved request, the calendar reports the period that the gate and
\* the transactions go by.
LEMMA ReportedPeriod ==
  ASSUME PeriodInv, NEW r \in Request, Approved(r)
  PROVE  PeriodFields(leave[r]).effective = EffectiveEnd(leave[r])
<1>1. leave[r].effectiveEnd # NoDay /\ EffectiveEnd(leave[r]) = leave[r].effectiveEnd
  BY ApprovedEnd DEF NoDay
<1>2. leave[r].status = "approved"
  BY DEF Approved
<1>. QED
  BY <1>1, <1>2 DEF PeriodFields, Coalesce

\* The approved requests that cover a day: for the gate, and for the calendar.
LeavesOn(s, d) == {r \in RequestsOf(s) : Approved(r) /\ Covers(leave[r], d)}

\* The calendar has one entry for each of them, and the list shows the same.
LEMMA CalendarLeaves ==
  ASSUME PeriodInv, NEW s \in Student, NEW d \in Nat
  PROVE  /\ {e \in CalendarEntries(s, d) : e.status = "leave"}
              = {[of |-> r, status |-> "leave"] : r \in LeavesOn(s, d)}
         /\ {q.id : q \in LeaveList(s, d)} = LeavesOn(s, d)
<1> DEFINE Permit(r) == [id |-> r, status |-> leave[r].status, first |-> leave[r].start,
                         last |-> PeriodFields(leave[r]).effective]
           permits == {q \in PermitHistory(s) : q.status = "approved" /\ d \in q.first .. q.last}
           RowEntries == {[of |-> "rows",
                           status |-> IF \E w \in RowsOf(s, d) : attendance[w].status = "Alpha"
                                      THEN "absent" ELSE "present"] : v \in RowsOf(s, d)}
<1>1. PermitHistory(s) = {Permit(r) : r \in {q \in RequestsOf(s) : LiveRequest(q)}}
  BY DEF PermitHistory
<1>2. \A r : /\ Permit(r).id = r /\ Permit(r).status = leave[r].status
             /\ Permit(r).first = leave[r].start
             /\ Permit(r).last = PeriodFields(leave[r]).effective
  OBVIOUS
<1> HIDE DEF Permit
<1>3. \A r \in RequestsOf(s) : r \in Request
  BY DEF RequestsOf
<1>4. \A r \in RequestsOf(s) : Approved(r) =>
        /\ LiveRequest(r) /\ leave[r].start \in Nat
        /\ PeriodFields(leave[r]).effective \in Nat
        /\ PeriodFields(leave[r]).effective = EffectiveEnd(leave[r])
  BY <1>3, ReportedPeriod, ApprovedEnd DEF Approved, LiveRequest
<1>5. permits = {Permit(r) : r \in LeavesOn(s, d)}
  BY <1>1, <1>2, <1>4 DEF LeavesOn, Covers, Approved
<1>6. LeaveList(s, d) = {Permit(r) : r \in LeavesOn(s, d)}
  BY <1>1, <1>2, <1>4 DEF LeaveList, LeavesOn, Covers, Approved
<1>7. CalendarEntries(s, d) = RowEntries \cup {[of |-> p.id, status |-> "leave"] : p \in permits}
  BY DEF CalendarEntries
<1>8. {[of |-> p.id, status |-> "leave"] : p \in permits}
        = {[of |-> r, status |-> "leave"] : r \in LeavesOn(s, d)}
  BY <1>2, <1>5
<1>9. \A e \in RowEntries : e.status # "leave"
  OBVIOUS
<1> HIDE DEF RowEntries, permits
<1>10. {e \in CalendarEntries(s, d) : e.status = "leave"}
         = {[of |-> r, status |-> "leave"] : r \in LeavesOn(s, d)}
  BY <1>7, <1>8, <1>9
<1>11. {q.id : q \in LeaveList(s, d)} = LeavesOn(s, d)
  BY <1>2, <1>6
<1>. QED
  BY <1>10, <1>11

\* No more than one leave covers a day, so that it is counted once.
LEMMA OneLeaveADay ==
  ASSUME PeriodInv, NoLeaveOverlap, NEW s \in Student, NEW d \in Nat,
         NEW r \in LeavesOn(s, d), NEW q \in LeavesOn(s, d)
  PROVE  r = q
<1> SUFFICES ASSUME r # q PROVE FALSE
  OBVIOUS
<1>1. /\ r \in Request /\ q \in Request /\ Approved(r) /\ Approved(q)
      /\ leave[r].student = leave[q].student
      /\ Covers(leave[r], d) /\ Covers(leave[q], d)
  BY DEF LeavesOn, RequestsOf
<1>2. ~Overlaps(leave[q], leave[r].start, EffectiveEnd(leave[r]))
  BY <1>1 DEF NoLeaveOverlap
<1>3. /\ EffectiveEnd(leave[r]) \in Nat /\ EffectiveEnd(leave[q]) \in Nat
      /\ leave[r].start \in Nat /\ leave[q].start \in Nat
  BY <1>1, ApprovedEnd
<1>. QED
  BY <1>1, <1>2, <1>3 DEF Overlaps, Covers

\* The calendar shows a leave exactly if the gate keeps the student away, once,
\* for the request that administrators are shown, and never as a day of presence.
THEOREM CalendarIsTheGates == Spec => []CalendarMatchesGate
<1>1. TablesInv => CalendarMatchesGate
  <2> SUFFICES ASSUME TablesInv,
                      NEW s \in Student, NEW d \in 1 .. LastOf(LastDay, MaxDuration)
               PROVE  LET leaves == {e \in CalendarEntries(s, d) : e.status = "leave"}
                      IN  /\ OnLeave(s, d) <=> leaves # {}
                          /\ Cardinality(leaves) <= 1
                          /\ {e.of : e \in leaves} = {q.id : q \in LeaveList(s, d)}
                          /\ leaves # {} => \A e \in CalendarEntries(s, d) : e.status # "present"
    BY DEF CalendarMatchesGate
  <2> DEFINE leaves == {e \in CalendarEntries(s, d) : e.status = "leave"}
  <2>1. PeriodInv /\ d \in Nat
    BY LastOfType, DaysAssumption DEF TablesInv
  <2>2. leaves = {[of |-> r, status |-> "leave"] : r \in LeavesOn(s, d)}
    BY <2>1, CalendarLeaves
  <2> HIDE DEF leaves
  <2>3. OnLeave(s, d) <=> leaves # {}
    BY <2>2 DEF OnLeave, LeavesOn
  <2>4. Cardinality(leaves) <= 1
    <3>1. CASE leaves = {}
      BY <3>1, FS_EmptySet
    <3>2. CASE leaves # {}
      <4>1. PICK r : r \in LeavesOn(s, d)
        BY <2>2, <3>2
      <4>2. LeavesOn(s, d) = {r}
        BY <2>1, <4>1, OneLeaveADay DEF TablesInv
      <4>3. leaves = {[of |-> r, status |-> "leave"]}
        BY <2>2, <4>2
      <4>4. Cardinality(leaves) = 1
        BY <4>3, FS_Singleton
      <4>. QED
        BY <4>4
    <3>. QED
      BY <3>1, <3>2
  <2>5. {e.of : e \in leaves} = {q.id : q \in LeaveList(s, d)}
    <3>1. {e.of : e \in leaves} = LeavesOn(s, d)
      <4> DEFINE entry(r) == [of |-> r, status |-> "leave"]
      <4>1. \A r : entry(r).of = r
        OBVIOUS
      <4>2. leaves = {entry(r) : r \in LeavesOn(s, d)}
        BY <2>2
      <4> HIDE DEF entry
      <4>. QED
        BY <4>1, <4>2
    <3>. QED
      BY <2>1, <3>1, CalendarLeaves
  <2>6. ASSUME leaves # {}, NEW e \in CalendarEntries(s, d), e.status = "present"
        PROVE  FALSE
    <3>1. PICK r : r \in LeavesOn(s, d)
      BY <2>2, <2>6
    <3>2. PICK w \in RowsOf(s, d) : \A x \in RowsOf(s, d) : attendance[x].status # "Alpha"
      BY <2>6 DEF CalendarEntries
    <3>3. /\ w \in Row /\ attendance[w].status \in Present
          /\ attendance[w].student = s /\ attendance[w].day = d
      BY <3>2 DEF RowsOf, LiveRow, AttendanceStatus, Present
    <3>4. /\ r \in Request /\ Approved(r) /\ leave[r].student = s /\ Covers(leave[r], d)
      BY <3>1 DEF LeavesOn, RequestsOf
    <3>. QED
      BY <3>3, <3>4 DEF TablesInv, NoPresenceOnLeave
  <2>. QED
    BY <2>3, <2>4, <2>5, <2>6 DEF leaves
<1>. QED
  BY SchoolTables, <1>1, PTL

-----------------------------------------------------------------------------
(***************************************************************************)
(* The tables implement the abstract book of days.  A leave of the book is *)
(* a run of its days, so the periods of requests must stay within them:    *)
(* that is the strengthening the refinement needs beside TablesInv.        *)
(***************************************************************************)
PeriodsInBook ==
  \A r \in Request :
    /\ leave[r].status # "unused" => leave[r].start \in Day
    /\ Approved(r) => leave[r].effectiveEnd <= LastOf(LastDay, MaxDuration)

BookInv == TablesInv /\ PeriodsInBook

\* A request that is created starts on a day, and the days of an approval are
\* counted from there.
LEMMA PeriodsInBookStep ==
  ASSUME BookInv, Transaction
  PROVE  PeriodsInBook'
<1>1. leave \in [Request -> LeaveRow] /\ PeriodInv
  BY DEF BookInv, TablesInv, PeriodInv, TypeOK
<1> DEFINE Fits(r) == /\ leave[r].status # "unused" => leave[r].start \in Day
                      /\ Approved(r) => leave[r].effectiveEnd <= LastOf(LastDay, MaxDuration)
<1>2. \A r \in Request : Fits(r)
  BY DEF BookInv, PeriodsInBook
<1>3. SUFFICES \A r \in Request : Fits(r)'
  BY DEF PeriodsInBook
<1>4. ASSUME NEW r \in Request, Fits(r)', leave' = [leave EXCEPT ![r] = leave'[r]]
      PROVE  \A q \in Request : Fits(q)'
  <2>1. ASSUME NEW q \in Request, q # r
        PROVE  Fits(q)'
    <3>1. leave'[q] = leave[q] /\ Fits(q)
      BY <1>1, <1>2, <1>4, <2>1
    <3>. QED
      BY <3>1 DEF Approved
  <2>. QED
    BY <1>4, <2>1
<1>5. ASSUME NEW r \in Request, NEW d \in Day, CreateLeaveRequest(r, d)
      PROVE  \A q \in Request : Fits(q)'
  <2>1. /\ leave' = [leave EXCEPT ![r] = leave'[r]]
        /\ leave'[r].status = "pending" /\ leave'[r].start = d
    BY <1>1, <1>5 DEF CreateLeaveRequest, LeaveRow
  <2>2. Fits(r)'
    BY <2>1 DEF Approved
  <2>. QED
    BY <1>4, <2>1, <2>2
<1>6. ASSUME NEW r \in Request, NEW n \in 1 .. MaxDuration, ApproveLeaveRequest(r, n)
      PROVE  \A q \in Request : Fits(q)'
  <2> DEFINE last == LastOf(leave[r].start, n)
  <2>1. leave' = [leave EXCEPT ![r] = [leave[r] EXCEPT
          !.status = "approved", !.originalEnd = last, !.effectiveEnd = last]]
    BY <1>1, <1>6, ApprovalSets
  <2>2. leave[r].start \in Day
    BY <1>2, <1>6 DEF ApproveLeaveRequest
  <2>3. last <= LastOf(LastDay, MaxDuration)
    BY <2>2, DaysAssumption DEF Day, LastOf
  <2> HIDE DEF last
  <2>4. /\ leave' = [leave EXCEPT ![r] = leave'[r]]
        /\ leave'[r].start = leave[r].start /\ leave'[r].effectiveEnd = last
    BY <1>1, <2>1 DEF LeaveRow
  <2>5. Fits(r)'
    BY <2>2, <2>3, <2>4
  <2>. QED
    BY <1>4, <2>4, <2>5
<1>7. ASSUME NEW r \in Request, NEW target \in 1 .. LastOf(LastDay, MaxDuration),
             ForceFinishLeaveRequest(r, target)
      PROVE  \A q \in Request : Fits(q)'
  <2>1. /\ leave' = [leave EXCEPT ![r] = leave'[r]]
        /\ leave'[r].start = leave[r].start /\ leave'[r].status = leave[r].status
        /\ leave'[r].effectiveEnd = target
    BY <1>1, <1>7, FinishSets DEF LeaveRow
  <2>2. Fits(r)'
    BY <1>2, <2>1, LastOfType, DaysAssumption DEF Approved
  <2>. QED
    BY <1>4, <2>1, <2>2
<1>8. ASSUME NEW r \in Request,
             RejectLeaveRequest(r) \/ ReopenLeaveRequest(r) \/ DeleteLeaveRequest(r)
      PROVE  \A q \in Request : Fits(q)'
  <2>1. /\ leave' = [leave EXCEPT ![r] = leave'[r]]
        /\ leave[r].status # "unused"
        /\ leave'[r].start = leave[r].start /\ leave'[r].status # "approved"
    BY <1>1, <1>8 DEF RejectLeaveRequest, ReopenLeaveRequest, SetDecision, DeleteLeaveRequest,
                      LiveRequest, LeaveRow
  <2>2. Fits(r)'
    BY <1>2, <2>1 DEF Approved
  <2>. QED
    BY <1>4, <2>1, <2>2
<1>9. ASSUME AttendanceTransaction \/ AuditTransaction
      PROVE  \A q \in Request : Fits(q)'
  <2>1. leave' = leave
    BY <1>1, <1>9, AttendanceWrites DEF PeriodInv
  <2>. QED
    BY <1>2, <2>1 DEF Approved
<1>. QED
  BY <1>5, <1>6, <1>7, <1>8, <1>9 DEF Transaction, LeaveTransaction

\* What the book says of a day is what the transactions look for.
LEMMA BookReads ==
  ASSUME BookInv, NEW s \in Student, NEW d \in Nat
  PROVE  /\ (<<s, d, "in">> \in BookMarks <=> CheckedIn(s, d))
         /\ (<<s, d, "out">> \in BookMarks <=> CheckedOut(s, d))
         /\ (<<s, d>> \in BookExcused <=> OnLeave(s, d))
         /\ (<<s, d>> \in BookPresent <=>
               \E w \in Row : /\ attendance[w].student = s /\ attendance[w].day = d
                              /\ attendance[w].status \in Present)
<1>1. ASSUME NEW m
      PROVE  <<s, d, m>> \in BookMarks <=> \E w \in RowsOf(s, d) : m \in MarksOf(w)
  BY DEF BookMarks, LiveRows, RowsOf
<1>2. \A w : /\ ("in" \in MarksOf(w) <=> MarksIn(attendance[w]))
             /\ ("out" \in MarksOf(w) <=> MarksOut(attendance[w]))
  BY DEF MarksOf
<1>3. \A r \in Request : Approved(r) => /\ leave[r].start \in Nat
                                        /\ EffectiveEnd(leave[r]) \in Nat
  BY ApprovedEnd DEF BookInv, TablesInv
<1>4. <<s, d>> \in BookExcused <=>
        \E r \in Request : /\ Approved(r) /\ leave[r].student = s
                           /\ d \in leave[r].start .. EffectiveEnd(leave[r])
  BY DEF BookExcused
<1>5. <<s, d>> \in BookExcused <=> OnLeave(s, d)
  BY <1>3, <1>4 DEF OnLeave, Covers, RequestsOf
<1>. QED
  BY <1>1, <1>2, <1>5 DEF CheckedIn, CheckedOut, BookPresent

\* The insert of a row is a mark in the book.
LEMMA InsertMarks ==
  ASSUME BookInv, UNCHANGED leave,
         NEW w \in Row, NEW s \in Student, NEW d \in Day, NEW a \in Action,
         NEW status \in AttendanceStatus, Inserts(w, s, d, a, status)
  PROVE  \E new \in SUBSET {"in", "out"}, there \in BOOLEAN : Book!Mark(s, d, new, there)
<1> DEFINE new == MarksOf(w)'
           RowMarks(x) == {<<attendance[x].student, attendance[x].day, m>> : m \in MarksOf(x)}
           Here == {x \in Row : attendance[x].status \in Present}
<1>1. PICK there \in BOOLEAN : there <=> status \in Present
  OBVIOUS
<1>2. /\ attendance[w].status = "unused"
      /\ ~OnLeave(s, d) /\ CanRecordAttendanceAction(s, d, a)
      /\ attendance'[w].student = s /\ attendance'[w].day = d
      /\ attendance'[w].action = a /\ attendance'[w].status = status
      /\ \A x \in Row \ {w} : attendance'[x] = attendance[x]
  BY DEF Inserts, InsertAttendance
<1>3. d \in Nat
  BY DEF Day
<1>4. new \subseteq {"in", "out"}
  BY DEF MarksOf
<1>5. /\ a = "check_in" => "in" \in new
      /\ a = "check_out" => "out" \in new
  BY <1>2 DEF MarksOf, MarksIn, MarksOut
<1>6. \/ "in" \in new /\ <<s, d, "in">> \notin BookMarks
      \/ "out" \in new /\ <<s, d, "in">> \in BookMarks /\ <<s, d, "out">> \notin BookMarks
  BY <1>2, <1>3, <1>5, BookReads DEF CanRecordAttendanceAction, Action
<1>7. BookMarks' = BookMarks \cup {<<s, d, m>> : m \in new}
  <2>1. LiveRows' = LiveRows \cup {w} /\ w \notin LiveRows
    BY <1>2 DEF LiveRows, LiveRow, AttendanceStatus
  <2>2. \A x \in LiveRows : RowMarks(x)' = RowMarks(x)
    BY <1>2, <2>1 DEF MarksOf, MarksIn, MarksOut, LiveRows
  <2>3. RowMarks(w)' = {<<s, d, m>> : m \in new}
    BY <1>2
  <2>4. BookMarks = UNION {RowMarks(x) : x \in LiveRows}
    BY DEF BookMarks
  <2>5. BookMarks' = UNION {RowMarks(x)' : x \in LiveRows'}
    BY DEF BookMarks
  <2> HIDE DEF RowMarks, new
  <2>. QED
    BY <2>1, <2>2, <2>3, <2>4, <2>5
<1>8. BookPresent' = IF there THEN BookPresent \cup {<<s, d>>} ELSE BookPresent
  <2>1. Here' = IF there THEN Here \cup {w} ELSE Here
    BY <1>1, <1>2 DEF Present
  <2>2. w \notin Here
    BY <1>2 DEF Present
  <2>3. BookPresent = {<<attendance[x].student, attendance[x].day>> : x \in Here}
    BY DEF BookPresent
  <2>4. BookPresent' = {<<attendance'[x].student, attendance'[x].day>> : x \in Here'}
    BY DEF BookPresent
  <2>5. Here \subseteq Row
    OBVIOUS
  <2> HIDE DEF Here
  <2>. QED
    BY <1>2, <2>1, <2>2, <2>3, <2>4, <2>5
<1>9. BookExcused' = BookExcused
  BY DEF BookExcused, Approved
<1>10. <<s, d>> \notin BookExcused
  BY <1>2, <1>3, BookReads
<1> HIDE DEF new
<1>11. Book!Mark(s, d, new, there)
  BY <1>4, <1>6, <1>7, <1>8, <1>9, <1>10 DEF Book!Mark
<1>. QED
  BY <1>4, <1>11

\* The deletion of rows strikes marks, as does a step that only reads.
LEMMA StrikeMarks ==
  ASSUME BookInv, UNCHANGED leave, Strikes
  PROVE  Book!Strike
<1>1. attendance \in [Row -> AttendanceRow]
  BY DEF BookInv, TablesInv, PeriodInv, TypeOK
<1>2. \A x \in Row : \/ attendance'[x] = attendance[x]
                     \/ attendance'[x].status \notin AttendanceStatus
  BY <1>1 DEF Strikes, AttendanceStatus, AttendanceRow
<1>3. BookExcused' = BookExcused
  BY DEF BookExcused, Approved
<1>4. BookMarks' \subseteq BookMarks
  BY <1>2 DEF BookMarks, LiveRows, LiveRow, MarksOf
<1>5. BookPresent' \subseteq BookPresent
  BY <1>2 DEF BookPresent, Present, AttendanceStatus
<1>. QED
  BY <1>3, <1>4, <1>5 DEF Book!Strike

\* The days that a request takes out of the book, when it is approved.
LeaveDays(r) == {leave[r].student} \X (leave[r].start .. EffectiveEnd(leave[r]))

\* The excused days are those of the approved requests.
LEMMA ExcusedDays ==
  /\ BookExcused = UNION {LeaveDays(r) : r \in {q \in Request : Approved(q)}}
  /\ BookExcused' = UNION {LeaveDays(r)' : r \in {q \in Request : Approved(q)'}}
BY DEF BookExcused, LeaveDays

\* Neither a day of another approved request nor a day with a present row is a
\* day of the period that an approval grants, so it may be excused.
LEMMA ApprovalExcuses ==
  ASSUME BookInv, UNCHANGED attendance,
         NEW a \in Request, NEW n \in 1 .. MaxDuration, ApproveLeaveRequest(a, n)
  PROVE  Book!BookNext
<1>1. leave \in [Request -> LeaveRow] /\ PeriodInv
  BY DEF BookInv, TablesInv, PeriodInv, TypeOK
<1> DEFINE first == leave[a].start
           last == LastOf(leave[a].start, n)
           s == leave[a].student
<1>2. /\ last \in Nat \ {0} /\ first \in Nat \ {0} /\ first <= last
      /\ leave' = [leave EXCEPT ![a] = [leave[a] EXCEPT
           !.status = "approved", !.originalEnd = last, !.effectiveEnd = last]]
  BY <1>1, ApprovalSets
<1>3. /\ FreeOfLeave(a, first, last) /\ FreeOfPresence(s, first, last)
      /\ leave[a].status = "pending" /\ leave[a].status # "unused"
  BY DEF ApproveLeaveRequest
<1>4. /\ first \in 1 .. LastOf(LastDay, MaxDuration)
      /\ last \in 1 .. LastOf(LastDay, MaxDuration)
  <2>1. first \in Day
    BY <1>3 DEF BookInv, PeriodsInBook
  <2>. QED
    BY <2>1, DaysAssumption DEF Day, LastOf
<1>5. s \in Student
  BY <1>1 DEF LeaveRow
<1> HIDE DEF last
<1>6. /\ Approved(a)' /\ ~Approved(a)
      /\ leave'[a].start = first /\ leave'[a].student = s /\ leave'[a].effectiveEnd = last
      /\ \A q \in Request \ {a} : leave'[q] = leave[q]
  BY <1>1, <1>2, <1>3 DEF LeaveRow, Approved
<1>7. LeaveDays(a)' = {s} \X (first .. last)
  BY <1>2, <1>6, EndOfRow DEF LeaveDays, NoDay
<1>8. BookExcused' = BookExcused \cup ({s} \X (first .. last))
  <2>1. {q \in Request : Approved(q)'} = {q \in Request : Approved(q)} \cup {a}
    BY <1>6 DEF Approved
  <2>2. \A q \in Request : Approved(q) => LeaveDays(q)' = LeaveDays(q)
    BY <1>6 DEF LeaveDays
  <2>. QED
    BY <1>7, <2>1, <2>2, ExcusedDays
<1>9. ({s} \X (first .. last)) \cap (BookExcused \cup BookPresent) = {}
  <2>1. SUFFICES ASSUME NEW d \in first .. last
                 PROVE  <<s, d>> \notin BookExcused /\ <<s, d>> \notin BookPresent
    OBVIOUS
  <2>2. d \in Nat
    BY <1>2, <2>1
  <2>3. ~OnLeave(s, d)
    <3>1. SUFFICES ASSUME NEW q \in Request, leave[q].student = s, Approved(q),
                          Covers(leave[q], d)
                   PROVE  FALSE
      BY DEF OnLeave, RequestsOf
    <3>2. q # a
      BY <1>6, <3>1
    <3>3. ~Overlaps(leave[q], first, last)
      BY <1>3, <3>1, <3>2 DEF FreeOfLeave, RequestsOf
    <3>4. leave[q].start \in Nat /\ EffectiveEnd(leave[q]) \in Nat
      BY <1>1, <3>1, ApprovedEnd
    <3>. QED
      BY <1>2, <2>1, <2>2, <3>1, <3>3, <3>4 DEF Covers, Overlaps
  <2>4. \A w \in Row : attendance[w].student = s /\ attendance[w].status \in Present
                         => attendance[w].day # d
    BY <1>2, <1>3, <2>1, <2>2 DEF FreeOfPresence
  <2>. QED
    BY <1>5, <2>2, <2>3, <2>4, BookReads
<1>10. BookMarks' = BookMarks /\ BookPresent' = BookPresent
  BY DEF BookMarks, BookPresent, MarksOf, MarksIn, MarksOut, LiveRows, LiveRow
<1> HIDE DEF first, s
<1>11. Book!Excuse(s, first, last)
  BY <1>2, <1>8, <1>9, <1>10 DEF Book!Excuse, Book!Interval
<1>. QED
  BY <1>4, <1>5, <1>11 DEF Book!BookNext

\* No two approved requests of a student share a day, so what a request gives
\* up is lifted: no other request still covers it.
LEMMA ShrinkingLifts ==
  ASSUME BookInv, UNCHANGED attendance, PeriodsWellFormed',
         NEW r \in Request, Approved(r), Shrinks(r),
         \A q \in Request \ {r} : leave'[q] = leave[q]
  PROVE  [Book!BookNext]_<<BookMarks, BookPresent, BookExcused>>
<1>1. leave \in [Request -> LeaveRow] /\ PeriodInv /\ NoLeaveOverlap /\ PeriodsInBook
  BY DEF BookInv, TablesInv, PeriodInv, TypeOK
<1> DEFINE s == leave[r].student
           start == leave[r].start
           end == leave[r].effectiveEnd
           from == IF Approved(r)' THEN leave'[r].effectiveEnd + 1 ELSE start
<1>2. /\ EffectiveEnd(leave[r]) = end /\ start \in Nat \ {0} /\ end \in Nat \ {0}
      /\ start <= end /\ end <= LastOf(LastDay, MaxDuration) /\ s \in Student
      /\ LeaveDays(r) = {s} \X (start .. end)
  BY <1>1, ApprovedEnd DEF PeriodsInBook, LeaveDays, LeaveRow
<1>3. LastOf(LastDay, MaxDuration) \in Nat
  BY LastOfType, DaysAssumption
<1>4. Approved(r)' => /\ leave'[r].student = s /\ leave'[r].start = start
                      /\ leave'[r].effectiveEnd \in Nat \ {0}
                      /\ start <= leave'[r].effectiveEnd /\ leave'[r].effectiveEnd <= end
                      /\ EffectiveEnd(leave'[r]) = leave'[r].effectiveEnd
  BY EndOfRow DEF Shrinks, NoDay, PeriodsWellFormed
<1>5. from \in Nat \ {0} /\ (from <= end \/ (Approved(r)' /\ leave'[r].effectiveEnd = end))
  BY <1>2, <1>4
<1>6. BookMarks' = BookMarks /\ BookPresent' = BookPresent
  BY DEF BookMarks, BookPresent, MarksOf, MarksIn, MarksOut, LiveRows, LiveRow
<1> DEFINE Others == UNION {LeaveDays(q) : q \in {x \in Request \ {r} : Approved(x)}}
<1>7. /\ BookExcused = Others \cup LeaveDays(r)
      /\ BookExcused' = Others \cup (IF Approved(r)' THEN LeaveDays(r)' ELSE {})
  <2>1. \A q \in Request \ {r} : LeaveDays(q)' = LeaveDays(q) /\ Approved(q)' = Approved(q)
    BY DEF LeaveDays, Approved
  <2>2. {q \in Request : Approved(q)} = {x \in Request \ {r} : Approved(x)} \cup {r}
    OBVIOUS
  <2>3. {q \in Request : Approved(q)'} = {x \in Request \ {r} : Approved(x)}
                                         \cup (IF Approved(r)' THEN {r} ELSE {})
    BY <2>1
  <2>4. {LeaveDays(q)' : q \in {x \in Request \ {r} : Approved(x)}}
          = {LeaveDays(q) : q \in {x \in Request \ {r} : Approved(x)}}
    BY <2>1
  <2>5. BookExcused = Others \cup LeaveDays(r)
    BY <2>2, ExcusedDays
  <2>6. BookExcused' = Others \cup (IF Approved(r)' THEN LeaveDays(r)' ELSE {})
    BY <2>3, <2>4, ExcusedDays
  <2>. QED
    BY <2>5, <2>6
<1>8. Others \cap LeaveDays(r) = {}
  <2>1. ASSUME NEW q \in Request \ {r}, Approved(q)
        PROVE  LeaveDays(q) \cap LeaveDays(r) = {}
    <3>1. /\ leave[q].start \in Nat /\ EffectiveEnd(leave[q]) \in Nat
          /\ LeaveDays(q) = {leave[q].student} \X (leave[q].start .. EffectiveEnd(leave[q]))
      BY <1>1, <2>1, ApprovedEnd DEF LeaveDays
    <3>2. leave[q].student = s => ~Overlaps(leave[q], start, end)
      BY <1>1, <1>2, <2>1 DEF NoLeaveOverlap
    <3>. QED
      BY <1>2, <3>1, <3>2 DEF Overlaps
  <2>. QED
    BY <2>1
<1>9. CASE Approved(r)' /\ leave'[r].effectiveEnd = end
  <2>1. LeaveDays(r)' = LeaveDays(r)
    BY <1>2, <1>4, <1>9 DEF LeaveDays
  <2>. QED
    BY <1>6, <1>7, <1>9, <2>1
<1>10. CASE from <= end
  <2>1. {s} \X (from .. end) \subseteq LeaveDays(r)
    BY <1>2, <1>4
  <2>2. (IF Approved(r)' THEN LeaveDays(r)' ELSE {}) = LeaveDays(r) \ ({s} \X (from .. end))
    BY <1>2, <1>4 DEF LeaveDays
  <2>3. BookExcused' = BookExcused \ ({s} \X (from .. end))
    BY <1>7, <1>8, <2>1, <2>2
  <2>4. {s} \X (from .. end) \subseteq BookExcused
    BY <1>7, <2>1
  <2>5. from \in 1 .. LastOf(LastDay, MaxDuration) /\ end \in 1 .. LastOf(LastDay, MaxDuration)
    BY <1>2, <1>3, <1>5, <1>10
  <2> HIDE DEF from, end, s
  <2>6. Book!Lift(s, from, end)
    BY <1>6, <1>10, <2>3, <2>4 DEF Book!Lift, Book!Interval
  <2>. QED
    BY <1>2, <2>5, <2>6 DEF Book!BookNext
<1>. QED
  BY <1>5, <1>9, <1>10

\* A transaction about leave writes one request.
LEMMA OneRequestMoves ==
  ASSUME leave \in [Request -> LeaveRow], LeaveTransaction
  PROVE  \E r \in Request : \A q \in Request \ {r} : leave'[q] = leave[q]
<1>1. PICK r \in Request :
        \/ \E d \in Day : CreateLeaveRequest(r, d)
        \/ \E n \in 1 .. MaxDuration : ApproveLeaveRequest(r, n)
        \/ RejectLeaveRequest(r) \/ ReopenLeaveRequest(r)
        \/ \E target \in 1 .. LastOf(LastDay, MaxDuration) : ForceFinishLeaveRequest(r, target)
        \/ DeleteLeaveRequest(r)
  BY DEF LeaveTransaction
<1>2. CASE \E d \in Day : CreateLeaveRequest(r, d)
  BY <1>2 DEF CreateLeaveRequest
<1>3. CASE \E n \in 1 .. MaxDuration : ApproveLeaveRequest(r, n)
  BY <1>3 DEF ApproveLeaveRequest
<1>4. CASE RejectLeaveRequest(r) \/ ReopenLeaveRequest(r)
  BY <1>4 DEF RejectLeaveRequest, ReopenLeaveRequest, SetDecision
<1>5. CASE \E target \in 1 .. LastOf(LastDay, MaxDuration) : ForceFinishLeaveRequest(r, target)
  BY <1>5 DEF ForceFinishLeaveRequest
<1>6. CASE DeleteLeaveRequest(r)
  BY <1>6 DEF DeleteLeaveRequest
<1>. QED
  BY <1>1, <1>2, <1>3, <1>4, <1>5, <1>6

\* Every transaction is a step of the book, or one it does not see.
LEMMA TransactionBooks ==
  ASSUME BookInv, Transaction, UNCHANGED today
  PROVE  [Book!BookNext]_<<BookMarks, BookPresent, BookExcused>>
<1>1. leave \in [Request -> LeaveRow] /\ TypeOK /\ PeriodInv
  BY DEF BookInv, TablesInv, PeriodInv, TypeOK
<1>2. CASE AttendanceTransaction \/ AuditTransaction
  <2>1. UNCHANGED leave
    BY <1>1, <1>2, AttendanceWrites
  <2>2. CASE Strikes
    BY <2>1, <2>2, StrikeMarks DEF Book!BookNext
  <2>3. ASSUME NEW w \in Row, NEW s \in Student, NEW d \in Day, NEW a \in Action,
               NEW status \in AttendanceStatus, Inserts(w, s, d, a, status)
        PROVE  Book!BookNext
    <3>1. d \in 1 .. LastOf(LastDay, MaxDuration)
      BY DaysAssumption DEF Day, LastOf
    <3>. QED
      BY <2>1, <2>3, <3>1, InsertMarks DEF Book!BookNext
  <2>. QED
    BY <1>1, <1>2, <2>2, <2>3, AttendanceWrites
<1>3. CASE LeaveTransaction
  <2>1. UNCHANGED attendance /\ PeriodsWellFormed'
    BY <1>1, <1>3, LeaveWrites, PeriodStep DEF PeriodInv
  <2>2. CASE \E r \in Request, n \in 1 .. MaxDuration : ApproveLeaveRequest(r, n)
    BY <2>1, <2>2, ApprovalExcuses
  <2>3. CASE \A r \in Request : Shrinks(r)
    <3>1. PICK r \in Request : \A q \in Request \ {r} : leave'[q] = leave[q]
      BY <1>1, <1>3, OneRequestMoves
    <3>2. CASE Approved(r)
      BY <2>1, <2>3, <3>1, <3>2, ShrinkingLifts
    <3>3. CASE ~Approved(r)
      <4>1. ~Approved(r)'
        BY <2>3, <3>3 DEF Shrinks
      <4>2. \A q \in Request : /\ Approved(q)' = Approved(q)
                               /\ Approved(q) => LeaveDays(q)' = LeaveDays(q)
        BY <3>1, <3>3, <4>1 DEF Approved, LeaveDays
      <4>3. BookExcused' = BookExcused
        BY <4>2, ExcusedDays
      <4>4. BookMarks' = BookMarks /\ BookPresent' = BookPresent
        BY <2>1 DEF BookMarks, BookPresent, MarksOf, MarksIn, MarksOut, LiveRows, LiveRow
      <4>. QED
        BY <4>3, <4>4
    <3>. QED
      BY <3>2, <3>3
  <2>. QED
    BY <1>1, <1>3, <2>2, <2>3, OnlyApprovalExtends DEF Transaction
<1>. QED
  BY <1>2, <1>3 DEF Transaction

\* The invariant of the refinement holds of empty tables and is inductive.
LEMMA InitBookInv == RecordsInit => BookInv
<1> SUFFICES ASSUME RecordsInit PROVE BookInv
  OBVIOUS
<1>1. \A r \in Request : leave[r].status = "unused"
  BY DEF RecordsInit
<1>. QED
  BY <1>1, InitTablesInv DEF BookInv, PeriodsInBook, Approved

\* No step of the tables takes a period out of the book.
LEMMA NextBookInv == BookInv /\ [RecordsNext]_<<tables, today>> => BookInv'
<1> SUFFICES ASSUME BookInv, [RecordsNext]_<<tables, today>> PROVE BookInv'
  OBVIOUS
<1>1. TablesInv'
  BY NextTablesInv DEF BookInv
<1>2. CASE UNCHANGED leave
  BY <1>1, <1>2 DEF BookInv, PeriodsInBook, Approved
<1>. QED
  BY <1>1, <1>2, PeriodsInBookStep DEF RecordsNext, tables, BookInv

\* Every step of the tables is a step of the book or does not change it.
LEMMA RecordsBook ==
  BookInv /\ [RecordsNext]_<<tables, today>>
    => [Book!BookNext]_<<BookMarks, BookPresent, BookExcused>>
<1> SUFFICES ASSUME BookInv, [RecordsNext]_<<tables, today>>
             PROVE  [Book!BookNext]_<<BookMarks, BookPresent, BookExcused>>
  OBVIOUS
<1>1. CASE UNCHANGED tables
  BY <1>1 DEF tables, BookMarks, BookPresent, BookExcused, LiveRows, LiveRow, MarksOf, MarksIn,
              MarksOut, Approved, EffectiveEnd
<1>2. CASE Transaction /\ UNCHANGED today
  BY <1>2, TransactionBooks
<1>. QED
  BY <1>1, <1>2 DEF RecordsNext, NextDay, tables

\* The book starts empty.
LEMMA InitBook == RecordsInit => Book!BookInit
<1> SUFFICES ASSUME RecordsInit PROVE Book!BookInit
  OBVIOUS
<1>1. /\ \A r \in Request : ~Approved(r)
      /\ \A w \in Row : attendance[w].status = "unused"
  BY DEF RecordsInit, Approved
<1>. QED
  BY <1>1 DEF Book!BookInit, BookMarks, BookPresent, BookExcused, LiveRows, LiveRow,
              AttendanceStatus, Present

\* Attendance and leave handlers together implement the book of days: whatever
\* they interleave, a day is marked in then out, a run of days is excused only
\* when none of them is excused or marked present, and only whole runs of days
\* of one leave are lifted again.
THEOREM SchoolKeepsTheBook == Spec => ImplementsDayBook
  BY SchoolImplementsRecords, InitBookInv, NextBookInv, RecordsBook, InitBook, PTL
     DEF RecordsSpec, ImplementsDayBook, Book!BookSpec
=============================================================================
