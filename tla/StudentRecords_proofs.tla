----------------------- MODULE StudentRecords_proofs -----------------------
(***************************************************************************)
(* Proofs about the tables, for any number of students, requests, rows and *)
(* days, and for every caller: RecordsSpec takes any transaction with any  *)
(* arguments.                                                              *)
(***************************************************************************)
EXTENDS StudentRecords, FiniteSetTheorems, TLAPS

(***************************************************************************)
(* Type correctness.                                                       *)
(***************************************************************************)

\* An audited decision is appended to the trail of its request.
LEMMA DecideType ==
  ASSUME TypeOK,
         NEW r \in Request, NEW action \in DecisionAction, NEW until \in Nat,
         Decide(r, action, until)
  PROVE  decisions' \in [Request -> Seq(Decision)]
<1> DEFINE d == [action |-> action, until |-> until]
<1>1. d \in Decision
  BY DEF Decision
<1>2. decisions \in [Request -> Seq(Decision)]
  BY DEF TypeOK
<1>3. Append(decisions[r], d) \in Seq(Decision)
  BY <1>1, <1>2
<1>. QED
  BY <1>2, <1>3 DEF Decide

\* The last day of a period is a day, and no earlier than the first.
LEMMA LastOfType ==
  ASSUME NEW d \in Nat, NEW n \in Nat \ {0}
  PROVE  LastOf(d, n) \in Nat /\ LastOf(d, n) >= d
BY DEF LastOf

\* Durations are positive numbers.
LEMMA DurationType == 1 .. MaxDuration \subseteq Nat \ {0}
BY DaysAssumption

\* A new attendance row has the type of the table.
LEMMA InsertAttendanceType ==
  ASSUME TypeOK,
         NEW w \in Row, NEW s \in Student, NEW d \in Day, NEW a \in Action,
         NEW status \in AttendanceStatus, InsertAttendance(w, s, d, a, status)
  PROVE  attendance' \in [Row -> AttendanceRow]
<1> DEFINE new == [attendance[w] EXCEPT !.day = d, !.action = a, !.status = status]
<1>1. attendance[w] \in AttendanceRow /\ d \in Nat
  BY DEF TypeOK, Day
<1>2. new \in AttendanceRow
  BY <1>1 DEF AttendanceRow
<1>3. attendance' = [attendance EXCEPT ![w] = new]
  BY DEF TypeOK, InsertAttendance
<1>. QED
  BY <1>2, <1>3 DEF TypeOK

\* Every transaction keeps the types.
LEMMA TransactionType ==
  ASSUME TypeOK, Transaction, UNCHANGED today
  PROVE  TypeOK'
<1> USE DEF TypeOK
<1>1. ASSUME NEW r \in Request, NEW d \in Day, CreateLeaveRequest(r, d)
      PROVE  TypeOK'
  <2>1. d \in Nat
    BY DEF Day
  <2>2. leave' \in [Request -> LeaveRow]
    <3>1. [leave[r] EXCEPT !.status = "pending", !.start = d] \in LeaveRow
      BY <2>1 DEF LeaveRow
    <3>. QED
      BY <1>1, <3>1 DEF CreateLeaveRequest
  <2>3. UNCHANGED <<decisions, attendance, attempt, notes, outbox>>
    BY <1>1 DEF CreateLeaveRequest
  <2>. QED
    BY <2>2, <2>3
<1>2. ASSUME NEW r \in Request, NEW n \in 1 .. MaxDuration, ApproveLeaveRequest(r, n)
      PROVE  TypeOK'
  <2>1. leave[r].start \in Nat
    BY DEF LeaveRow
  <2>2. LastOf(leave[r].start, n) \in Nat
    BY <2>1, LastOfType, DurationType
  <2>3. decisions' \in [Request -> Seq(Decision)]
    BY <1>2, <2>2, DecideType DEF ApproveLeaveRequest, DecisionAction
  <2>4. leave' \in [Request -> LeaveRow]
    BY <1>2, <2>2, ZenonT(60) DEF ApproveLeaveRequest, LeaveRow
  <2>. QED
    BY <1>2, <2>3, <2>4 DEF ApproveLeaveRequest, Enqueue, EventKey
<1>3. ASSUME NEW r \in Request,
             NEW status \in {"rejected", "pending"}, NEW action \in {"reject", "reopen"},
             NEW key \in {"leave_rejected", "leave_reopened"},
             SetDecision(r, status, action, key)
      PROVE  TypeOK'
  <2>1. NoDay \in Nat
    BY DEF NoDay
  <2>2. decisions' \in [Request -> Seq(Decision)]
    BY <1>3, <2>1, DecideType DEF SetDecision, DecisionAction
  <2>3. leave' \in [Request -> LeaveRow]
    BY <1>3, <2>1, ZenonT(60) DEF SetDecision, LeaveRow
  <2>. QED
    BY <1>3, <2>2, <2>3 DEF SetDecision, Enqueue, EventKey
<1>4. ASSUME NEW r \in Request, NEW target \in 1 .. LastOf(LastDay, MaxDuration),
             ForceFinishLeaveRequest(r, target)
      PROVE  TypeOK'
  <2>1. target \in Nat
    BY LastOfType, DaysAssumption
  <2>2. decisions' \in [Request -> Seq(Decision)]
    BY <1>4, <2>1, DecideType DEF ForceFinishLeaveRequest, DecisionAction
  <2>3. leave' \in [Request -> LeaveRow]
    BY <1>4, <2>1, ZenonT(60) DEF ForceFinishLeaveRequest, LeaveRow, Coalesce
  <2>. QED
    BY <1>4, <2>2, <2>3 DEF ForceFinishLeaveRequest
<1>5. ASSUME NEW r \in Request, DeleteLeaveRequest(r)
      PROVE  TypeOK'
  BY <1>5 DEF DeleteLeaveRequest, LeaveRow
<1>6. ASSUME NEW w \in Row, NEW t \in Attempt, NEW s \in Student, NEW d \in Day,
             NEW a \in Action, SaveAttendanceRecord(w, t, s, d, a)
      PROVE  TypeOK'
  BY <1>6 DEF SaveAttendanceRecord, InsertAttendance, InsertAttempt, AttendanceRow,
              AttemptRow, AttendanceStatus, Day
<1>7. ASSUME NEW w \in Row, NEW t \in Attempt, NEW s \in Student, NEW d \in Day,
             NEW a \in Action, NEW status \in AttendanceStatus,
             CreateManualAttendance(w, t, s, d, a, status)
      PROVE  TypeOK'
  <2>1. attendance' \in [Row -> AttendanceRow]
    BY <1>7, InsertAttendanceType DEF CreateManualAttendance
  <2>2. notes' \subseteq Note
    <3>1. <<"create_manual_attendance", w>> \in Note
      BY DEF Note
    <3>. QED
      BY <1>7, <3>1 DEF CreateManualAttendance
  <2>3. outbox' \subseteq EventKey
    BY <1>7 DEF CreateManualAttendance, Enqueue, EventKey
  <2>. QED
    BY <1>7, <2>1, <2>2, <2>3 DEF CreateManualAttendance
<1>8. ASSUME NEW t \in Attempt, NEW s \in Student, NEW a \in Action,
             NEW status \in {"failed", "error"}, RecordAttendanceAttempt(t, s, a, status)
      PROVE  TypeOK'
  <2>1. today \in Nat
    BY DEF Day
  <2>2. /\ attempt' = [attempt EXCEPT ![t].day = today, ![t].action = a, ![t].status = status]
        /\ UNCHANGED <<leave, decisions, attendance, notes, outbox>>
    BY <1>8 DEF RecordAttendanceAttempt, InsertAttempt
  <2>3. PICK new \in AttemptRow : attempt' = [attempt EXCEPT ![t] = new]
    <3>1. [attempt[t] EXCEPT !.day = today, !.action = a, !.status = status] \in AttemptRow
      BY <1>8, <2>1 DEF AttemptRow
    <3>. QED
      BY <2>2, <3>1
  <2>4. attempt' \in [Attempt -> AttemptRow]
    BY <2>3
  <2>. QED
    BY <2>2, <2>4
<1>9. ASSUME NEW ids \in SUBSET Row, DeleteAttendances(ids)
      PROVE  TypeOK'
  BY <1>9 DEF DeleteAttendances, AttendanceRow
<1>10. ASSUME NEW note \in LooseNote, InsertAuditLog(note)
       PROVE  TypeOK'
  BY <1>10 DEF InsertAuditLog, LooseNote
<1>. QED
  BY <1>1, <1>2, <1>3, <1>4, <1>5, <1>6, <1>7, <1>8, <1>9, <1>10
     DEF Transaction, LeaveTransaction, AttendanceTransaction, AuditTransaction,
         RejectLeaveRequest, ReopenLeaveRequest

-----------------------------------------------------------------------------
(***************************************************************************)
(* The inductive invariant.  The safety invariants are not inductive: an   *)
(* approval sets its end by counting from the start of the request, so it  *)
(* must be known that a request that exists starts on a day, that an       *)
(* unused one has no period and no trail.                                  *)
(***************************************************************************)
RequestsStarted ==
  \A r \in Request :
    /\ leave[r].status # "unused" => leave[r].start \in Nat \ {0}
    /\ leave[r].status = "unused" => /\ leave[r].originalEnd = NoDay
                                     /\ leave[r].effectiveEnd = NoDay

PeriodInv == TypeOK /\ RequestsStarted /\ PeriodsWellFormed

\* Of an approved request, the effective end is the end of the period.
LEMMA ApprovedEnd ==
  ASSUME PeriodInv, NEW r \in Request, Approved(r)
  PROVE  /\ EffectiveEnd(leave[r]) = leave[r].effectiveEnd
         /\ leave[r].start \in Nat \ {0}
         /\ leave[r].effectiveEnd \in Nat \ {0}
         /\ leave[r].originalEnd \in Nat \ {0}
         /\ leave[r].start <= leave[r].effectiveEnd
<1>1. leave[r] \in LeaveRow
  BY DEF PeriodInv, TypeOK
<1>2. /\ leave[r].start \in Nat \ {0}
      /\ leave[r].start <= leave[r].effectiveEnd
      /\ leave[r].effectiveEnd <= leave[r].originalEnd
  BY DEF PeriodInv, RequestsStarted, PeriodsWellFormed, Approved
<1>. QED
  BY <1>1, <1>2 DEF LeaveRow, EffectiveEnd, Coalesce, NoDay

\* The same of any row that has an effective end.
LEMMA EndOfRow ==
  ASSUME NEW lr, lr.effectiveEnd # NoDay
  PROVE  EffectiveEnd(lr) = lr.effectiveEnd
BY DEF EffectiveEnd, Coalesce

\* What an approval writes.
LEMMA ApprovalSets ==
  ASSUME PeriodInv, NEW r \in Request, NEW n \in 1 .. MaxDuration, ApproveLeaveRequest(r, n)
  PROVE  LET last == LastOf(leave[r].start, n) IN
         /\ last \in Nat \ {0} /\ leave[r].start \in Nat \ {0}
         /\ leave[r].start <= last
         /\ leave' = [leave EXCEPT ![r] = [leave[r] EXCEPT
              !.status = "approved", !.originalEnd = last, !.effectiveEnd = last]]
<1>1. leave \in [Request -> LeaveRow] /\ leave[r].start \in Nat \ {0}
  BY DEF PeriodInv, TypeOK, RequestsStarted, ApproveLeaveRequest
<1>2. LastOf(leave[r].start, n) \in Nat /\ LastOf(leave[r].start, n) >= leave[r].start
  BY <1>1, LastOfType, DurationType
<1> DEFINE last == LastOf(leave[r].start, n)
<1>3. leave' = [leave EXCEPT ![r] = [leave[r] EXCEPT
        !.status = "approved", !.originalEnd = last, !.effectiveEnd = last]]
  BY <1>1 DEF ApproveLeaveRequest
<1>4. last \in Nat \ {0} /\ leave[r].start <= last
  <2> HIDE DEF last
  <2>1. last \in Nat /\ last >= leave[r].start
    BY <1>2 DEF last
  <2>. QED
    BY <1>1, <2>1
<1>. QED
  BY <1>1, <1>3, <1>4

\* What a force-finish writes.
LEMMA FinishSets ==
  ASSUME PeriodInv, NEW r \in Request, NEW target \in 1 .. LastOf(LastDay, MaxDuration),
         ForceFinishLeaveRequest(r, target)
  PROVE  /\ target \in Nat \ {0}
         /\ leave[r].start <= target /\ target <= leave[r].effectiveEnd
         /\ leave' = [leave EXCEPT ![r] = [leave[r] EXCEPT !.effectiveEnd = target]]
<1>1. /\ target \in Nat \ {0}
      /\ leave \in [Request -> LeaveRow]
      /\ EffectiveEnd(leave[r]) = leave[r].effectiveEnd
      /\ leave[r].originalEnd # NoDay
  BY ApprovedEnd, LastOfType, DaysAssumption DEF PeriodInv, TypeOK, ForceFinishLeaveRequest, NoDay
<1>2. Coalesce(leave[r].originalEnd, leave[r].start) = leave[r].originalEnd
  BY <1>1 DEF Coalesce
<1>3. leave' = [leave EXCEPT ![r] = [leave[r] EXCEPT
                   !.originalEnd = leave[r].originalEnd, !.effectiveEnd = target]]
  BY <1>1, <1>2 DEF ForceFinishLeaveRequest
<1>4. leave[r] = [leave[r] EXCEPT !.originalEnd = leave[r].originalEnd]
  BY <1>1 DEF LeaveRow
<1>. QED
  BY <1>1, <1>3, <1>4 DEF ForceFinishLeaveRequest

\* An approval aside, no transaction grants a leave, moves its first day or
\* puts off its end.
Shrinks(r) ==
  Approved(r)' => /\ Approved(r)
                  /\ leave'[r].student = leave[r].student
                  /\ leave'[r].start = leave[r].start
                  /\ leave'[r].effectiveEnd \in Nat \ {0}
                  /\ leave'[r].effectiveEnd <= leave[r].effectiveEnd

\* No transaction but an approval makes a period longer or a request approved:
\* force-finish, rejection, reopening and deletion only shrink.
LEMMA OnlyApprovalExtends ==
  ASSUME PeriodInv, Transaction
  PROVE  \/ \E r \in Request, n \in 1 .. MaxDuration : ApproveLeaveRequest(r, n)
         \/ \A r \in Request : Shrinks(r)
<1>1. leave \in [Request -> LeaveRow]
  BY DEF PeriodInv, TypeOK
<1>2. ASSUME UNCHANGED leave
      PROVE  \A r \in Request : Shrinks(r)
  BY <1>2, ApprovedEnd DEF Shrinks, Approved
<1>3. ASSUME NEW r \in Request, NEW target \in 1 .. LastOf(LastDay, MaxDuration),
             ForceFinishLeaveRequest(r, target)
      PROVE  \A q \in Request : Shrinks(q)
  <2>1. Approved(r)
    BY <1>3 DEF ForceFinishLeaveRequest
  <2>. QED
    BY <1>1, <1>3, <2>1, FinishSets, ApprovedEnd DEF Shrinks, Approved, LeaveRow
<1>4. ASSUME NEW r \in Request, leave' = [leave EXCEPT ![r] = leave'[r]],
             leave'[r].status # "approved"
      PROVE  \A q \in Request : Shrinks(q)
  BY <1>1, <1>4, ApprovedEnd DEF Shrinks, Approved
<1>5. ASSUME NEW r \in Request, NEW d \in Day, CreateLeaveRequest(r, d)
      PROVE  \A q \in Request : Shrinks(q)
  BY <1>1, <1>4, <1>5 DEF CreateLeaveRequest, LeaveRow
<1>6. ASSUME NEW r \in Request, RejectLeaveRequest(r) \/ ReopenLeaveRequest(r)
      PROVE  \A q \in Request : Shrinks(q)
  BY <1>1, <1>4, <1>6 DEF RejectLeaveRequest, ReopenLeaveRequest, SetDecision, LeaveRow
<1>7. ASSUME NEW r \in Request, DeleteLeaveRequest(r)
      PROVE  \A q \in Request : Shrinks(q)
  BY <1>1, <1>4, <1>7 DEF DeleteLeaveRequest, LeaveRow
<1>8. ASSUME AttendanceTransaction \/ AuditTransaction
      PROVE  UNCHANGED leave
  BY <1>8 DEF AttendanceTransaction, AuditTransaction, SaveAttendanceRecord,
              CreateManualAttendance, RecordAttendanceAttempt, DeleteAttendances, InsertAuditLog
<1>. QED
  BY <1>2, <1>3, <1>5, <1>6, <1>7, <1>8 DEF Transaction, LeaveTransaction
\* The periods of requests stay well formed.
LEMMA PeriodStep ==
  ASSUME PeriodInv, Transaction, UNCHANGED today
  PROVE  PeriodInv'
<1>1. leave \in [Request -> LeaveRow] /\ leave' \in [Request -> LeaveRow] /\ TypeOK'
  BY TransactionType DEF PeriodInv, TypeOK
<1> DEFINE Fine(r) ==
      /\ leave[r].status # "unused" => leave[r].start \in Nat \ {0}
      /\ leave[r].status \in {"unused", "pending", "rejected"}
           => leave[r].originalEnd = NoDay /\ leave[r].effectiveEnd = NoDay
      /\ leave[r].status = "approved"
           => /\ leave[r].start <= leave[r].effectiveEnd
              /\ leave[r].effectiveEnd <= leave[r].originalEnd
<1>2. \A r \in Request : Fine(r)
  BY DEF PeriodInv, RequestsStarted, PeriodsWellFormed, Approved
<1>3. SUFFICES \A r \in Request : Fine(r)'
  BY <1>1 DEF PeriodInv, RequestsStarted, PeriodsWellFormed, Approved
<1>4. ASSUME NEW r \in Request, leave' = [leave EXCEPT ![r] = leave'[r]], Fine(r)'
      PROVE  \A q \in Request : Fine(q)'
  BY <1>1, <1>2, <1>4
<1>5. ASSUME NEW r \in Request, NEW d \in Day, CreateLeaveRequest(r, d)
      PROVE  \A q \in Request : Fine(q)'
  <2>1. d \in Nat \ {0}
    BY DEF Day
  <2>2. leave' = [leave EXCEPT ![r] = [leave[r] EXCEPT !.status = "pending", !.start = d]]
    BY <1>1, <1>5 DEF CreateLeaveRequest
  <2>. QED
    BY <1>1, <1>2, <1>4, <1>5, <2>1, <2>2 DEF CreateLeaveRequest, LeaveRow
<1>6. ASSUME NEW r \in Request, NEW n \in 1 .. MaxDuration, ApproveLeaveRequest(r, n)
      PROVE  \A q \in Request : Fine(q)'
  <2> DEFINE last == LastOf(leave[r].start, n)
  <2>1. /\ last \in Nat \ {0} /\ leave[r].start \in Nat \ {0} /\ leave[r].start <= last
        /\ leave' = [leave EXCEPT ![r] = [leave[r] EXCEPT
             !.status = "approved", !.originalEnd = last, !.effectiveEnd = last]]
    BY <1>6, ApprovalSets
  <2> HIDE DEF last
  <2>2. /\ leave'[r].status = "approved" /\ leave'[r].start = leave[r].start
        /\ leave'[r].originalEnd = last /\ leave'[r].effectiveEnd = last
        /\ leave' = [leave EXCEPT ![r] = leave'[r]]
    BY <1>1, <2>1 DEF LeaveRow
  <2>3. Fine(r)'
    BY <2>1, <2>2
  <2>. QED
    BY <1>4, <2>2, <2>3
<1>7. ASSUME NEW r \in Request, NEW target \in 1 .. LastOf(LastDay, MaxDuration),
             ForceFinishLeaveRequest(r, target)
      PROVE  \A q \in Request : Fine(q)'
  <2>1. /\ leave[r].status = "approved"
        /\ target \in Nat \ {0} /\ leave[r].start <= target
        /\ leave[r].effectiveEnd \in Nat /\ target <= leave[r].effectiveEnd
        /\ leave[r].originalEnd \in Nat /\ leave[r].start \in Nat \ {0}
        /\ leave' = [leave EXCEPT ![r] = [leave[r] EXCEPT !.effectiveEnd = target]]
    BY <1>7, FinishSets, ApprovedEnd DEF ForceFinishLeaveRequest, Approved
  <2>2. /\ leave'[r].status = "approved" /\ leave'[r].start = leave[r].start
        /\ leave'[r].originalEnd = leave[r].originalEnd /\ leave'[r].effectiveEnd = target
        /\ leave' = [leave EXCEPT ![r] = leave'[r]]
    BY <1>1, <2>1 DEF LeaveRow
  <2>3. leave[r].effectiveEnd <= leave[r].originalEnd
    BY <1>2, <2>1
  <2>4. Fine(r)'
    BY <2>1, <2>2, <2>3
  <2>. QED
    BY <1>4, <2>2, <2>4
<1>8. ASSUME NEW r \in Request, RejectLeaveRequest(r) \/ ReopenLeaveRequest(r)
      PROVE  \A q \in Request : Fine(q)'
  <2>1. /\ leave' = [leave EXCEPT ![r] = leave'[r]]
        /\ leave[r].status # "unused"
        /\ \E status \in {"rejected", "pending"} :
             leave'[r] = [leave[r] EXCEPT !.status = status,
                            !.originalEnd = NoDay, !.effectiveEnd = NoDay]
    BY <1>1, <1>8 DEF RejectLeaveRequest, ReopenLeaveRequest, SetDecision, LiveRequest
  <2>2. leave[r] \in LeaveRow
    BY <1>1
  <2>3. /\ leave'[r].status \in {"rejected", "pending"} /\ leave'[r].start = leave[r].start
        /\ leave'[r].originalEnd = NoDay /\ leave'[r].effectiveEnd = NoDay
    BY <2>1, <2>2 DEF LeaveRow
  <2>4. Fine(r)'
    BY <1>2, <2>1, <2>3
  <2>. QED
    BY <1>4, <2>1, <2>4
<1>9. ASSUME NEW r \in Request, DeleteLeaveRequest(r)
      PROVE  \A q \in Request : Fine(q)'
  BY <1>1, <1>2, <1>4, <1>9 DEF DeleteLeaveRequest, LiveRequest, LeaveRow
<1>10. ASSUME AttendanceTransaction \/ AuditTransaction
       PROVE  \A q \in Request : Fine(q)'
  <2>1. UNCHANGED leave
    BY <1>10 DEF AttendanceTransaction, AuditTransaction, SaveAttendanceRecord,
                 CreateManualAttendance, RecordAttendanceAttempt, DeleteAttendances, InsertAuditLog
  <2>. QED
    BY <1>2, <2>1
<1>. QED
  BY <1>5, <1>6, <1>7, <1>8, <1>9, <1>10 DEF Transaction, LeaveTransaction

\* Approved periods of a student stay disjoint: an approval compares its period
\* with every other approved one of the student, and no other step extends one.
LEMMA OverlapStep ==
  ASSUME PeriodInv, NoLeaveOverlap, Transaction, UNCHANGED today
  PROVE  NoLeaveOverlap'
<1>1. leave \in [Request -> LeaveRow] /\ PeriodInv'
  BY PeriodStep DEF PeriodInv, TypeOK
<1>2. CASE \A r \in Request : Shrinks(r)
  <2>1. SUFFICES ASSUME NEW r \in Request, NEW q \in Request, r # q,
                        Approved(r)', Approved(q)', leave'[r].student = leave'[q].student
                 PROVE  ~(Overlaps(leave[q], leave[r].start, EffectiveEnd(leave[r])))'
    BY DEF NoLeaveOverlap
  <2>2. /\ EffectiveEnd(leave'[r]) = leave'[r].effectiveEnd
        /\ EffectiveEnd(leave'[q]) = leave'[q].effectiveEnd
    BY <1>2, <2>1, EndOfRow DEF Shrinks, NoDay
  <2>3. /\ EffectiveEnd(leave[r]) = leave[r].effectiveEnd
        /\ EffectiveEnd(leave[q]) = leave[q].effectiveEnd
        /\ leave[r].start \in Nat /\ leave[q].start \in Nat
        /\ leave[r].effectiveEnd \in Nat /\ leave[q].effectiveEnd \in Nat
    BY <1>2, <2>1, ApprovedEnd DEF Shrinks
  <2>4. ~Overlaps(leave[q], leave[r].start, EffectiveEnd(leave[r]))
    BY <1>2, <2>1 DEF NoLeaveOverlap, Shrinks
  <2>. QED
    BY <1>2, <2>1, <2>2, <2>3, <2>4 DEF Overlaps, Shrinks
<1>3. ASSUME NEW a \in Request, NEW n \in 1 .. MaxDuration, ApproveLeaveRequest(a, n)
      PROVE  NoLeaveOverlap'
  <2> DEFINE last == LastOf(leave[a].start, n)
  <2>1. /\ last \in Nat \ {0} /\ leave[a].start \in Nat \ {0} /\ leave[a].start <= last
        /\ leave' = [leave EXCEPT ![a] = [leave[a] EXCEPT
             !.status = "approved", !.originalEnd = last, !.effectiveEnd = last]]
    BY <1>3, ApprovalSets
  <2>2. \A q \in Request \ {a} :
          Approved(q) /\ leave[q].student = leave[a].student
            => ~Overlaps(leave[q], leave[a].start, last)
    BY <1>3 DEF ApproveLeaveRequest, FreeOfLeave, RequestsOf
  <2> HIDE DEF last
  <2>3. /\ leave'[a].start = leave[a].start /\ leave'[a].student = leave[a].student
        /\ leave'[a].effectiveEnd = last
        /\ \A q \in Request \ {a} : leave'[q] = leave[q]
    BY <1>1, <2>1 DEF LeaveRow
  <2>4. EffectiveEnd(leave'[a]) = last
    BY <2>1, <2>3, EndOfRow DEF NoDay
  <2>5. SUFFICES ASSUME NEW r \in Request, NEW q \in Request, r # q,
                        Approved(r)', Approved(q)', leave'[r].student = leave'[q].student
                 PROVE  ~Overlaps(leave'[q], leave'[r].start, EffectiveEnd(leave'[r]))
    BY DEF NoLeaveOverlap
  <2>6. CASE r # a /\ q # a
    BY <2>3, <2>5, <2>6 DEF NoLeaveOverlap, Approved
  <2>7. CASE r = a
    BY <2>2, <2>3, <2>4, <2>5, <2>7 DEF Approved
  <2>8. CASE q = a
    <3>1. /\ Approved(r) /\ leave'[r] = leave[r]
          /\ ~Overlaps(leave[r], leave[a].start, last)
      BY <2>2, <2>3, <2>5, <2>8 DEF Approved
    <3>2. leave[r].start \in Nat /\ EffectiveEnd(leave[r]) \in Nat
      BY <3>1, ApprovedEnd
    <3>. QED
      BY <2>1, <2>3, <2>4, <2>8, <3>1, <3>2 DEF Overlaps
  <2>. QED
    BY <2>6, <2>7, <2>8
<1>. QED
  BY <1>2, <1>3, OnlyApprovalExtends
\* The two ways a transaction writes attendances: one new row, or rows deleted.
Inserts(w, s, d, a, status) ==
  /\ InsertAttendance(w, s, d, a, status)
  /\ attendance'[w].student = s /\ attendance'[w].day = d
  /\ attendance'[w].action = a /\ attendance'[w].status = status
  /\ \A x \in Row \ {w} : attendance'[x] = attendance[x]

Strikes ==
  \A w \in Row : \/ attendance'[w] = attendance[w]
                 \/ /\ LiveRow(w)
                    /\ attendance'[w] = [attendance[w] EXCEPT !.status = "deleted"]

\* An attendance transaction inserts one row or strikes rows out, and leaves the
\* leave requests alone.
LEMMA AttendanceWrites ==
  ASSUME TypeOK, AttendanceTransaction \/ AuditTransaction
  PROVE  /\ UNCHANGED leave
         /\ \/ \E w \in Row, s \in Student, d \in Day, a \in Action,
                  status \in AttendanceStatus : Inserts(w, s, d, a, status)
            \/ Strikes
<1>1. attendance \in [Row -> AttendanceRow]
  BY DEF TypeOK
<1>2. ASSUME NEW w \in Row, NEW s \in Student, NEW d \in Day, NEW a \in Action,
             NEW status \in AttendanceStatus, InsertAttendance(w, s, d, a, status)
      PROVE  Inserts(w, s, d, a, status)
  <2>1. attendance' = [attendance EXCEPT ![w] =
          [attendance[w] EXCEPT !.day = d, !.action = a, !.status = status]]
    BY <1>1, <1>2 DEF InsertAttendance
  <2>2. attendance[w] \in AttendanceRow /\ attendance[w].student = s
    BY <1>1, <1>2 DEF InsertAttendance
  <2>. QED
    BY <1>1, <1>2, <2>1, <2>2 DEF Inserts, AttendanceRow
<1>3. ASSUME NEW ids \in SUBSET Row, DeleteAttendances(ids)
      PROVE  Strikes
  BY <1>1, <1>3 DEF DeleteAttendances, Strikes
<1>4. ASSUME UNCHANGED attendance
      PROVE  Strikes
  BY <1>1, <1>4 DEF Strikes
<1>5. ASSUME NEW w \in Row, NEW t \in Attempt, NEW s \in Student, NEW d \in Day, NEW a \in Action,
             SaveAttendanceRecord(w, t, s, d, a)
      PROVE  /\ UNCHANGED leave
             /\ \E status \in AttendanceStatus : InsertAttendance(w, s, d, a, status)
  BY <1>5 DEF SaveAttendanceRecord, AttendanceStatus
<1>6. ASSUME NEW w \in Row, NEW t \in Attempt, NEW s \in Student, NEW d \in Day, NEW a \in Action,
             NEW status \in AttendanceStatus, CreateManualAttendance(w, t, s, d, a, status)
      PROVE  UNCHANGED leave /\ InsertAttendance(w, s, d, a, status)
  BY <1>6 DEF CreateManualAttendance
<1>7. ASSUME NEW t \in Attempt, NEW s \in Student, NEW a \in Action,
             NEW status \in {"failed", "error"}, RecordAttendanceAttempt(t, s, a, status)
      PROVE  UNCHANGED <<leave, attendance>>
  BY <1>7 DEF RecordAttendanceAttempt
<1>8. ASSUME AuditTransaction
      PROVE  UNCHANGED <<leave, attendance>>
  BY <1>8 DEF AuditTransaction, InsertAuditLog
<1>9. ASSUME NEW ids \in SUBSET Row, DeleteAttendances(ids)
      PROVE  UNCHANGED leave
  BY <1>9 DEF DeleteAttendances
<1>10. CASE AuditTransaction
  BY <1>4, <1>8, <1>10
<1>11. CASE AttendanceTransaction
  <2>1. CASE \E w \in Row, t \in Attempt, s \in Student, d \in Day, a \in Action :
               \/ SaveAttendanceRecord(w, t, s, d, a)
               \/ \E status \in AttendanceStatus : CreateManualAttendance(w, t, s, d, a, status)
    BY <1>2, <1>5, <1>6, <2>1
  <2>2. CASE \E t \in Attempt, s \in Student, a \in Action, status \in {"failed", "error"} :
               RecordAttendanceAttempt(t, s, a, status)
    BY <1>4, <1>7, <2>2
  <2>3. CASE \E ids \in SUBSET Row : DeleteAttendances(ids)
    BY <1>3, <1>9, <2>3
  <2>. QED
    BY <1>11, <2>1, <2>2, <2>3 DEF AttendanceTransaction
<1>. QED
  BY <1>10, <1>11

\* A leave transaction leaves the attendances alone.
LEMMA LeaveWrites ==
  ASSUME LeaveTransaction
  PROVE  UNCHANGED attendance
BY DEF LeaveTransaction, CreateLeaveRequest, ApproveLeaveRequest, RejectLeaveRequest,
       ReopenLeaveRequest, SetDecision, ForceFinishLeaveRequest, DeleteLeaveRequest

\* Presence and leave stay apart: the insert of a row looks for a leave that
\* covers the day, and an approval looks for rows within the period.
LEMMA PresenceStep ==
  ASSUME PeriodInv, NoPresenceOnLeave, Transaction, UNCHANGED today
  PROVE  NoPresenceOnLeave'
<1>1. /\ leave \in [Request -> LeaveRow] /\ attendance \in [Row -> AttendanceRow]
      /\ \A w \in Row : attendance[w].day \in Nat
  BY DEF PeriodInv, TypeOK, AttendanceRow
<1>2. CASE AttendanceTransaction \/ AuditTransaction
  <2>1. UNCHANGED leave
    BY <1>2, AttendanceWrites DEF PeriodInv
  <2>2. ASSUME NEW w \in Row, NEW s \in Student, NEW d \in Day, NEW a \in Action,
               NEW status \in AttendanceStatus, Inserts(w, s, d, a, status)
        PROVE  NoPresenceOnLeave'
    <3>1. ~OnLeave(s, d)
      BY <2>2 DEF Inserts, InsertAttendance
    <3>. QED
      BY <2>1, <2>2, <3>1 DEF Inserts, OnLeave, RequestsOf, NoPresenceOnLeave, Approved
  <2>3. ASSUME Strikes
        PROVE  NoPresenceOnLeave'
    <3>1. \A w \in Row : attendance'[w].status \in Present => attendance'[w] = attendance[w]
      BY <1>1, <2>3 DEF Strikes, Present, AttendanceRow
    <3>. QED
      BY <2>1, <3>1 DEF NoPresenceOnLeave, Approved
  <2>. QED
    BY <1>2, <2>2, <2>3, AttendanceWrites DEF PeriodInv
<1>3. CASE LeaveTransaction
  <2>1. UNCHANGED attendance
    BY <1>3, LeaveWrites
  <2>2. CASE \A r \in Request : Shrinks(r)
    <3>1. SUFFICES ASSUME NEW w \in Row, NEW r \in Request,
                          attendance[w].status \in Present, Approved(r)',
                          attendance[w].student = leave'[r].student
                   PROVE  ~Covers(leave'[r], attendance[w].day)
      BY <2>1 DEF NoPresenceOnLeave
    <3>2. /\ Approved(r) /\ ~Covers(leave[r], attendance[w].day)
          /\ leave'[r].start = leave[r].start
          /\ leave'[r].effectiveEnd <= leave[r].effectiveEnd
          /\ leave'[r].effectiveEnd \in Nat \ {0}
      BY <2>2, <3>1 DEF Shrinks, NoPresenceOnLeave
    <3>3. /\ EffectiveEnd(leave[r]) = leave[r].effectiveEnd
          /\ leave[r].effectiveEnd \in Nat
          /\ EffectiveEnd(leave'[r]) = leave'[r].effectiveEnd
      BY <3>2, ApprovedEnd, EndOfRow DEF NoDay
    <3>. QED
      BY <1>1, <3>2, <3>3 DEF Covers
  <2>3. ASSUME NEW a \in Request, NEW n \in 1 .. MaxDuration, ApproveLeaveRequest(a, n)
        PROVE  NoPresenceOnLeave'
    <3> DEFINE last == LastOf(leave[a].start, n)
    <3>1. /\ last \in Nat \ {0} /\ leave[a].start \in Nat \ {0}
          /\ leave' = [leave EXCEPT ![a] = [leave[a] EXCEPT
               !.status = "approved", !.originalEnd = last, !.effectiveEnd = last]]
      BY <2>3, ApprovalSets
    <3>2. \A w \in Row : attendance[w].student = leave[a].student /\ attendance[w].status \in Present
                           => attendance[w].day < leave[a].start \/ attendance[w].day > last
      BY <2>3 DEF ApproveLeaveRequest, FreeOfPresence
    <3> HIDE DEF last
    <3>3. /\ leave'[a].start = leave[a].start /\ leave'[a].student = leave[a].student
          /\ leave'[a].effectiveEnd = last
          /\ \A q \in Request \ {a} : leave'[q] = leave[q]
      BY <1>1, <3>1 DEF LeaveRow
    <3>4. EffectiveEnd(leave'[a]) = last
      BY <3>1, <3>3, EndOfRow DEF NoDay
    <3>5. \A w \in Row : attendance[w].student = leave[a].student /\ attendance[w].status \in Present
                           => ~Covers(leave'[a], attendance[w].day)
      BY <1>1, <3>1, <3>2, <3>3, <3>4 DEF Covers
    <3>. QED
      BY <2>1, <3>3, <3>5 DEF NoPresenceOnLeave, Approved
  <2>. QED
    BY <2>2, <2>3, OnlyApprovalExtends DEF Transaction
<1>. QED
  BY <1>2, <1>3 DEF Transaction
\* One row of each action a day: the insert finds no row of its action.
LEMMA OneRowStep ==
  ASSUME TypeOK, OneRowPerAction, Transaction, UNCHANGED today
  PROVE  OneRowPerAction'
<1>1. attendance \in [Row -> AttendanceRow]
  BY DEF TypeOK
<1>2. ASSUME NEW w \in Row, NEW s \in Student, NEW d \in Day, NEW a \in Action,
             NEW status \in AttendanceStatus, Inserts(w, s, d, a, status)
      PROVE  OneRowPerAction'
  <2>1. \A x \in Row : LiveRow(x) /\ attendance[x].student = s /\ attendance[x].day = d
                         => attendance[x].action # a
    BY <1>2 DEF Inserts, InsertAttendance, CanRecordAttendanceAction, CheckedIn, CheckedOut,
                RowsOf, MarksIn, MarksOut, Action
  <2>. QED
    BY <1>2, <2>1 DEF Inserts, OneRowPerAction, LiveRow
<1>3. ASSUME Strikes
      PROVE  OneRowPerAction'
  <2>1. \A w \in Row : LiveRow(w)' => attendance'[w] = attendance[w]
    BY <1>1, <1>3 DEF Strikes, LiveRow, AttendanceStatus, AttendanceRow
  <2>. QED
    BY <2>1 DEF OneRowPerAction, LiveRow
<1>4. ASSUME UNCHANGED attendance
      PROVE  Strikes
  BY <1>1, <1>4 DEF Strikes
<1>. QED
  BY <1>2, <1>3, <1>4, AttendanceWrites, LeaveWrites DEF Transaction

\* A check-out follows a check-in: rows are struck but never forgotten, and the
\* insert of a check-out finds a row that marks the student in.
LEMMA CheckOutStep ==
  ASSUME TypeOK, CheckOutFollowsCheckIn, Transaction, UNCHANGED today
  PROVE  CheckOutFollowsCheckIn'
<1>1. attendance \in [Row -> AttendanceRow]
  BY DEF TypeOK
<1> DEFINE Was(x) == attendance[x].status # "unused"
<1>2. ASSUME NEW w \in Row, NEW s \in Student, NEW d \in Day, NEW a \in Action,
             NEW status \in AttendanceStatus, Inserts(w, s, d, a, status)
      PROVE  CheckOutFollowsCheckIn'
  <2>1. ASSUME a = "check_out"
        PROVE  \E x \in Row \ {w} : /\ Was(x) /\ attendance[x].action = "check_in"
                                    /\ attendance[x].student = s /\ attendance[x].day = d
    <3>1. PICK y \in Row : LiveRow(y) /\ attendance[y].student = s /\ attendance[y].day = d
      BY <1>2, <2>1 DEF Inserts, InsertAttendance, CanRecordAttendanceAction, CheckedIn, RowsOf
    <3>2. Was(y) /\ attendance[y].action \in {"check_in", "check_out"}
      BY <1>1, <3>1 DEF LiveRow, AttendanceStatus, AttendanceRow, Action
    <3>3. attendance[w].status = "unused"
      BY <1>2 DEF Inserts, InsertAttendance
    <3>. QED
      BY <3>1, <3>2, <3>3 DEF CheckOutFollowsCheckIn
  <2>2. \A x \in Row : Was(x) => x # w /\ attendance'[x] = attendance[x]
    BY <1>2 DEF Inserts, InsertAttendance
  <2>3. SUFFICES ASSUME NEW v \in Row, attendance'[v].status # "unused",
                        attendance'[v].action = "check_out"
                 PROVE  \E x \in Row : /\ attendance'[x].status # "unused"
                                       /\ attendance'[x].action = "check_in"
                                       /\ attendance'[x].student = attendance'[v].student
                                       /\ attendance'[x].day = attendance'[v].day
    BY DEF CheckOutFollowsCheckIn
  <2>4. CASE v = w
    BY <1>2, <2>1, <2>2, <2>3, <2>4 DEF Inserts
  <2>5. CASE v # w
    <3>1. attendance'[v] = attendance[v]
      BY <1>2, <2>5 DEF Inserts
    <3>. QED
      BY <2>2, <2>3, <3>1 DEF CheckOutFollowsCheckIn
  <2>. QED
    BY <2>4, <2>5
<1>3. ASSUME Strikes
      PROVE  CheckOutFollowsCheckIn'
  <2>1. \A w \in Row : /\ attendance'[w].action = attendance[w].action
                       /\ attendance'[w].student = attendance[w].student
                       /\ attendance'[w].day = attendance[w].day
                       /\ attendance'[w].status # "unused" <=> Was(w)
    BY <1>1, <1>3, ZenonT(60) DEF Strikes, LiveRow, AttendanceStatus, AttendanceRow
  <2>. QED
    BY <2>1 DEF CheckOutFollowsCheckIn
<1>4. ASSUME UNCHANGED attendance
      PROVE  Strikes
  BY <1>1, <1>4 DEF Strikes
<1>. QED
  BY <1>2, <1>3, <1>4, AttendanceWrites, LeaveWrites DEF Transaction

-----------------------------------------------------------------------------
\* The audit trail of an unused request is empty.
TrailInv == /\ TypeOK /\ AuditExplainsLeave
            /\ \A r \in Request : leave[r].status = "unused" => decisions[r] = <<>>

\* The condition of AuditExplainsLeave on one request.
Explained(lr, trail) ==
  LET last == trail[Len(trail)] IN
  lr.status \in {"pending", "approved", "rejected"} =>
    \/ trail = <<>> /\ lr.status = "pending"
    \/ /\ trail # <<>>
       /\ \/ last.action \in {"approve", "finish"} /\ lr.status = "approved"
                                               /\ lr.effectiveEnd = last.until
          \/ last.action = "reject" /\ lr.status = "rejected"
          \/ last.action = "reopen" /\ lr.status = "pending"

\* The trail stays the explanation of the row: every decision writes both.
LEMMA TrailStep ==
  ASSUME PeriodInv, TrailInv, Transaction, UNCHANGED today
  PROVE  TrailInv'
<1>1. leave \in [Request -> LeaveRow] /\ decisions \in [Request -> Seq(Decision)]
  BY DEF TrailInv, TypeOK
<1> DEFINE Fine(r) == /\ Explained(leave[r], decisions[r])
                      /\ leave[r].status = "unused" => decisions[r] = <<>>
<1>2. \A r \in Request : Fine(r)
  BY DEF TrailInv, AuditExplainsLeave, Explained, LiveRequest, Approved
<1>3. SUFFICES \A r \in Request : Fine(r)'
  BY TransactionType DEF TrailInv, AuditExplainsLeave, Explained, LiveRequest, Approved
<1>4. ASSUME NEW r \in Request, Fine(r)',
             \A q \in Request \ {r} : leave'[q] = leave[q] /\ decisions'[q] = decisions[q]
      PROVE  \A q \in Request : Fine(q)'
  <2>1. ASSUME NEW q \in Request, q # r
        PROVE  Fine(q)'
    <3>1. leave'[q] = leave[q] /\ decisions'[q] = decisions[q] /\ Fine(q)
      BY <1>2, <1>4, <2>1
    <3>. QED
      BY <3>1 DEF Explained
  <2>. QED
    BY <1>4, <2>1
\* A decision that is appended is the last one.
<1>5. ASSUME NEW r \in Request, NEW action \in DecisionAction, NEW until \in Nat,
             Decide(r, action, until)
      PROVE  LET trail == decisions'[r] IN
             /\ trail # <<>>
             /\ trail[Len(trail)].action = action /\ trail[Len(trail)].until = until
             /\ \A q \in Request \ {r} : decisions'[q] = decisions[q]
  <2> DEFINE d == [action |-> action, until |-> until]
  <2>1. d \in Decision /\ decisions[r] \in Seq(Decision)
    BY <1>1 DEF Decision
  <2>2. decisions'[r] = Append(decisions[r], d)
        /\ \A q \in Request \ {r} : decisions'[q] = decisions[q]
    BY <1>1, <1>5 DEF Decide
  <2>3. /\ Len(Append(decisions[r], d)) = Len(decisions[r]) + 1
        /\ Append(decisions[r], d)[Len(decisions[r]) + 1] = d
        /\ Append(decisions[r], d) # <<>>
    BY <2>1
  <2>. QED
    BY <2>2, <2>3
<1>6. ASSUME NEW r \in Request, NEW d \in Day, CreateLeaveRequest(r, d)
      PROVE  \A q \in Request : Fine(q)'
  <2>1. /\ leave' = [leave EXCEPT ![r] = [leave[r] EXCEPT !.status = "pending", !.start = d]]
        /\ decisions' = decisions /\ leave[r].status = "unused"
    BY <1>1, <1>6 DEF CreateLeaveRequest
  <2>2. leave'[r].status = "pending" /\ \A q \in Request \ {r} : leave'[q] = leave[q]
    BY <1>1, <2>1 DEF LeaveRow
  <2>3. decisions'[r] = <<>>
    BY <1>2, <2>1
  <2>4. Fine(r)'
    BY <2>2, <2>3 DEF Explained
  <2>. QED
    BY <1>4, <2>1, <2>2, <2>4
<1>7. ASSUME NEW r \in Request, NEW n \in 1 .. MaxDuration, ApproveLeaveRequest(r, n)
      PROVE  \A q \in Request : Fine(q)'
  <2> DEFINE last == LastOf(leave[r].start, n)
  <2>1. /\ last \in Nat
        /\ leave' = [leave EXCEPT ![r] = [leave[r] EXCEPT
             !.status = "approved", !.originalEnd = last, !.effectiveEnd = last]]
    BY <1>7, ApprovalSets
  <2>2. Decide(r, "approve", last)
    BY <1>7 DEF ApproveLeaveRequest
  <2> HIDE DEF last
  <2>3. /\ leave'[r].status = "approved" /\ leave'[r].effectiveEnd = last
        /\ \A q \in Request \ {r} : leave'[q] = leave[q]
    BY <1>1, <2>1 DEF LeaveRow
  <2>4. LET trail == decisions'[r] IN
        /\ trail # <<>>
        /\ trail[Len(trail)].action = "approve" /\ trail[Len(trail)].until = last
        /\ \A q \in Request \ {r} : decisions'[q] = decisions[q]
    BY <1>5, <2>1, <2>2 DEF DecisionAction
  <2>5. Fine(r)'
    BY <2>3, <2>4 DEF Explained
  <2>. QED
    BY <1>4, <2>3, <2>4, <2>5
<1>8. ASSUME NEW r \in Request, RejectLeaveRequest(r)
      PROVE  \A q \in Request : Fine(q)'
  <2>1. /\ leave'[r].status = "rejected" /\ \A q \in Request \ {r} : leave'[q] = leave[q]
        /\ Decide(r, "reject", NoDay)
    BY <1>1, <1>8 DEF RejectLeaveRequest, SetDecision, LeaveRow
  <2>2. LET trail == decisions'[r] IN
        /\ trail # <<>> /\ trail[Len(trail)].action = "reject"
        /\ \A q \in Request \ {r} : decisions'[q] = decisions[q]
    BY <1>5, <2>1 DEF DecisionAction, NoDay
  <2>3. Fine(r)'
    BY <2>1, <2>2 DEF Explained
  <2>. QED
    BY <1>4, <2>1, <2>2, <2>3
<1>9. ASSUME NEW r \in Request, ReopenLeaveRequest(r)
      PROVE  \A q \in Request : Fine(q)'
  <2>1. /\ leave'[r].status = "pending" /\ \A q \in Request \ {r} : leave'[q] = leave[q]
        /\ Decide(r, "reopen", NoDay)
    BY <1>1, <1>9 DEF ReopenLeaveRequest, SetDecision, LeaveRow
  <2>2. LET trail == decisions'[r] IN
        /\ trail # <<>> /\ trail[Len(trail)].action = "reopen"
        /\ \A q \in Request \ {r} : decisions'[q] = decisions[q]
    BY <1>5, <2>1 DEF DecisionAction, NoDay
  <2>3. Fine(r)'
    BY <2>1, <2>2 DEF Explained
  <2>. QED
    BY <1>4, <2>1, <2>2, <2>3
<1>10. ASSUME NEW r \in Request, NEW target \in 1 .. LastOf(LastDay, MaxDuration),
              ForceFinishLeaveRequest(r, target)
       PROVE  \A q \in Request : Fine(q)'
  <2>1. /\ target \in Nat /\ leave[r].status = "approved"
        /\ leave' = [leave EXCEPT ![r] = [leave[r] EXCEPT !.effectiveEnd = target]]
        /\ Decide(r, "finish", target)
    BY <1>10, FinishSets DEF ForceFinishLeaveRequest, Approved
  <2>2. /\ leave'[r].status = "approved" /\ leave'[r].effectiveEnd = target
        /\ \A q \in Request \ {r} : leave'[q] = leave[q]
    BY <1>1, <2>1 DEF LeaveRow
  <2>3. LET trail == decisions'[r] IN
        /\ trail # <<>>
        /\ trail[Len(trail)].action = "finish" /\ trail[Len(trail)].until = target
        /\ \A q \in Request \ {r} : decisions'[q] = decisions[q]
    BY <1>5, <2>1 DEF DecisionAction
  <2>4. Fine(r)'
    BY <2>2, <2>3 DEF Explained
  <2>. QED
    BY <1>4, <2>2, <2>3, <2>4
<1>11. ASSUME NEW r \in Request, DeleteLeaveRequest(r)
       PROVE  \A q \in Request : Fine(q)'
  <2>1. /\ leave'[r].status = "deleted" /\ \A q \in Request \ {r} : leave'[q] = leave[q]
        /\ decisions' = decisions
    BY <1>1, <1>11 DEF DeleteLeaveRequest, LeaveRow
  <2>2. Fine(r)'
    BY <2>1 DEF Explained
  <2>. QED
    BY <1>4, <2>1, <2>2
<1>12. ASSUME AttendanceTransaction \/ AuditTransaction
       PROVE  \A q \in Request : Fine(q)'
  <2>1. UNCHANGED <<leave, decisions>>
    BY <1>12 DEF AttendanceTransaction, AuditTransaction, SaveAttendanceRecord,
                 CreateManualAttendance, RecordAttendanceAttempt, DeleteAttendances, InsertAuditLog
  <2>. QED
    BY <1>2, <2>1 DEF Explained
<1>. QED
  BY <1>6, <1>7, <1>8, <1>9, <1>10, <1>11, <1>12 DEF Transaction, LeaveTransaction
\* A student is told exactly of what was audited: the audit row and the outbox
\* row are written by the same transaction, with keys that never collide.
Told(action) ==
  CASE action = "approve" -> "leave_approved"
    [] action = "reject" -> "leave_rejected"
    [] action = "reopen" -> "leave_reopened"

Telling == {"approve", "reject", "reopen"}

Audited(r, action) == \E i \in DOMAIN decisions[r] : decisions[r][i].action = action

\* OutboxMatchesAudit, one audited kind of decision at a time ...
LEMMA OutboxMatches ==
  OutboxMatchesAudit <=>
    \A r \in Request, action \in Telling : Audited(r, action) <=> <<Told(action), r>> \in outbox
BY DEF OutboxMatchesAudit, Audited, Told, Telling

\* ... and the same of the next state.
LEMMA OutboxMatchesNext ==
  (OutboxMatchesAudit)' <=>
    \A r \in Request, action \in Telling :
      (Audited(r, action))' <=> <<Told(action), r>> \in outbox'
BY DEF OutboxMatchesAudit, Audited, Told, Telling

\* A decision, its audit row and its notification commit together.
LEMMA OutboxStep ==
  ASSUME PeriodInv, OutboxMatchesAudit, Transaction, UNCHANGED today
  PROVE  OutboxMatchesAudit'
<1>1. decisions \in [Request -> Seq(Decision)] /\ leave \in [Request -> LeaveRow]
  BY DEF PeriodInv, TypeOK
<1>2. \A r \in Request, action \in Telling : Audited(r, action) <=> <<Told(action), r>> \in outbox
  BY OutboxMatches
<1>3. SUFFICES \A r \in Request, action \in Telling :
                 (Audited(r, action))' <=> <<Told(action), r>> \in outbox'
  BY OutboxMatchesNext
\* After a decision exactly its own action is newly audited.
<1>4. ASSUME NEW r \in Request, NEW done \in DecisionAction, NEW until \in Nat,
             Decide(r, done, until)
      PROVE  \A q \in Request, action \in Telling :
               (Audited(q, action))' <=> Audited(q, action) \/ (q = r /\ action = done)
  <2> DEFINE d == [action |-> done, until |-> until]
  <2>1. d \in Decision /\ decisions[r] \in Seq(Decision)
    BY <1>1 DEF Decision
  <2>2. decisions'[r] = Append(decisions[r], d)
        /\ \A q \in Request \ {r} : decisions'[q] = decisions[q]
    BY <1>1, <1>4 DEF Decide
  <2>3. /\ DOMAIN decisions'[r] = 1 .. Len(decisions[r]) + 1
        /\ DOMAIN decisions[r] = 1 .. Len(decisions[r])
        /\ Len(decisions[r]) \in Nat
        /\ decisions'[r][Len(decisions[r]) + 1].action = done
        /\ \A i \in 1 .. Len(decisions[r]) :
             decisions'[r][i].action = decisions[r][i].action
    BY <2>1, <2>2
  <2>4. \A action \in Telling : (Audited(r, action))' <=> Audited(r, action) \/ action = done
    <3> SUFFICES ASSUME NEW action \in Telling
                 PROVE  (Audited(r, action))' <=> Audited(r, action) \/ action = done
      OBVIOUS
    <3>1. (Audited(r, action))'
            <=> \E i \in 1 .. Len(decisions[r]) + 1 : decisions'[r][i].action = action
      BY <2>3 DEF Audited
    <3>2. Audited(r, action) <=> \E i \in 1 .. Len(decisions[r]) : decisions[r][i].action = action
      BY <2>3 DEF Audited
    <3>3. \A i : i \in 1 .. Len(decisions[r]) + 1
                   <=> i \in 1 .. Len(decisions[r]) \/ i = Len(decisions[r]) + 1
      BY <2>3
    <3>4. Audited(r, action) => (Audited(r, action))'
      BY <2>3, <3>1, <3>2, <3>3
    <3>5. action = done => (Audited(r, action))'
      BY <2>3, <3>1, <3>3
    <3>6. ASSUME (Audited(r, action))', action # done
          PROVE  Audited(r, action)
      <4>1. PICK i \in 1 .. Len(decisions[r]) + 1 : decisions'[r][i].action = action
        BY <3>1, <3>6
      <4>2. i \in 1 .. Len(decisions[r])
        BY <2>3, <3>3, <3>6, <4>1
      <4>. QED
        BY <2>3, <3>2, <4>1, <4>2
    <3>. QED
      BY <3>4, <3>5, <3>6
  <2>5. \A q \in Request \ {r}, action \in Telling : (Audited(q, action))' <=> Audited(q, action)
    BY <2>2 DEF Audited
  <2>. QED
    BY <2>4, <2>5
<1>5. ASSUME NEW r \in Request, NEW done \in Telling, NEW until \in Nat, 
             Decide(r, done, until), Enqueue(<<Told(done), r>>)
      PROVE  \A q \in Request, action \in Telling :
               (Audited(q, action))' <=> <<Told(action), q>> \in outbox'
  <2>1. \A action \in Telling, q \in Request :
          <<Told(action), q>> = <<Told(done), r>> <=> action = done /\ q = r
    BY DEF Told, Telling
  <2>2. done \in DecisionAction
    BY DEF Telling, DecisionAction
  <2>. QED
    BY <1>2, <1>4, <1>5, <2>1, <2>2 DEF Enqueue
<1>6. ASSUME UNCHANGED decisions,
             \A r \in Request, action \in Telling :
               <<Told(action), r>> \in outbox' <=> <<Told(action), r>> \in outbox
      PROVE  \A q \in Request, action \in Telling :
               (Audited(q, action))' <=> <<Told(action), q>> \in outbox'
  BY <1>2, <1>6 DEF Audited
<1>7. ASSUME NEW r \in Request, NEW n \in 1 .. MaxDuration, ApproveLeaveRequest(r, n)
      PROVE  \A q \in Request, action \in Telling :
               (Audited(q, action))' <=> <<Told(action), q>> \in outbox'
  <2>1. LastOf(leave[r].start, n) \in Nat
    BY <1>7, ApprovalSets
  <2>2. /\ Decide(r, "approve", LastOf(leave[r].start, n))
        /\ Enqueue(<<Told("approve"), r>>)
    BY <1>7 DEF ApproveLeaveRequest, Told
  <2>. QED
    BY <1>5, <2>1, <2>2 DEF Telling
<1>8. ASSUME NEW r \in Request, RejectLeaveRequest(r) \/ ReopenLeaveRequest(r)
      PROVE  \A q \in Request, action \in Telling :
               (Audited(q, action))' <=> <<Told(action), q>> \in outbox'
  <2>1. \E done \in {"reject", "reopen"} :
          Decide(r, done, NoDay) /\ Enqueue(<<Told(done), r>>)
    BY <1>8 DEF RejectLeaveRequest, ReopenLeaveRequest, SetDecision, Told
  <2>. QED
    BY <1>5, <2>1 DEF Telling, NoDay
<1>9. ASSUME NEW r \in Request, NEW target \in 1 .. LastOf(LastDay, MaxDuration),
             ForceFinishLeaveRequest(r, target)
      PROVE  \A q \in Request, action \in Telling :
               (Audited(q, action))' <=> <<Told(action), q>> \in outbox'
  <2>1. target \in Nat /\ Decide(r, "finish", target) /\ outbox' = outbox
    BY <1>9, FinishSets DEF ForceFinishLeaveRequest
  <2>2. "finish" \in DecisionAction /\ "finish" \notin Telling
    BY DEF DecisionAction, Telling
  <2>3. \A q \in Request, action \in Telling :
          (Audited(q, action))' <=> Audited(q, action) \/ (q = r /\ action = "finish")
    BY <1>4, <2>1, <2>2
  <2>4. \A q \in Request, action \in Telling : (Audited(q, action))' <=> Audited(q, action)
    BY <2>2, <2>3
  <2>. QED
    BY <1>2, <2>1, <2>4
<1>10. ASSUME NEW r \in Request, (\E d \in Day : CreateLeaveRequest(r, d)) \/ DeleteLeaveRequest(r)
       PROVE  UNCHANGED <<decisions, outbox>>
  BY <1>10 DEF CreateLeaveRequest, DeleteLeaveRequest
<1>11. ASSUME AttendanceTransaction \/ AuditTransaction
       PROVE  /\ UNCHANGED decisions
              /\ \A r \in Request, action \in Telling :
                   <<Told(action), r>> \in outbox' <=> <<Told(action), r>> \in outbox
  <2>1. UNCHANGED decisions
    BY <1>11 DEF AttendanceTransaction, AuditTransaction, SaveAttendanceRecord,
                 CreateManualAttendance, RecordAttendanceAttempt, DeleteAttendances, InsertAuditLog
  <2>2. outbox' = outbox \/ \E t \in Attempt : Enqueue(<<"manual_attendance", t>>)
    BY <1>11 DEF AttendanceTransaction, AuditTransaction, SaveAttendanceRecord,
                 CreateManualAttendance, RecordAttendanceAttempt, DeleteAttendances, InsertAuditLog
  <2>3. \A r \in Request, action \in Telling, t \in Attempt :
          <<Told(action), r>> # <<"manual_attendance", t>>
    BY DEF Told, Telling
  <2>. QED
    BY <2>1, <2>2, <2>3 DEF Enqueue
<1>. QED
  BY <1>6, <1>7, <1>8, <1>9, <1>10, <1>11 DEF Transaction, LeaveTransaction

-----------------------------------------------------------------------------
(***************************************************************************)
(* The theorems.                                                           *)
(***************************************************************************)
TablesInv ==
  /\ PeriodInv /\ TrailInv
  /\ NoPresenceOnLeave /\ NoLeaveOverlap
  /\ OneRowPerAction /\ CheckOutFollowsCheckIn
  /\ OutboxMatchesAudit

\* Empty tables satisfy the invariant.
LEMMA InitTablesInv == RecordsInit => TablesInv
<1> SUFFICES ASSUME RecordsInit PROVE TablesInv
  OBVIOUS
<1>1. TypeOK
  BY DaysAssumption DEF RecordsInit, TypeOK, LeaveRow, AttendanceRow, AttemptRow, Action, Day, NoDay
<1>2. /\ \A r \in Request : /\ leave[r].status = "unused"
                            /\ leave[r].originalEnd = NoDay /\ leave[r].effectiveEnd = NoDay
                            /\ decisions[r] = <<>>
      /\ \A w \in Row : attendance[w].status = "unused"
      /\ outbox = {}
  BY DEF RecordsInit
<1>3. PeriodInv
  BY <1>1, <1>2 DEF PeriodInv, RequestsStarted, PeriodsWellFormed, Approved
<1>4. TrailInv
  BY <1>1, <1>2 DEF TrailInv, AuditExplainsLeave, LiveRequest
<1>5. NoPresenceOnLeave /\ NoLeaveOverlap
  BY <1>2 DEF NoPresenceOnLeave, NoLeaveOverlap, Approved
<1>6. OneRowPerAction /\ CheckOutFollowsCheckIn
  BY <1>2 DEF OneRowPerAction, CheckOutFollowsCheckIn, LiveRow, AttendanceStatus
<1>7. OutboxMatchesAudit
  BY <1>2 DEF OutboxMatchesAudit
<1>. QED
  BY <1>3, <1>4, <1>5, <1>6, <1>7 DEF TablesInv

\* Every transaction, and midnight, keep it.
LEMMA NextTablesInv ==
  TablesInv /\ [RecordsNext]_<<tables, today>> => TablesInv'
<1> SUFFICES ASSUME TablesInv, [RecordsNext]_<<tables, today>>
             PROVE  TablesInv'
  OBVIOUS
<1>1. CASE Transaction /\ UNCHANGED today
  BY <1>1, PeriodStep, TrailStep, PresenceStep, OverlapStep, OneRowStep, CheckOutStep, OutboxStep
     DEF TablesInv, PeriodInv
<1>2. ASSUME UNCHANGED tables, today' \in Day
      PROVE  TablesInv'
  BY <1>2 DEF tables, TablesInv, PeriodInv, TrailInv, TypeOK, RequestsStarted, PeriodsWellFormed,
              AuditExplainsLeave, NoPresenceOnLeave, NoLeaveOverlap, OneRowPerAction,
              CheckOutFollowsCheckIn, OutboxMatchesAudit, Approved, LiveRequest, LiveRow
<1>3. CASE NextDay /\ UNCHANGED tables
  <2>1. today' \in Day
    <3>1. today \in 1 .. LastDay /\ today < LastDay /\ today' = today + 1
      BY <1>3 DEF TablesInv, PeriodInv, TypeOK, NextDay, Day
    <3>. QED
      BY <3>1, DaysAssumption DEF Day
  <2>. QED
    BY <1>2, <1>3, <2>1
<1>4. CASE UNCHANGED <<tables, today>>
  BY <1>2, <1>4 DEF TablesInv, PeriodInv, TypeOK
<1>. QED
  BY <1>1, <1>3, <1>4 DEF RecordsNext

\* The tables keep their types, under any sequence of transactions.
THEOREM RecordsTyped == RecordsSpec => []TypeOK
<1>1. TablesInv => TypeOK
  BY DEF TablesInv, PeriodInv
<1>. QED
  BY <1>1, InitTablesInv, NextTablesInv, PTL DEF RecordsSpec

\* All the promises of the tables together, under any sequence of transactions
\* of any callers.
THEOREM RecordsSafe == RecordsSpec => []TablesInv
  BY InitTablesInv, NextTablesInv, PTL DEF RecordsSpec

-----------------------------------------------------------------------------
(***************************************************************************)
(* Attendances, attempts and audit rows are counted against each other.    *)
(***************************************************************************)

\* The attendances ever recorded for a student, the attempts that succeeded,
\* and the attendances that administrators recorded.
Recorded(s) == {w \in Row : attendance[w].student = s /\ attendance[w].status # "unused"}
Succeeded(s) == {t \in Attempt : attempt[t].student = s /\ attempt[t].status = "success"}
Manual(s) == {w \in Row : /\ attendance[w].student = s
                          /\ <<"create_manual_attendance", w>> \in notes}

\* The pools of identities may be infinite; what has been drawn from them never
\* is.  A row that is not in use is not audited.
AccountsInv ==
  /\ AttendanceAccountedFor
  /\ \A s \in Student : /\ IsFiniteSet(Recorded(s))
                        /\ IsFiniteSet(Succeeded(s)) /\ IsFiniteSet(Manual(s))
  /\ \A w \in Row : <<"create_manual_attendance", w>> \in notes => attendance[w].status # "unused"

\* Nothing is recorded at first.
LEMMA InitAccounts == RecordsInit => AccountsInv
<1> SUFFICES ASSUME RecordsInit PROVE AccountsInv
  OBVIOUS
<1>1. \A s \in Student : Recorded(s) = {} /\ Succeeded(s) = {} /\ Manual(s) = {}
  BY DEF RecordsInit, Recorded, Succeeded, Manual
<1>2. \A s \in Student : /\ IsFiniteSet(Recorded(s)) /\ Cardinality(Recorded(s)) = 0
                         /\ IsFiniteSet(Succeeded(s)) /\ Cardinality(Succeeded(s)) = 0
                         /\ IsFiniteSet(Manual(s)) /\ Cardinality(Manual(s)) = 0
  BY <1>1, FS_EmptySet
<1>3. notes = {}
  BY DEF RecordsInit
<1>4. \A s \in Student : Cardinality(Recorded(s)) = Cardinality(Succeeded(s)) + Cardinality(Manual(s))
  BY <1>2
<1>5. AttendanceAccountedFor
  BY <1>4 DEF AttendanceAccountedFor, Recorded, Succeeded, Manual
<1>. QED
  BY <1>2, <1>3, <1>5 DEF AccountsInv

\* A step that adds the same elements on both sides keeps the account.
LEMMA AccountsBalance ==
  ASSUME AccountsInv, NEW s \in Student,
         \/ /\ Recorded(s)' = Recorded(s) /\ Succeeded(s)' = Succeeded(s)
            /\ Manual(s)' = Manual(s)
         \/ /\ \E w : w \notin Recorded(s) /\ Recorded(s)' = Recorded(s) \cup {w}
            /\ \/ /\ \E t : t \notin Succeeded(s) /\ Succeeded(s)' = Succeeded(s) \cup {t}
                  /\ Manual(s)' = Manual(s)
               \/ /\ \E w : w \notin Manual(s) /\ Manual(s)' = Manual(s) \cup {w}
                  /\ Succeeded(s)' = Succeeded(s)
  PROVE  /\ IsFiniteSet(Recorded(s)') /\ IsFiniteSet(Succeeded(s)') /\ IsFiniteSet(Manual(s)')
         /\ Cardinality(Recorded(s)') = Cardinality(Succeeded(s)') + Cardinality(Manual(s)')
<1>1. /\ IsFiniteSet(Recorded(s)) /\ IsFiniteSet(Succeeded(s)) /\ IsFiniteSet(Manual(s))
      /\ Cardinality(Recorded(s)) = Cardinality(Succeeded(s)) + Cardinality(Manual(s))
  BY DEF AccountsInv, AttendanceAccountedFor, Recorded, Succeeded, Manual
<1>2. /\ Cardinality(Recorded(s)) \in Nat /\ Cardinality(Succeeded(s)) \in Nat
      /\ Cardinality(Manual(s)) \in Nat
  BY <1>1, FS_CardinalityType
<1>3. ASSUME NEW S, IsFiniteSet(S), NEW x, x \notin S
      PROVE  IsFiniteSet(S \cup {x}) /\ Cardinality(S \cup {x}) = Cardinality(S) + 1
  BY <1>3, FS_AddElement
<1>4. CASE /\ Recorded(s)' = Recorded(s) /\ Succeeded(s)' = Succeeded(s)
           /\ Manual(s)' = Manual(s)
  BY <1>1, <1>4
<1>5. CASE /\ \E w : w \notin Recorded(s) /\ Recorded(s)' = Recorded(s) \cup {w}
           /\ \E t : t \notin Succeeded(s) /\ Succeeded(s)' = Succeeded(s) \cup {t}
           /\ Manual(s)' = Manual(s)
  <2>1. IsFiniteSet(Recorded(s)') /\ Cardinality(Recorded(s)') = Cardinality(Recorded(s)) + 1
    BY <1>1, <1>3, <1>5
  <2>2. IsFiniteSet(Succeeded(s)') /\ Cardinality(Succeeded(s)') = Cardinality(Succeeded(s)) + 1
    BY <1>1, <1>3, <1>5
  <2>. QED
    BY <1>1, <1>2, <1>5, <2>1, <2>2
<1>6. CASE /\ \E w : w \notin Recorded(s) /\ Recorded(s)' = Recorded(s) \cup {w}
           /\ \E w : w \notin Manual(s) /\ Manual(s)' = Manual(s) \cup {w}
           /\ Succeeded(s)' = Succeeded(s)
  <2>1. IsFiniteSet(Recorded(s)') /\ Cardinality(Recorded(s)') = Cardinality(Recorded(s)) + 1
    BY <1>1, <1>3, <1>6
  <2>2. IsFiniteSet(Manual(s)') /\ Cardinality(Manual(s)') = Cardinality(Manual(s)) + 1
    BY <1>1, <1>3, <1>6
  <2>. QED
    BY <1>1, <1>2, <1>6, <2>1, <2>2
<1>. QED
  BY <1>4, <1>5, <1>6

\* Statuses of attendances other than those of a new row never leave "unused",
\* and those of a student's rows never return to it.
LEMMA AccountsStep ==
  ASSUME TypeOK, AccountsInv, [RecordsNext]_<<tables, today>>
  PROVE  AccountsInv'
<1>1. /\ attendance \in [Row -> AttendanceRow] /\ attempt \in [Attempt -> AttemptRow]
      /\ notes \subseteq Note
  BY DEF TypeOK
<1>2. ASSUME \A w \in Row : /\ attendance'[w].student = attendance[w].student
                            /\ attendance'[w].status # "unused" <=> attendance[w].status # "unused"
                            /\ <<"create_manual_attendance", w>> \in notes'
                                 <=> <<"create_manual_attendance", w>> \in notes,
             \A t \in Attempt : /\ attempt'[t].student = attempt[t].student
                                /\ attempt'[t].status = "success" <=> attempt[t].status = "success"
      PROVE  AccountsInv'
  <2>1. \A s \in Student : /\ Recorded(s)' = Recorded(s) /\ Succeeded(s)' = Succeeded(s)
                           /\ Manual(s)' = Manual(s)
    BY <1>2 DEF Recorded, Succeeded, Manual
  <2>2. AttendanceAccountedFor'
    BY <2>1 DEF AccountsInv, AttendanceAccountedFor, Recorded, Succeeded, Manual
  <2>. QED
    BY <1>2, <2>1, <2>2 DEF AccountsInv
<1>3. ASSUME NEW w \in Row, NEW t \in Attempt, NEW s \in Student, NEW d \in Day, NEW a \in Action,
             SaveAttendanceRecord(w, t, s, d, a)
      PROVE  AccountsInv'
  <2>1. /\ attendance[w].status = "unused" /\ attendance[w].student = s
        /\ attendance'[w].status # "unused" /\ attendance'[w].student = s
        /\ \A x \in Row \ {w} : attendance'[x] = attendance[x]
    BY <1>1, <1>3 DEF SaveAttendanceRecord, InsertAttendance, AttendanceRow
  <2>2. /\ attempt[t].status = "unused" /\ attempt[t].student = s
        /\ attempt'[t].status = "success" /\ attempt'[t].student = s
        /\ \A u \in Attempt \ {t} : attempt'[u] = attempt[u]
    BY <1>1, <1>3 DEF SaveAttendanceRecord, InsertAttempt, AttemptRow
  <2>3. notes' = notes
    BY <1>3 DEF SaveAttendanceRecord
  <2>4. /\ w \notin Recorded(s) /\ Recorded(s)' = Recorded(s) \cup {w}
        /\ t \notin Succeeded(s) /\ Succeeded(s)' = Succeeded(s) \cup {t}
        /\ Manual(s)' = Manual(s)
    BY <2>1, <2>2, <2>3 DEF Recorded, Succeeded, Manual
  <2>5. \A q \in Student \ {s} : /\ Recorded(q)' = Recorded(q) /\ Succeeded(q)' = Succeeded(q)
                                 /\ Manual(q)' = Manual(q)
    BY <2>1, <2>2, <2>3 DEF Recorded, Succeeded, Manual
  <2>6. \A q \in Student :
          /\ IsFiniteSet(Recorded(q)') /\ IsFiniteSet(Succeeded(q)') /\ IsFiniteSet(Manual(q)')
          /\ Cardinality(Recorded(q)') = Cardinality(Succeeded(q)') + Cardinality(Manual(q)')
    BY <2>4, <2>5, AccountsBalance
  <2>7. \A x \in Row : <<"create_manual_attendance", x>> \in notes' => attendance'[x].status # "unused"
    BY <2>1, <2>3 DEF AccountsInv
  <2>. QED
    BY <2>6, <2>7 DEF AccountsInv, AttendanceAccountedFor, Recorded, Succeeded, Manual
<1>4. ASSUME NEW w \in Row, NEW t \in Attempt, NEW s \in Student, NEW d \in Day, NEW a \in Action,
             NEW status \in AttendanceStatus, CreateManualAttendance(w, t, s, d, a, status)
      PROVE  AccountsInv'
  <2>1. /\ attendance[w].status = "unused" /\ attendance[w].student = s
        /\ attendance'[w].status # "unused" /\ attendance'[w].student = s
        /\ \A x \in Row \ {w} : attendance'[x] = attendance[x]
    BY <1>1, <1>4 DEF CreateManualAttendance, InsertAttendance, AttendanceRow, AttendanceStatus
  <2>2. attempt' = attempt /\ notes' = notes \cup {<<"create_manual_attendance", w>>}
    BY <1>4 DEF CreateManualAttendance
  <2>3. <<"create_manual_attendance", w>> \notin notes
    BY <2>1 DEF AccountsInv
  <2>4. /\ w \notin Recorded(s) /\ Recorded(s)' = Recorded(s) \cup {w}
        /\ w \notin Manual(s) /\ Manual(s)' = Manual(s) \cup {w}
        /\ Succeeded(s)' = Succeeded(s)
    BY <2>1, <2>2, <2>3 DEF Recorded, Succeeded, Manual
  <2>5. \A q \in Student \ {s} : /\ Recorded(q)' = Recorded(q) /\ Succeeded(q)' = Succeeded(q)
                                 /\ Manual(q)' = Manual(q)
    BY <2>1, <2>2 DEF Recorded, Succeeded, Manual
  <2>6. \A q \in Student :
          /\ IsFiniteSet(Recorded(q)') /\ IsFiniteSet(Succeeded(q)') /\ IsFiniteSet(Manual(q)')
          /\ Cardinality(Recorded(q)') = Cardinality(Succeeded(q)') + Cardinality(Manual(q)')
    BY <2>4, <2>5, AccountsBalance
  <2>7. \A x \in Row : <<"create_manual_attendance", x>> \in notes' => attendance'[x].status # "unused"
    BY <2>1, <2>2 DEF AccountsInv
  <2>. QED
    BY <2>6, <2>7 DEF AccountsInv, AttendanceAccountedFor, Recorded, Succeeded, Manual
<1>5. ASSUME NEW t \in Attempt, NEW s \in Student, NEW a \in Action,
             NEW status \in {"failed", "error"}, RecordAttendanceAttempt(t, s, a, status)
      PROVE  AccountsInv'
  <2>1. \A u \in Attempt : /\ attempt'[u].student = attempt[u].student
                           /\ attempt'[u].status = "success" <=> attempt[u].status = "success"
    BY <1>1, <1>5 DEF RecordAttendanceAttempt, InsertAttempt, AttemptRow
  <2>. QED
    BY <1>2, <1>5, <2>1 DEF RecordAttendanceAttempt
<1>6. ASSUME NEW ids \in SUBSET Row, DeleteAttendances(ids)
      PROVE  AccountsInv'
  <2>1. \A w \in Row : /\ attendance'[w].student = attendance[w].student
                       /\ attendance'[w].status # "unused" <=> attendance[w].status # "unused"
    BY <1>1, <1>6 DEF DeleteAttendances, LiveRow, AttendanceStatus, AttendanceRow
  <2>. QED
    BY <1>2, <1>6, <2>1 DEF DeleteAttendances
<1>7. ASSUME NEW note \in LooseNote, InsertAuditLog(note)
      PROVE  AccountsInv'
  <2>1. \A w \in Row : <<"create_manual_attendance", w>> \in notes'
                          <=> <<"create_manual_attendance", w>> \in notes
    BY <1>7 DEF InsertAuditLog, LooseNote
  <2>. QED
    BY <1>2, <1>7, <2>1 DEF InsertAuditLog
<1>8. ASSUME UNCHANGED <<attendance, attempt, notes>>
      PROVE  AccountsInv'
  BY <1>2, <1>8
<1>9. LeaveTransaction => UNCHANGED <<attendance, attempt, notes>>
  BY DEF LeaveTransaction, CreateLeaveRequest, ApproveLeaveRequest, RejectLeaveRequest,
         ReopenLeaveRequest, SetDecision, ForceFinishLeaveRequest, DeleteLeaveRequest
<1>. QED
  BY <1>3, <1>4, <1>5, <1>6, <1>7, <1>8, <1>9
     DEF RecordsNext, Transaction, AttendanceTransaction, AuditTransaction, tables

\* Every attendance ever recorded, deleted or not, has its one origin.
THEOREM RecordsAccounted == RecordsSpec => []AttendanceAccountedFor
<1>1. TablesInv => TypeOK
  BY DEF TablesInv, PeriodInv
<1>2. AccountsInv => AttendanceAccountedFor
  BY DEF AccountsInv
<1>. QED
  BY <1>1, <1>2, InitAccounts, AccountsStep, InitTablesInv, NextTablesInv, PTL DEF RecordsSpec
=============================================================================
