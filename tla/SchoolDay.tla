----------------------------- MODULE SchoolDay -----------------------------
(***************************************************************************)
(* Attendance and leave together, over the same tables and the same        *)
(* calendar: every step of one is interleaved with every step of the other.*)
(***************************************************************************)
EXTENDS AttendanceService, LeaveService

vars == <<tables, today, submission, unaudited, call>>

Init == RecordsInit /\ AttendanceInit /\ LeaveInit

Next ==
  \/ AttendanceNext /\ UNCHANGED <<today, call>>
  \/ LeaveNext /\ UNCHANGED <<today, submission, unaudited>>
  \/ NextDay /\ UNCHANGED <<tables, submission, unaudited, call>>

Spec == Init /\ [][Next]_vars

SchoolTypeOK == TypeOK /\ ServiceTypeOK /\ CallTypeOK

\* An audit row that reports a creation or a deletion is true: the row it names
\* was created, or is gone, although it was inserted after the change, outside
\* its transaction, by a handler that others may have overtaken.
NotesAreTrue ==
  /\ \A w \in Row : <<"delete_attendance", w>> \in notes
                      => attendance[w].status = "deleted"
  /\ \A r \in Request :
       /\ <<"delete_leave_request", r>> \in notes => leave[r].status = "deleted"
       /\ <<"create_admin_leave_request", r>> \in notes => leave[r].status # "unused"

\* What the trail, the attempts and the outbox say of attendances and requests
\* is true: every attendance has its one origin, a manual one rests on a
\* failure, and an audit row reports what happened.
RecordsAccountedFor == AttendanceAccountedFor /\ ManualRestsOnFailure /\ NotesAreTrue

-----------------------------------------------------------------------------
\* The attendance calendar of the student, which sees every row and period.

\* getPermitHistory: the student's requests with the periods they report.
PermitHistory(s) ==
  {[id |-> r, status |-> leave[r].status, first |-> leave[r].start,
    last |-> PeriodFields(leave[r]).effective] : r \in {q \in RequestsOf(s) : LiveRequest(q)}}

\* getAttendanceCalendar: the entries it counts for a day, one for the rows of
\* the day together and one for each approved period that has it.
CalendarEntries(s, d) ==
  LET rows == RowsOf(s, d)
      absent == \E w \in rows : attendance[w].status = "Alpha"
      permits == {q \in PermitHistory(s) : q.status = "approved" /\ d \in q.first .. q.last}
  IN  {[of |-> "rows", status |-> IF absent THEN "absent" ELSE "present"] : w \in rows}
      \cup {[of |-> permit.id, status |-> "leave"] : permit \in permits}

\* listLeaveRequests: the approved requests of the student that administrators
\* are shown for a day.
LeaveList(s, d) ==
  {q \in PermitHistory(s) : q.status = "approved" /\ q.first <= d /\ EffectiveEnd(leave[q.id]) >= d}

\* The calendar tells of a day what the gate goes by, and the administrators'
\* list too: it is a leave exactly if the student is kept away, it is counted
\* once then, for the request that the list shows, and not as present as well.
\* Calendar, list, gate and transactions compute the period of a leave each in
\* its own way (getAttendanceCalendar, listLeaveRequests, getActivePermitsToday).
CalendarMatchesGate ==
  \A s \in Student, d \in 1 .. LastOf(LastDay, MaxDuration) :
    LET leaves == {e \in CalendarEntries(s, d) : e.status = "leave"}
    IN  /\ OnLeave(s, d) <=> leaves # {}
        /\ Cardinality(leaves) <= 1
        /\ {e.of : e \in leaves} = {q.id : q \in LeaveList(s, d)}
        /\ leaves # {} => \A e \in CalendarEntries(s, d) : e.status # "present"

-----------------------------------------------------------------------------
(***************************************************************************)
(* The tables implement the abstract book of days.                         *)
(***************************************************************************)
MarksOf(w) == (IF MarksIn(attendance[w]) THEN {"in"} ELSE {})
              \cup (IF MarksOut(attendance[w]) THEN {"out"} ELSE {})

LiveRows == {w \in Row : LiveRow(w)}

BookMarks == UNION { {<<attendance[w].student, attendance[w].day, m>> : m \in MarksOf(w)}
                     : w \in LiveRows }

BookPresent == { <<attendance[w].student, attendance[w].day>> :
                 w \in {x \in Row : attendance[x].status \in Present} }

BookExcused == UNION { {leave[r].student} \X (leave[r].start .. EffectiveEnd(leave[r]))
                       : r \in {q \in Request : Approved(q)} }

Book == INSTANCE DayBook WITH
          Person <- Student, BookDays <- 1 .. LastOf(LastDay, MaxDuration),
          marks <- BookMarks, present <- BookPresent, excused <- BookExcused

ImplementsDayBook == Book!BookSpec
=============================================================================
