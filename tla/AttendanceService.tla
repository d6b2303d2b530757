------------------------- MODULE AttendanceService -------------------------
(***************************************************************************)
(* The attendance handlers over the tables of StudentRecords.              *)
(*                                                                         *)
(* A submission (POST /v1/mobile/attendance/submit) is a process that reads*)
(* the student's leave and rows, in two queries under way at once, reads   *)
(* the rows again, waits for Robin to identify the face, computes the      *)
(* date, and only then opens the transaction that writes.  Anything may    *)
(* happen between those steps.                                             *)
(* Robin's readiness, the face enrollment, the academic period, the class  *)
(* enrollment, holidays, schedule windows and the geofence only ever       *)
(* refuse a submission: a refusal is EndSubmission, which is possible at   *)
(* every step.                                                             *)
(***************************************************************************)
EXTENDS StudentRecords

CONSTANT Submission   \* concurrent invocations of the submit handler

VARIABLES
  submission,  \* what each invocation has read so far
  unaudited    \* attendance rows deleted, their audit row not yet inserted

NoSubmission == [phase |-> "idle"]

\* phase: which of the gate's reads are done, then what is waited for; day: the
\* date the gate saw, then the date the save computed.
SubmissionState ==
  {NoSubmission}
  \cup [phase : {"started", "permits"},
        student : Student, action : {"unread"}, day : Day]
  \cup [phase : {"rows", "gated", "identifying", "saving"},
        student : Student, action : Action, day : Day]

ServiceTypeOK ==
  /\ submission \in [Submission -> SubmissionState]
  /\ unaudited \subseteq Row

AttendanceInit ==
  /\ submission = [p \in Submission |-> NoSubmission]
  /\ unaudited = {}

-----------------------------------------------------------------------------
\* computeAttendanceStatus and computeActionType: by status alone, and an
\* Alpha row hides every other row.
StatusOfDay(s, d) == {attendance[w].status : w \in RowsOf(s, d)}

ExpectedAction(statuses) ==
  LET in == "Alpha" \notin statuses /\ "Hadir" \in statuses
      out == "Alpha" \notin statuses /\ "Pulang" \in statuses
  IN  IF in /\ out THEN "done" ELSE IF in THEN "check_out" ELSE "check_in"

\* validateAttendanceAction, as far as it reads rows: by status or action,
\* and an Alpha row refuses.
ValidatedAction(s, d) ==
  IF "Alpha" \in StatusOfDay(s, d) \/ (CheckedIn(s, d) /\ CheckedOut(s, d))
  THEN "none"
  ELSE IF CheckedIn(s, d) THEN "check_out" ELSE "check_in"

\* runGateChecks fixes the date, then starts its reads all at once.
StartGate(p, s) ==
  /\ submission[p].phase = "idle"
  /\ submission' = [submission EXCEPT ![p] =
       [phase |-> "started", student |-> s, action |-> "unread", day |-> today]]
  /\ UNCHANGED <<tables, unaudited>>

\* getActivePermitsToday, before or after the rows are read.
ReadPermits(p) ==
  LET me == submission[p] IN
  /\ me.phase \in {"started", "rows"}
  /\ ~OnLeave(me.student, me.day)
  /\ submission' = [submission EXCEPT ![p].phase =
                      IF me.phase = "rows" THEN "gated" ELSE "permits"]
  /\ UNCHANGED <<tables, unaudited>>

\* getTodayAbsences, and the action they leave open.
ReadAbsences(p) ==
  LET me == submission[p]
      action == ExpectedAction(StatusOfDay(me.student, me.day))
  IN  /\ me.phase \in {"started", "permits"}
      /\ action # "done"
      /\ submission' = [submission EXCEPT
           ![p].phase = IF me.phase = "permits" THEN "gated" ELSE "rows",
           ![p].action = action]
      /\ UNCHANGED <<tables, unaudited>>

\* runGateChecks, last read, and the action comparison of submit: the action
\* validated now must be the one expected from the first read.  It reads the
\* rows of the date it computes itself.
ValidateGate(p) ==
  LET me == submission[p] IN
  /\ me.phase = "gated"
  /\ ValidatedAction(me.student, today) = me.action
  /\ submission' = [submission EXCEPT ![p].phase = "identifying"]
  /\ UNCHANGED <<tables, unaudited>>

\* Robin answers that the face matches; saveAttendanceRecord computes its own
\* date before it asks for the lock.
IdentifyMatch(p) ==
  /\ submission[p].phase = "identifying"
  /\ submission' = [submission EXCEPT ![p].phase = "saving", ![p].day = today]
  /\ UNCHANGED <<tables, unaudited>>

\* The other outcomes of identify, by the attempt they leave: Robin times out
\* or does not speak the contract ("error"), or it answers that the face is
\* not the student's, or cannot be used, or something unreadable ("failed").
RobinFailure == {"failed", "error"}

\* The attempt is recorded and the submission refused.
IdentifyFail(p, t, status) ==
  LET me == submission[p] IN
  /\ me.phase = "identifying"
  /\ RecordAttendanceAttempt(t, me.student, me.action, status)
  /\ submission' = [submission EXCEPT ![p] = NoSubmission]
  /\ UNCHANGED unaudited

\* The transaction of saveAttendanceRecord.
SaveSubmission(p, w, t) ==
  LET me == submission[p] IN
  /\ me.phase = "saving"
  /\ SaveAttendanceRecord(w, t, me.student, me.day, me.action)
  /\ submission' = [submission EXCEPT ![p] = NoSubmission]
  /\ UNCHANGED unaudited

\* A refusal of the gate, a transaction that throws or reports a conflict, a
\* database error, or the death of the process: nothing is written.
EndSubmission(p) ==
  /\ submission[p].phase # "idle"
  /\ submission' = [submission EXCEPT ![p] = NoSubmission]
  /\ UNCHANGED <<tables, unaudited>>

-----------------------------------------------------------------------------
\* createManualAttendance of the admin service.  The attempt it checks is
\* never written again, so the check and the transaction are one step; the
\* date is the attempt's own WIB date, and the administrator may override the
\* status.
ManualAttendance(w, t, status) ==
  /\ attempt[t].status \in RobinFailure
  /\ CreateManualAttendance(w, t, attempt[t].student, attempt[t].day,
                            attempt[t].action, status)
  /\ UNCHANGED <<submission, unaudited>>

\* deleteAdminAttendances: the rows go first, in one transaction ...
DeleteAdminAttendances(ids) ==
  /\ DeleteAttendances(ids)
  /\ unaudited' = unaudited \cup ids
  /\ UNCHANGED submission

\* ... then one audit row for each, one at a time ...
AuditDeletion(w) ==
  /\ w \in unaudited
  /\ InsertAuditLog(<<"delete_attendance", w>>)
  /\ unaudited' = unaudited \ {w}
  /\ UNCHANGED submission

\* ... and an audit insert that fails, or a crash, leaves the rest unaudited.
AbandonAudit(w) ==
  /\ w \in unaudited
  /\ unaudited' = unaudited \ {w}
  /\ UNCHANGED <<tables, submission>>

AttendanceNext ==
  \/ \E p \in Submission :
       \/ \E s \in Student : StartGate(p, s)
       \/ ReadPermits(p)
       \/ ReadAbsences(p)
       \/ ValidateGate(p)
       \/ IdentifyMatch(p)
       \/ \E t \in Attempt, status \in RobinFailure : IdentifyFail(p, t, status)
       \/ \E w \in Row, t \in Attempt : SaveSubmission(p, w, t)
       \/ EndSubmission(p)
  \/ \E w \in Row, t \in Attempt, status \in AttendanceStatus : ManualAttendance(w, t, status)
  \/ \E ids \in (SUBSET Row) \ {{}} : DeleteAdminAttendances(ids)
  \/ \E w \in unaudited : AuditDeletion(w) \/ AbandonAudit(w)
=============================================================================
