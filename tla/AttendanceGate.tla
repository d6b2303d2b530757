---------------------------- MODULE AttendanceGate ----------------------------
(***************************************************************************)
(* What decides whether a student may submit attendance now, and as what:  *)
(* the schedules, locations and calendar that administrators edit, the     *)
(* student's rows of the day and the clock.  The dashboard computes the    *)
(* decision to show a button; the submission computes it again, from the   *)
(* class's schedule for the window and from the general one for the label, *)
(* and the label a third time when Robin has answered and the row is       *)
(* saved.  AttendanceService has what may happen to the rows in between.   *)
(*                                                                         *)
(* It is one student's day.  A schedule or location that is not active or  *)
(* not of this weekday, and a calendar exception of another date or        *)
(* period, is like none.  A query with LIMIT 1 may return any of its rows. *)
(***************************************************************************)
EXTENDS Naturals, FiniteSets, NoValue

CONSTANTS Slot,     \* schedules
          Place,    \* locations
          Exception, \* calendar exceptions
          Times,    \* opening times a schedule may have
          Manual,   \* statuses that administrators enter
          LastHour  \* bound: the end of the day

\* Check-in is open from start to end and late for a grace, check-out from
\* leave to close.  The null a query returns is no schedule and no place.
ASSUME GateAssumption ==
  /\ None \notin Slot \cup {"near", "far"}
  /\ Times \subseteq [start : Nat, end : Nat, grace : Nat, leave : Nat, close : Nat]
  /\ Manual \subseteq {"Hadir", "Terlambat", "Pulang", "Alpha"}
  /\ LastHour \in Nat

VARIABLES
  hour,
  schedule,  \* schedules: of a class, a period, both or neither
  place,     \* locations: whether the student is within the radius
  exception, \* calendar_exceptions: whether a holiday
  standing,  \* what else there is to refuse the student, or that Robin is down
             \* or has not the status of the enrollment
  dayRows,   \* the attendances of the day
  passed     \* a submission that the gate let pass, waiting for Robin

policy == <<schedule, place, exception>>
gateVars == <<hour, policy, standing, dayRows, passed>>

ScheduleRow == [class : {"own", "other", None}, period : {"active", None}, times : Times]
DayRow == [status : {"Hadir", "Terlambat", "Pulang", "Alpha"}, action : {"check_in", "check_out"}]

Standings == {"clear", "permit", "no_period", "no_class", "not_enrolled", "silent", "down"}

GateTypeOK ==
  /\ hour \in 0 .. LastHour
  /\ schedule \in [Slot -> ScheduleRow \cup {None}]
  /\ place \in [Place -> {"near", "far", None}]
  /\ exception \in [Exception -> {"holiday", "workday", None}]
  /\ standing \in Standings
  /\ dayRows \subseteq DayRow
  /\ passed \in {None} \cup [action : {"check_in", "check_out"}, late : BOOLEAN, hour : 0 .. LastHour,
                             times : Times, one : BOOLEAN]

GateInit ==
  /\ hour = 0
  /\ schedule = [x \in Slot |-> None] /\ place = [l \in Place |-> None]
  /\ exception = [e \in Exception |-> None]
  /\ standing = "not_enrolled" /\ dayRows = {} /\ passed = None

-----------------------------------------------------------------------------
\* The tables.

Rows(table) == {x \in DOMAIN table : table[x] # None}

\* The order in which getActiveSchedule prefers the schedules of a student's
\* class and period; 5 is one it does not match.
Rank(x) ==
  LET s == schedule[x] IN
    CASE s.class = "own" /\ s.period = "active" -> 1
      [] s.class = "own" /\ s.period = None -> 2
      [] s.class = None /\ s.period = "active" -> 3
      [] s.class = None /\ s.period = None -> 4
      [] OTHER -> 5

Preferred(S) == {x \in S : \A y \in S : Rank(x) <= Rank(y)}

\* It falls back on any schedule of the day.
OwnSchedules ==
  LET matched == {x \in Rows(schedule) : Rank(x) < 5}
  IN IF matched = {} THEN Rows(schedule) ELSE Preferred(matched)

\* Asked without class and period, as validation and saving do.
GeneralSchedules ==
  LET matched == {x \in Rows(schedule) : Rank(x) = 4}
  IN IF matched = {} THEN Rows(schedule) ELSE matched

\* What getCalendarExceptionByDate may return.
Exceptions == IF Rows(exception) = {} THEN {"workday"} ELSE {exception[e] : e \in Rows(exception)}

Statuses == {r.status : r \in dayRows}
Actions == {r.action : r \in dayRows}

-----------------------------------------------------------------------------
\* getScheduleWindowForAction.

CheckInCloses(t) == t.end + t.grace

InWindow(t, action, h) ==
  IF action = "check_in" THEN h >= t.start /\ h <= CheckInCloses(t)
  ELSE h >= t.leave /\ h <= t.close

IsLate(t, action, h) == action = "check_in" /\ h > t.end /\ h <= CheckInCloses(t)

-----------------------------------------------------------------------------
\* The decisions.  An answer names the action allowed, or why there is none.

Refuse(code) == [action |-> None, code |-> code]
Allow(action) == [action |-> action, code |-> None]

\* computeAttendanceStatus: by status alone, and an Alpha row hides the rest.
HasCheckedIn == "Alpha" \notin Statuses /\ {"Hadir", "Terlambat"} \cap Statuses # {}
HasCheckedOut == "Alpha" \notin Statuses /\ "Pulang" \in Statuses

\* The action left open, and whether its window is.
OpenAction(x) ==
  IF HasCheckedIn /\ HasCheckedOut THEN Refuse("ATTENDANCE_BLOCKED")
  ELSE LET action == IF HasCheckedIn THEN "check_out" ELSE "check_in"
       IN IF InWindow(schedule[x].times, action, hour) THEN Allow(action)
          ELSE Refuse("ATTENDANCE_BLOCKED")

\* checkReadiness: no answer, or one under another contract, is none.
Healthy == standing # "down"

\* computePrimaryAction.
PrimaryAction(read, x, e) ==
  CASE ~Healthy -> Refuse("DEPENDENCY_UNAVAILABLE")
    [] read = "not_enrolled" -> Refuse("ENROLLMENT_REQUIRED")
    [] read # "clear" \/ e = "holiday" \/ x = None -> Refuse("ATTENDANCE_BLOCKED")
    [] OTHER -> OpenAction(x)

\* getDashboard: what it read; a status call that fails reads as not enrolled.
DashboardAnswer(x, e) ==
  PrimaryAction(IF standing = "silent" THEN "not_enrolled" ELSE standing, x, e)

\* validateAttendanceAction: by status or action, inside a location.
RowsCheckedIn == {"Hadir", "Terlambat"} \cap Statuses # {} \/ "check_in" \in Actions
RowsCheckedOut == "Pulang" \in Statuses \/ "check_out" \in Actions

ValidatedAction ==
  CASE \A l \in Rows(place) : place[l] = "far" -> None
    [] "Alpha" \in Statuses \/ (RowsCheckedIn /\ RowsCheckedOut) -> None
    [] RowsCheckedIn -> "check_out"
    [] OTHER -> "check_in"

\* The last check: validation names the action that is open.
Confirmed(x) ==
  IF ValidatedAction = OpenAction(x).action THEN OpenAction(x) ELSE Refuse("ATTENDANCE_BLOCKED")

\* Variant: the holiday is not looked at.
GateAnswer_NoCalendar(x, e) ==
  CASE ~Healthy \/ standing = "silent" -> Refuse("DEPENDENCY_UNAVAILABLE")
    [] standing = "not_enrolled" -> Refuse("ENROLLMENT_REQUIRED")
    [] standing # "clear" \/ x = None -> Refuse("ATTENDANCE_BLOCKED")
    [] OTHER -> Confirmed(x)

\* runGateChecks, of precheck and submit.
GateAnswer(x, e) ==
  CASE ~Healthy \/ standing = "silent" -> Refuse("DEPENDENCY_UNAVAILABLE")
    [] standing = "not_enrolled" -> Refuse("ENROLLMENT_REQUIRED")
    [] standing # "clear" \/ e = "holiday" \/ x = None -> Refuse("ATTENDANCE_BLOCKED")
    [] OTHER -> Confirmed(x)

\* schoolDayForClass: whether the class's reports for Adiwiyata are awaited.
\* Two schedules of a kind are an error, and no schedule of the period is one.
SchoolDayForClass ==
  LET ofPeriod(class) ==
        {x \in Rows(schedule) : schedule[x].period = "active" /\ schedule[x].class = class}
      matching == IF ofPeriod("own") # {} THEN ofPeriod("own") ELSE ofPeriod(None)
  IN  /\ \A e \in Rows(exception) : exception[e] # "holiday"
      /\ Cardinality(matching) = 1

\* A query that finds nothing returns null.
OrNull(S) == IF S = {} THEN {None} ELSE S

-----------------------------------------------------------------------------
\* Administrators: each edit is one statement.

CreateSchedule(x) ==
  /\ schedule[x] = None
  /\ \E s \in ScheduleRow : schedule' = [schedule EXCEPT ![x] = s]
  /\ UNCHANGED <<hour, place, exception, standing, dayRows, passed>>

\* updateSchedule keeps what it is given null for: a schedule once of a class
\* or a period stays of one.
UpdateSchedule(x) ==
  /\ schedule[x] # None
  /\ \E s \in ScheduleRow :
       /\ s.class = None => schedule[x].class = None
       /\ s.period = None => schedule[x].period = None
       /\ s # schedule[x] /\ schedule' = [schedule EXCEPT ![x] = s]
  /\ UNCHANGED <<hour, place, exception, standing, dayRows, passed>>

\* deleteSchedule, or an update that deactivates it or moves it to another day.
DeleteSchedule(x) ==
  /\ schedule[x] # None
  /\ schedule' = [schedule EXCEPT ![x] = None]
  /\ UNCHANGED <<hour, place, exception, standing, dayRows, passed>>

\* createLocation, updateLocation and deleteLocation of the store.
PutLocation(l, where) == place' = [place EXCEPT ![l] = where]

\* The administrators' edits of locations, and the student's moves.
EditLocation(l) ==
  /\ \E where \in {"near", "far", None} \ {place[l]} : PutLocation(l, where)
  /\ UNCHANGED <<hour, schedule, exception, standing, dayRows, passed>>

\* createCalendarException, updateCalendarException and deleteCalendarException
\* of the store.
PutException(e, kind) == exception' = [exception EXCEPT ![e] = kind]

\* The administrators' edits of the calendar.
EditException(e) ==
  /\ \E kind \in {"holiday", "workday", None} \ {exception[e]} : PutException(e, kind)
  /\ UNCHANGED <<hour, schedule, place, standing, dayRows, passed>>

-----------------------------------------------------------------------------
\* The day.

HourPasses ==
  /\ hour < LastHour
  /\ hour' = hour + 1
  /\ UNCHANGED <<policy, standing, dayRows, passed>>

\* Robin, leaves, periods and enrollments change.
StandingChanges ==
  /\ standing' \in Standings \ {standing}
  /\ UNCHANGED <<hour, policy, dayRows, passed>>

\* canRecordAttendanceAction.
MayRecord(action) ==
  IF action = "check_in" THEN ~RowsCheckedIn ELSE RowsCheckedIn /\ ~RowsCheckedOut

\* createManualAttendance.
ManualAttendance ==
  /\ standing # "permit"
  /\ \E r \in DayRow :
       r.status \in Manual /\ MayRecord(r.action) /\ dayRows' = dayRows \cup {r}
  /\ UNCHANGED <<hour, policy, standing, passed>>

DeleteAttendance ==
  /\ \E r \in dayRows : dayRows' = dayRows \ {r}
  /\ UNCHANGED <<hour, policy, standing, passed>>

\* submit, up to the call of Robin.  The label is late by the class's schedule
\* or by the general one; one tells whether they are the same.
Submit ==
  /\ passed = None
  /\ \E x \in OrNull(OwnSchedules), e \in Exceptions :
       LET action == GateAnswer(x, e).action IN
         /\ action # None
         /\ \E g \in GeneralSchedules :
              passed' = [action |-> action, hour |-> hour,
                         times |-> schedule[x].times, one |-> x = g,
                         late |-> IsLate(schedule[x].times, action, hour)
                                  \/ (action = "check_in" /\ hour > schedule[g].times.end)]
  /\ UNCHANGED <<hour, policy, standing, dayRows>>

\* Variant: a check-in within the grace is not late.
SavedStatus_Grace(action, g) ==
  IF action = "check_out" THEN "Pulang"
  ELSE IF hour > CheckInCloses(schedule[g].times) THEN "Terlambat" ELSE "Hadir"

\* What saveAttendanceRecord writes, by the general schedule.
SavedStatus(action, g) ==
  IF action = "check_out" THEN "Pulang"
  ELSE IF hour > schedule[g].times.end THEN "Terlambat" ELSE "Hadir"

\* computeInsertStatus.
Label(action, late) ==
  IF action = "check_out" THEN "Pulang" ELSE IF late THEN "Terlambat" ELSE "Hadir"

\* Robin recognises the face and the row is saved; a schedule may be gone.
SaveAttendance ==
  /\ passed # None
  /\ standing # "permit" /\ MayRecord(passed.action)
  /\ \E g \in OrNull(GeneralSchedules) :
       LET saved == IF g = None THEN Label(passed.action, FALSE) ELSE SavedStatus(passed.action, g)
       IN dayRows' = dayRows \cup {[status |-> saved, action |-> passed.action]}
  /\ passed' = None
  /\ UNCHANGED <<hour, policy, standing>>

\* Robin does not, or the save is refused.
SubmissionFails ==
  /\ passed # None
  /\ passed' = None
  /\ UNCHANGED <<hour, policy, standing, dayRows>>

GateNext ==
  \/ \E x \in Slot : CreateSchedule(x) \/ UpdateSchedule(x) \/ DeleteSchedule(x)
  \/ \E l \in Place : EditLocation(l)
  \/ \E e \in Exception : EditException(e)
  \/ HourPasses \/ StandingChanges \/ ManualAttendance \/ DeleteAttendance
  \/ Submit \/ SaveAttendance \/ SubmissionFails

GateSpec == GateInit /\ [][GateNext]_gateVars

-----------------------------------------------------------------------------
\* Properties.

\* Rows that mean what their action says, as submissions write them.
PlainRows ==
  \A r \in dayRows : r.status \in IF r.action = "check_in" THEN {"Hadir", "Terlambat"} ELSE {"Pulang"}

\* The button of the dashboard and the gate of the submission are two
\* computations of one decision.  On the same rows, what the gate lets pass
\* the dashboard offers, and what the dashboard offers the gate lets pass,
\* unless the student is away from school or an administrator has entered rows
\* that say one thing and mean another.  And Adiwiyata, which selects schedules
\* and holidays in a third way, awaits reports on no day that both would
\* refuse (computePrimaryAction, runGateChecks, validateAttendanceAction,
\* schoolDayForClass).
ButtonMatchesGate ==
  \A x \in OrNull(OwnSchedules), e \in Exceptions :
    LET offer == DashboardAnswer(x, e).action
        gate == GateAnswer(x, e).action
    IN /\ gate # None => offer = gate
       /\ offer # None /\ PlainRows /\ (\E l \in Place : place[l] = "near") => gate = offer
       /\ SchoolDayForClass => x # None /\ e # "holiday"

\* A student who submits under one and the same schedule, unchanged when
\* Robin has answered and within the same minute, was told the status that is
\* saved: the three computations of "late" agree (getScheduleWindowForAction,
\* validateAttendanceAction, saveAttendanceRecord).
ToldWhatIsSaved ==
  passed # None =>
    \A g \in GeneralSchedules :
      passed.one /\ passed.hour = hour /\ schedule[g].times = passed.times
        => Label(passed.action, passed.late) = SavedStatus(passed.action, g)
=============================================================================
