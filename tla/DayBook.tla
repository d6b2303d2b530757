------------------------------ MODULE DayBook ------------------------------
(***************************************************************************)
(* What attendance and leave together promise about a student's days, with *)
(* no rows, requests, handlers or audit trail: a day is marked by a        *)
(* check-in and then a check-out, is excused by a leave, and is never both *)
(* excused and marked present.  Only administrators take marks away, and   *)
(* an excuse is granted and lifted a whole run of days at a time.          *)
(***************************************************************************)
EXTENDS Naturals

CONSTANT Person, BookDays

VARIABLES
  marks,    \* <<p, d, m>>: a mark m, "in" or "out", exists for person p on day d
  present,  \* <<p, d>>: some mark of that day says the person was there
  excused   \* <<p, d>>: day d of person p is covered by a leave

Interval(p, first, last) == {p} \X (first .. last)

BookInit == marks = {} /\ present = {} /\ excused = {}

\* A mark enters on a day that is not excused: "in" on a day without "in",
\* "out" on a day with "in" and without "out".  One record may carry both.
Mark(p, d, new, there) ==
  /\ <<p, d>> \notin excused
  /\ new \subseteq {"in", "out"}
  /\ \/ "in" \in new /\ <<p, d, "in">> \notin marks
     \/ "out" \in new /\ <<p, d, "in">> \in marks /\ <<p, d, "out">> \notin marks
  /\ marks' = marks \cup {<<p, d, m>> : m \in new}
  /\ present' = IF there THEN present \cup {<<p, d>>} ELSE present
  /\ UNCHANGED excused

\* An administrator strikes records; nothing is added.
Strike ==
  /\ marks' \subseteq marks
  /\ present' \subseteq present
  /\ UNCHANGED excused

\* A run of days none of which is excused or marked present becomes excused.
Excuse(p, first, last) ==
  /\ first <= last
  /\ Interval(p, first, last) \cap (excused \cup present) = {}
  /\ excused' = excused \cup Interval(p, first, last)
  /\ UNCHANGED <<marks, present>>

\* A leave ends early, or is withdrawn altogether.
Lift(p, first, last) ==
  /\ first <= last
  /\ Interval(p, first, last) \subseteq excused
  /\ excused' = excused \ Interval(p, first, last)
  /\ UNCHANGED <<marks, present>>

BookNext ==
  \/ \E p \in Person, d \in BookDays, new \in SUBSET {"in", "out"}, there \in BOOLEAN :
       Mark(p, d, new, there)
  \/ Strike
  \/ \E p \in Person, first, last \in BookDays :
       Excuse(p, first, last) \/ Lift(p, first, last)

BookSpec == BookInit /\ [][BookNext]_<<marks, present, excused>>
=============================================================================
