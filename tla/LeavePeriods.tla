--------------------------- MODULE LeavePeriods ---------------------------
(***************************************************************************)
(* The calendar arithmetic of a leave request.  A WIB calendar date is a   *)
(* natural number; NoDay is SQL NULL.  A row of leave_requests holds the   *)
(* requested start and, once approved, an original and an effective last   *)
(* day, both inclusive.                                                    *)
(***************************************************************************)
EXTENDS Naturals

NoDay == 0

\* SQL COALESCE(a, b) over date columns.
Coalesce(a, b) == IF a # NoDay THEN a ELSE b

\* COALESCE(effective_end_date, original_end_date, date), the last day every
\* query of the store uses.
EffectiveEnd(lr) == Coalesce(lr.effectiveEnd, Coalesce(lr.originalEnd, lr.start))

\* The days an approved row blocks.
Covers(lr, d) == lr.start <= d /\ d <= EffectiveEnd(lr)

\* The inclusive-overlap test of the store's queries: start <= last and
\* end >= first.
Overlaps(lr, first, last) == lr.start <= last /\ EffectiveEnd(lr) >= first

\* Last day of a period of n days that starts on day d.
LastOf(d, n) == d + n - 1

\* Variant: a period that was finished early is reported as it was approved.
PeriodFields_Original(lr) ==
  LET original == Coalesce(lr.originalEnd, lr.start)
  IN  [original |-> original, effective |-> original]

(***************************************************************************)
(* getLeavePeriodFields: what the service reports for a row.  A row that   *)
(* is not approved is reported as stored; an approved row with either end  *)
(* fills the other one from it; a legacy approved row that has neither is  *)
(* a one-day period.                                                       *)
(***************************************************************************)
PeriodFields(lr) ==
  LET bothNull == lr.originalEnd = NoDay /\ lr.effectiveEnd = NoDay
      original == Coalesce(lr.originalEnd, lr.effectiveEnd)
  IN  CASE lr.status # "approved" ->
             [original |-> lr.originalEnd, effective |-> lr.effectiveEnd]
        [] lr.status = "approved" /\ bothNull ->
             [original |-> lr.start, effective |-> lr.start]
        [] OTHER ->
             [original |-> original, effective |-> Coalesce(lr.effectiveEnd, original)]
=============================================================================
