--------------------------- MODULE AcademicPeriods ---------------------------
(***************************************************************************)
(* The school and its academic periods.  A transaction that activates a    *)
(* period first deactivates all of the school: those that its statement    *)
(* sees, and under READ COMMITTED it does not see a period another         *)
(* transaction is inserting.  It waits for the rows others have locked, so *)
(* transactions that only update take turns.                               *)
(***************************************************************************)
EXTENDS NoValue

CONSTANTS School,  \* schools, by slug
          Term,    \* periods
          Chief    \* concurrent administrators

ASSUME PeriodsAssumption == None \notin School \cup Term

VARIABLES
  school,    \* schools
  period,    \* academic_periods: school and is_active
  settledOn, \* the period last activated, if nothing met that (history)
  chief      \* what each administrator's call has read

periodVars == <<school, period, settledOn, chief>>

Free == [op |-> "free"]

\* seen is what the deactivating statement finds, alone that no other
\* activation met this one.
PeriodCall ==
  {Free} \cup [op : {"school", "first"}, school : School]
         \cup [op : {"activate"}, school : School, period : Term, seen : SUBSET Term,
               alone : BOOLEAN]

TermRow == [school : School, active : BOOLEAN]

\* The null of the database is no row.
ASSUME PeriodsNullAssumption == \A row \in TermRow : row # None

PeriodsTypeOK ==
  /\ school \subseteq School
  /\ period \in [Term -> TermRow \cup {None}]
  /\ settledOn \in [School -> Term \cup {None}]
  /\ chief \in [Chief -> PeriodCall]
  /\ \A p \in Term : period[p] # None => period[p].school \in school

PeriodsInit ==
  /\ school = {} /\ period = [p \in Term |-> None]
  /\ settledOn = [s \in School |-> None]
  /\ chief = [d \in Chief |-> Free]

PeriodsOf(s) == {p \in Term : period[p] # None /\ period[p].school = s}
ActivePeriods(s) == {p \in PeriodsOf(s) : period[p].active}

Activates(d, s) == chief[d].op = "activate" /\ chief[d].school = s

-----------------------------------------------------------------------------
\* bootstrapSchool looks for a school ...
BootstrapSchool(d) ==
  /\ chief[d] = Free /\ school = {}
  /\ \E s \in School : chief' = [chief EXCEPT ![d] = [op |-> "school", school |-> s]]
  /\ UNCHANGED <<school, period, settledOn>>

\* ... inserts one, whose slug must be new, ...
CreateSchool(d) ==
  /\ chief[d].op = "school" /\ chief[d].school \notin school
  /\ school' = school \cup {chief[d].school}
  /\ chief' = [chief EXCEPT ![d].op = "first"]
  /\ UNCHANGED <<period, settledOn>>

\* ... and, in a statement of its own, its first period if it has none.
FirstPeriod(d) ==
  /\ chief[d].op = "first"
  /\ LET s == chief[d].school
         met == {e \in Chief : Activates(e, s)}
     IN IF PeriodsOf(s) # {} THEN /\ chief' = [chief EXCEPT ![d] = Free]
                                  /\ UNCHANGED <<period, settledOn>>
        ELSE \E p \in Term :
          /\ period[p] = None
          /\ period' = [period EXCEPT ![p] = [school |-> s, active |-> TRUE]]
          /\ settledOn' = [settledOn EXCEPT ![s] = IF met = {} THEN p ELSE None]
          /\ chief' = [e \in Chief |-> IF e = d THEN Free
                         ELSE IF e \in met THEN [chief[e] EXCEPT !.alone = FALSE] ELSE chief[e]]
  /\ UNCHANGED school

-----------------------------------------------------------------------------
\* Periods.

\* Variant: the school need not exist.
CreateInactive_NoSchool(s) ==
  /\ \E p \in Term : /\ period[p] = None
                       /\ period' = [period EXCEPT ![p] = [school |-> s, active |-> FALSE]]
  /\ UNCHANGED <<school, settledOn, chief>>

\* createAcademicPeriod of one that is not active, and updateAcademicPeriod that
\* deactivates one.
CreateInactive(s) ==
  /\ s \in school
  /\ \E p \in Term : /\ period[p] = None
                       /\ period' = [period EXCEPT ![p] = [school |-> s, active |-> FALSE]]
  /\ UNCHANGED <<school, settledOn, chief>>

Deactivate(p) ==
  /\ period[p] # None /\ period[p].active
  /\ period' = [period EXCEPT ![p].active = FALSE]
  /\ settledOn' = [settledOn EXCEPT ![period[p].school] = None]
  /\ UNCHANGED <<school, chief>>

\* createAcademicPeriod of an active one, updateAcademicPeriod and
\* setActiveAcademicPeriod: the statement that deactivates begins.
Activate(d) ==
  /\ chief[d] = Free
  /\ \E s \in school : \E p \in PeriodsOf(s) \cup {q \in Term : period[q] = None} :
       LET met == {e \in Chief : Activates(e, s)} IN
         chief' = [e \in Chief |->
              IF e = d THEN [op |-> "activate", school |-> s, period |-> p, seen |-> PeriodsOf(s),
                             alone |-> met = {}]
              ELSE IF e \in met THEN [chief[e] EXCEPT !.alone = FALSE] ELSE chief[e]]
  /\ UNCHANGED <<school, period, settledOn>>

\* Variant: only the period that was settled on is deactivated.
Deactivated_Last(c) == {settledOn[c.school]} \ {None}

Deactivated(c) == c.seen

\* The transaction commits: a period that does not exist yet is inserted.
CommitActivation(d) ==
  /\ chief[d].op = "activate"
  /\ LET c == chief[d] IN
       /\ c.period \notin c.seen => period[c.period] = None
       /\ period' = [p \in Term |->
            IF p = c.period THEN [school |-> c.school, active |-> TRUE]
            ELSE IF p \in Deactivated(c) THEN [period[p] EXCEPT !.active = FALSE] ELSE period[p]]
       /\ settledOn' = [settledOn EXCEPT ![c.school] = IF c.alone THEN c.period ELSE None]
  /\ chief' = [chief EXCEPT ![d] = Free]
  /\ UNCHANGED school

\* The call fails or is broken off; a transaction leaves nothing.
BreaksOff(d) ==
  /\ chief[d] # Free
  /\ chief' = [chief EXCEPT ![d] = Free]
  /\ UNCHANGED <<school, period, settledOn>>

PeriodsNext ==
  \/ \E d \in Chief :
       \/ BootstrapSchool(d) \/ CreateSchool(d) \/ FirstPeriod(d)
       \/ Activate(d) \/ CommitActivation(d) \/ BreaksOff(d)
  \/ \E s \in School : CreateInactive(s)
  \/ \E p \in Term : Deactivate(p)

PeriodsSpec == PeriodsInit /\ [][PeriodsNext]_periodVars

-----------------------------------------------------------------------------
\* An activation that no other one met leaves its period the only active one of
\* the school, also after activations that met have left several or a bootstrap
\* broke off before its first period: the state repairs itself (getActive-
\* AcademicPeriod and the exact-one rule of contracts/astra-v1.json rest on it).
ActivationSettles ==
  \A s \in School : settledOn[s] # None => ActivePeriods(s) = {settledOn[s]}
=============================================================================
