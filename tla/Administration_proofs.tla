------------------------- MODULE Administration_proofs -------------------------
(***************************************************************************)
(* Theorems about the administration of the school: academic periods,      *)
(* classes and enrollments, and the readers of the enrollments.            *)
(***************************************************************************)
EXTENDS MCAdministration, FiniteSetTheorems, TLAPS

-----------------------------------------------------------------------------
(* Academic periods.                                                        *)

\* What a call knows: its school exists; an activation has seen periods of
\* its school, and one that met no other is alone there and has seen all that
\* are active.
KnowsPeriods(d) ==
  LET c == chief[d] IN
    /\ c.op \in {"first", "activate"} => c.school \in school
    /\ c.op = "activate" =>
         /\ c.seen \subseteq PeriodsOf(c.school)
         /\ c.alone => /\ \A e \in Chief \ {d} : ~Activates(e, c.school)
                       /\ ActivePeriods(c.school) \subseteq c.seen

PeriodsInv ==
  /\ PeriodsTypeOK
  /\ \A d \in Chief : KnowsPeriods(d)
  /\ ActivationSettles

\* The fields of a call, by what it does.
LEMMA ChiefCalls ==
  ASSUME PeriodsTypeOK, NEW d \in Chief
  PROVE  /\ chief[d].op \in {"free", "school", "first", "activate"}
         /\ chief[d].op = "free" => chief[d] = Free
         /\ chief[d].op \in {"school", "first"} =>
              /\ chief[d].school \in School
              /\ [chief[d] EXCEPT !.op = "first"] \in PeriodCall
              /\ [chief[d] EXCEPT !.op = "first"].op = "first"
              /\ [chief[d] EXCEPT !.op = "first"].school = chief[d].school
         /\ chief[d].op = "activate" =>
              /\ chief[d].school \in School /\ chief[d].period \in Term
              /\ chief[d].seen \subseteq Term
              /\ chief[d].alone \in BOOLEAN
              /\ [chief[d] EXCEPT !.alone = FALSE] \in PeriodCall
              /\ [chief[d] EXCEPT !.alone = FALSE].op = "activate"
              /\ [chief[d] EXCEPT !.alone = FALSE].school = chief[d].school
              /\ [chief[d] EXCEPT !.alone = FALSE].seen = chief[d].seen
              /\ ~[chief[d] EXCEPT !.alone = FALSE].alone
<1>1. chief[d] \in PeriodCall
  BY DEF PeriodsTypeOK
<1>2. CASE chief[d] = Free
  BY <1>2 DEF Free
<1>3. CASE chief[d] \in [op : {"school", "first"}, school : School]
  BY <1>3 DEF PeriodCall
<1>4. CASE chief[d] \in [op : {"activate"}, school : School, period : Term, seen : SUBSET Term,
                         alone : BOOLEAN]
  BY <1>4 DEF PeriodCall
<1>. QED
  BY <1>1, <1>2, <1>3, <1>4 DEF PeriodCall

\* No activation is settled, active or known before there is a period.
LEMMA PeriodsStart == PeriodsInit => PeriodsInv
  BY DEF PeriodsInit, PeriodsInv, PeriodsTypeOK, KnowsPeriods, ActivationSettles, PeriodCall, Free

\* A call that ends leaves the others as alone as they were.
LEMMA ChiefDone ==
  ASSUME PeriodsInv, NEW d \in Chief, chief' = [chief EXCEPT ![d] = Free],
         school' = school, period' = period
  PROVE  /\ chief' \in [Chief -> PeriodCall]
         /\ \A e \in Chief : KnowsPeriods(e)'
<1>1. chief' \in [Chief -> PeriodCall]
  BY DEF PeriodsInv, PeriodsTypeOK, PeriodCall
<1>2. \A e \in Chief : e # d => chief'[e] = chief[e]
  BY DEF PeriodsInv, PeriodsTypeOK
<1>3. chief'[d].op = "free"
  BY DEF PeriodsInv, PeriodsTypeOK, Free
<1>. QED
  BY <1>1, <1>2, <1>3 DEF PeriodsInv, KnowsPeriods, Activates, PeriodsOf, ActivePeriods

\* Bootstrap reads and inserts the school.
LEMMA BootstrapStep ==
  ASSUME PeriodsInv, NEW d \in Chief, BootstrapSchool(d) \/ CreateSchool(d)
  PROVE  PeriodsInv'
<1>1. /\ chief[d].op \notin {"activate", "first"}
      /\ chief'[d].op \in {"school", "first"}
      /\ chief' \in [Chief -> PeriodCall]
      /\ chief'[d].op = "first" => chief'[d].school \in school'
      /\ \A e \in Chief : e # d => chief'[e] = chief[e]
  <2>1. CASE BootstrapSchool(d)
    <3>1. PICK s \in School : chief' = [chief EXCEPT ![d] = [op |-> "school", school |-> s]]
      BY <2>1, Zenon DEF BootstrapSchool
    <3>. QED
      BY <2>1, <3>1 DEF PeriodsInv, PeriodsTypeOK, PeriodCall, BootstrapSchool, Free
  <2>2. CASE CreateSchool(d)
    <3>1. chief[d].op = "school"
      BY <2>2 DEF CreateSchool
    <3>2. chief' = [chief EXCEPT ![d] = [chief[d] EXCEPT !.op = "first"]]
      BY <2>2 DEF CreateSchool
    <3>. QED
      BY <2>2, <3>1, <3>2, ChiefCalls DEF PeriodsInv, PeriodsTypeOK, CreateSchool
  <2>. QED
    BY <2>1, <2>2
<1>2. /\ period' = period /\ settledOn' = settledOn
      /\ school \subseteq school' /\ school' \subseteq School
  BY ChiefCalls DEF BootstrapSchool, CreateSchool, PeriodsInv, PeriodsTypeOK
<1>3. PeriodsTypeOK'
  BY <1>1, <1>2 DEF PeriodsInv, PeriodsTypeOK
<1>4. \A e \in Chief : KnowsPeriods(e)'
  BY <1>1, <1>2 DEF PeriodsInv, KnowsPeriods, Activates, PeriodsOf, ActivePeriods
<1>5. ActivationSettles'
  BY <1>2 DEF PeriodsInv, ActivationSettles, PeriodsOf, ActivePeriods
<1>. QED
  BY <1>3, <1>4, <1>5 DEF PeriodsInv

\* The calls that an activation of the school begins beside are not alone any
\* more; the others are as before.
LEMMA ChiefMet ==
  ASSUME PeriodsInv, NEW d \in Chief, NEW s \in School, NEW call0 \in PeriodCall,
         chief' = [e \in Chief |-> chief'[e]], chief'[d] = call0,
         \A e \in Chief \ {d} :
           chief'[e] = IF Activates(e, s) THEN [chief[e] EXCEPT !.alone = FALSE] ELSE chief[e]
  PROVE  /\ chief' \in [Chief -> PeriodCall]
         /\ chief'[d] = call0
         /\ \A e \in Chief \ {d} :
              /\ chief'[e].op = chief[e].op
              /\ chief[e].op = "activate" =>
                   /\ chief'[e].school = chief[e].school /\ chief'[e].seen = chief[e].seen
                   /\ chief'[e].alone => chief[e].alone /\ chief[e].school # s
              /\ chief[e].op = "first" => chief'[e].school = chief[e].school
<1>1. \A e \in Chief : chief[e] \in PeriodCall
  BY DEF PeriodsInv, PeriodsTypeOK
<1>2. \A e \in Chief : Activates(e, s) =>
        LET c == [chief[e] EXCEPT !.alone = FALSE] IN
          /\ c \in PeriodCall /\ c.op = "activate" /\ chief[e].op = "activate"
          /\ c.school = chief[e].school /\ c.seen = chief[e].seen /\ ~c.alone
  BY ChiefCalls DEF Activates, PeriodsInv
<1>3. chief' \in [Chief -> PeriodCall] /\ chief'[d] = call0
  <2>1. \A e \in Chief : chief'[e] \in PeriodCall
    BY <1>1, <1>2
  <2>. QED
    BY <2>1
<1>4. ASSUME NEW e \in Chief \ {d}
      PROVE  /\ chief'[e].op = chief[e].op
             /\ chief[e].op = "activate" =>
                  /\ chief'[e].school = chief[e].school /\ chief'[e].seen = chief[e].seen
                  /\ chief'[e].alone => chief[e].alone /\ chief[e].school # s
             /\ chief[e].op = "first" => chief'[e].school = chief[e].school
  <2>1. CASE Activates(e, s)
    <3>1. chief'[e] = [chief[e] EXCEPT !.alone = FALSE]
      BY <2>1
    <3>. QED
      BY <1>2, <2>1, <3>1
  <2>2. CASE ~Activates(e, s)
    <3>1. chief'[e] = chief[e]
      BY <2>2
    <3>. QED
      BY <2>2, <3>1 DEF Activates
  <2>. QED
    BY <2>1, <2>2
<1>. QED
  BY <1>3, <1>4

\* What a call is known by in the next state, for the school it is then about.
LEMMA KnowsNext ==
  ASSUME NEW e \in Chief, NEW t,
         chief'[e].op \in {"first", "activate"} => chief'[e].school = t /\ t \in school',
         chief'[e].op = "activate" =>
           /\ chief'[e].seen \subseteq PeriodsOf(t)'
           /\ chief'[e].alone => /\ \A f \in Chief \ {e} : ~Activates(f, t)'
                                 /\ ActivePeriods(t)' \subseteq chief'[e].seen
  PROVE  KnowsPeriods(e)'
BY DEF KnowsPeriods, PeriodsOf, ActivePeriods, Activates

\* The first period of a school is the only one; no activation has seen it.
LEMMA FirstPeriodStep ==
  ASSUME PeriodsInv, NEW d \in Chief, FirstPeriod(d)
  PROVE  PeriodsInv'
<1>1. PICK s \in School : s = chief[d].school
  BY ChiefCalls DEF FirstPeriod, PeriodsInv
<1>0. PICK met : met = {e \in Chief : Activates(e, s)}
  OBVIOUS
<1>2. chief[d].op = "first" /\ s \in school /\ school' = school
  BY <1>1 DEF FirstPeriod, PeriodsInv, KnowsPeriods
<1>3. CASE PeriodsOf(s) # {}
  <2>1. /\ chief' = [chief EXCEPT ![d] = Free] /\ period' = period /\ settledOn' = settledOn
    BY <1>1, <1>3 DEF FirstPeriod
  <2>. QED
    BY <1>2, <2>1, ChiefDone
       DEF PeriodsInv, PeriodsTypeOK, ActivationSettles, PeriodsOf, ActivePeriods
<1>4. CASE PeriodsOf(s) = {}
  <2>1. PICK p \in Term :
          /\ period[p] = None
          /\ period' = [period EXCEPT ![p] = [school |-> s, active |-> TRUE]]
          /\ settledOn' = [settledOn EXCEPT ![s] = IF met = {} THEN p ELSE None]
          /\ chief' = [e \in Chief |-> IF e = d THEN Free
                         ELSE IF e \in met THEN [chief[e] EXCEPT !.alone = FALSE] ELSE chief[e]]
    BY <1>0, <1>1, <1>4, Zenon DEF FirstPeriod
  <2>2. Free \in PeriodCall
    BY DEF PeriodCall
  <2>3. /\ chief' \in [Chief -> PeriodCall]
        /\ chief'[d] = Free
        /\ \A e \in Chief \ {d} :
             /\ chief'[e].op = chief[e].op
             /\ chief[e].op = "activate" =>
                  /\ chief'[e].school = chief[e].school /\ chief'[e].seen = chief[e].seen
                  /\ chief'[e].alone => chief[e].alone /\ chief[e].school # s
             /\ chief[e].op = "first" => chief'[e].school = chief[e].school
    <3>1. /\ chief' = [e \in Chief |-> chief'[e]] /\ chief'[d] = Free
          /\ \A e \in Chief \ {d} :
               chief'[e] = IF Activates(e, s) THEN [chief[e] EXCEPT !.alone = FALSE] ELSE chief[e]
      BY <1>0, <2>1
    <3>. QED
      BY <2>2, <3>1, ChiefMet
  <2>4. /\ PeriodsOf(s)' = {p} /\ ActivePeriods(s)' = {p}
        /\ \A t \in School \ {s} : PeriodsOf(t)' = PeriodsOf(t) /\ ActivePeriods(t)' = ActivePeriods(t)
    <3>1. period \in [Term -> TermRow \cup {None}]
      BY DEF PeriodsInv, PeriodsTypeOK
    <3>2. [school |-> s, active |-> TRUE] # None
      BY PeriodsNullAssumption DEF TermRow
    <3>. QED
      BY <1>4, <2>1, <3>1, <3>2 DEF PeriodsOf, ActivePeriods
  <2>5. PeriodsTypeOK'
    BY <1>2, <2>1, <2>3 DEF PeriodsInv, PeriodsTypeOK, TermRow
  <2>6. ASSUME NEW e \in Chief
        PROVE  KnowsPeriods(e)'
    <3>1. CASE e = d
      BY <2>3, <3>1 DEF KnowsPeriods, Free
    <3>2. CASE e # d /\ chief[e].op = "activate"
      <4>1. PICK t \in School : t = chief[e].school
        BY <3>2, ChiefCalls DEF PeriodsInv
      <4>2. t \in school /\ chief[e].seen \subseteq PeriodsOf(t)
        BY <3>2, <4>1 DEF PeriodsInv, KnowsPeriods
      <4>3. chief[e].seen \subseteq PeriodsOf(t)'
        BY <1>4, <2>4, <4>2
      <4>4. ASSUME chief'[e].alone
            PROVE  /\ \A f \in Chief \ {e} : ~Activates(f, t)'
                   /\ ActivePeriods(t)' \subseteq chief[e].seen
        <5>1. chief[e].alone /\ t # s
          BY <2>3, <3>2, <4>1, <4>4
        <5>2. /\ \A f \in Chief \ {e} : ~Activates(f, t)
              /\ ActivePeriods(t) \subseteq chief[e].seen
          BY <3>2, <4>1, <5>1 DEF PeriodsInv, KnowsPeriods
        <5>. QED
          BY <2>3, <2>4, <5>1, <5>2 DEF Activates, Free
      <4>. QED
        BY <1>2, <2>3, <3>2, <4>1, <4>2, <4>3, <4>4, KnowsNext
    <3>3. CASE e # d /\ chief[e].op # "activate"
      BY <1>2, <2>3, <3>3 DEF PeriodsInv, KnowsPeriods
    <3>. QED
      BY <3>1, <3>2, <3>3
  <2>7. ActivationSettles'
    <3>1. settledOn \in [School -> Term \cup {None}]
      BY DEF PeriodsInv, PeriodsTypeOK
    <3>2. settledOn'[s] \in {p, None} /\ \A t \in School \ {s} : settledOn'[t] = settledOn[t]
      BY <2>1, <3>1
    <3>3. \A t \in School : settledOn'[t] # None => ActivePeriods(t)' = {settledOn'[t]}
      BY <2>4, <3>2 DEF ActivationSettles, PeriodsInv
    <3>. QED
      BY <3>3 DEF ActivationSettles
  <2>. QED
    BY <2>5, <2>6, <2>7 DEF PeriodsInv
<1>. QED
  BY <1>3, <1>4

\* A step that leaves the calls alone, keeps every period of a school and
\* adds none that is active, leaves what the calls know.
LEMMA CallsStillKnow ==
  ASSUME PeriodsInv, chief' = chief, school' = school,
         \A t \in School : /\ PeriodsOf(t) \subseteq PeriodsOf(t)'
                           /\ ActivePeriods(t)' \subseteq ActivePeriods(t)
  PROVE  \A e \in Chief : KnowsPeriods(e)'
<1> SUFFICES ASSUME NEW e \in Chief
             PROVE  KnowsPeriods(e)'
  OBVIOUS
<1>1. CASE chief[e].op \in {"first", "activate"}
  <2>1. PICK t \in School : t = chief[e].school
    BY <1>1, ChiefCalls DEF PeriodsInv
  <2>2. /\ t \in school
        /\ chief[e].op = "activate" =>
             /\ chief[e].seen \subseteq PeriodsOf(t)
             /\ chief[e].alone => /\ \A f \in Chief \ {e} : ~Activates(f, t)
                                  /\ ActivePeriods(t) \subseteq chief[e].seen
    BY <1>1, <2>1 DEF PeriodsInv, KnowsPeriods
  <2>3. \A f \in Chief : Activates(f, t)' <=> Activates(f, t)
    BY DEF Activates
  <2>. QED
    BY <2>1, <2>2, <2>3, KnowsNext
<1>2. CASE chief[e].op \notin {"first", "activate"}
  BY <1>2 DEF KnowsPeriods
<1>. QED
  BY <1>1, <1>2

\* Editing a period adds an inactive one or deactivates one.
LEMMA EditStep ==
  ASSUME PeriodsInv, (\E s \in School : CreateInactive(s)) \/ (\E p \in Term : Deactivate(p))
  PROVE  PeriodsInv'
<1>0. period \in [Term -> TermRow \cup {None}]
  BY DEF PeriodsInv, PeriodsTypeOK
<1>1. CASE \E s \in School : CreateInactive(s)
  <2>1. PICK s \in School : CreateInactive(s)
    BY <1>1
  <2>2. PICK p \in Term : /\ period[p] = None
                          /\ period' = [period EXCEPT ![p] = [school |-> s, active |-> FALSE]]
    BY <2>1 DEF CreateInactive
  <2>3. s \in school /\ school' = school /\ settledOn' = settledOn /\ chief' = chief
    BY <2>1 DEF CreateInactive
  <2>4. \A t \in School : PeriodsOf(t) \subseteq PeriodsOf(t)' /\ ActivePeriods(t)' = ActivePeriods(t)
    BY <1>0, <2>2 DEF PeriodsOf, ActivePeriods
  <2>5. PeriodsTypeOK'
    BY <2>2, <2>3 DEF PeriodsInv, PeriodsTypeOK, TermRow
  <2>6. \A e \in Chief : KnowsPeriods(e)'
    BY <2>3, <2>4, CallsStillKnow
  <2>7. \A t \in School : settledOn'[t] # None => ActivePeriods(t)' = {settledOn'[t]}
    BY <2>3, <2>4 DEF PeriodsInv, ActivationSettles
  <2>. QED
    BY <2>5, <2>6, <2>7 DEF PeriodsInv, ActivationSettles
<1>2. CASE \E p \in Term : Deactivate(p)
  <2>1. PICK p \in Term : Deactivate(p)
    BY <1>2
  <2>2. PICK s \in School : s = period[p].school
    BY <1>0, <2>1 DEF Deactivate, TermRow
  <2>3. /\ period[p] # None /\ period[p] \in TermRow
        /\ period' = [period EXCEPT ![p] = [period[p] EXCEPT !.active = FALSE]]
        /\ settledOn' = [settledOn EXCEPT ![s] = None]
        /\ school' = school /\ chief' = chief
    BY <1>0, <2>1, <2>2 DEF Deactivate
  <2>4. PICK row \in TermRow : /\ row.school = s /\ row.active = FALSE
                               /\ period' = [period EXCEPT ![p] = row] /\ row # None
    <3>1. [period[p] EXCEPT !.active = FALSE] \in TermRow
      BY <2>3 DEF TermRow
    <3>2. /\ [period[p] EXCEPT !.active = FALSE].school = s
          /\ [period[p] EXCEPT !.active = FALSE].active = FALSE
      BY <2>2, <2>3 DEF TermRow
    <3>. QED
      BY <2>3, <3>1, <3>2, PeriodsNullAssumption
  <2>5. /\ \A t \in School : PeriodsOf(t)' = PeriodsOf(t) /\ ActivePeriods(t)' \subseteq ActivePeriods(t)
        /\ \A t \in School \ {s} : ActivePeriods(t)' = ActivePeriods(t)
    <3>1. /\ period'[p] = row /\ period[p] # None
          /\ \A q \in Term \ {p} : period'[q] = period[q]
      BY <1>0, <2>3, <2>4
    <3>2. \A t \in School : PeriodsOf(t)' = PeriodsOf(t)
      BY <2>2, <2>4, <3>1 DEF PeriodsOf
    <3>3. \A t \in School, q \in Term :
            /\ q \in ActivePeriods(t)' => q # p /\ q \in ActivePeriods(t)
            /\ t # s /\ q \in ActivePeriods(t) => q \in ActivePeriods(t)'
      BY <2>2, <2>4, <3>1 DEF PeriodsOf, ActivePeriods
    <3>. QED
      BY <3>2, <3>3 DEF PeriodsOf, ActivePeriods
  <2>6. PeriodsTypeOK'
    BY <2>2, <2>3, <2>4 DEF PeriodsInv, PeriodsTypeOK
  <2>7. \A e \in Chief : KnowsPeriods(e)'
    BY <2>3, <2>5, CallsStillKnow
  <2>8. \A t \in School : settledOn'[t] # None => ActivePeriods(t)' = {settledOn'[t]}
    BY <2>3, <2>5 DEF PeriodsInv, PeriodsTypeOK, ActivationSettles
  <2>. QED
    BY <2>6, <2>7, <2>8 DEF PeriodsInv, ActivationSettles
<1>. QED
  BY <1>1, <1>2


\* An activation begins with all periods of its school in sight; those it
\* meets, and it, are not alone.
LEMMA ActivateStep ==
  ASSUME PeriodsInv, NEW d \in Chief, Activate(d)
  PROVE  PeriodsInv'
<1>1. /\ chief[d] = Free
      /\ school' = school /\ period' = period /\ settledOn' = settledOn
  BY DEF Activate
<1>2. PICK s \in school, p \in Term :
        LET met == {e \in Chief : Activates(e, s)} IN
          chief' = [e \in Chief |->
               IF e = d THEN [op |-> "activate", school |-> s, period |-> p,
                              seen |-> PeriodsOf(s), alone |-> met = {}]
               ELSE IF e \in met THEN [chief[e] EXCEPT !.alone = FALSE] ELSE chief[e]]
  <2>1. \A t : PeriodsOf(t) \subseteq Term
    BY DEF PeriodsOf
  <2>2. PICK s \in school : \E p \in PeriodsOf(s) \cup {q \in Term : period[q] = None} :
          LET met == {e \in Chief : Activates(e, s)} IN
            chief' = [e \in Chief |->
                 IF e = d THEN [op |-> "activate", school |-> s, period |-> p,
                                seen |-> PeriodsOf(s), alone |-> met = {}]
                 ELSE IF e \in met THEN [chief[e] EXCEPT !.alone = FALSE] ELSE chief[e]]
    BY Zenon DEF Activate
  <2>. QED
    BY <2>1, <2>2
<1>3. PICK seen : seen = PeriodsOf(s)
  OBVIOUS
<1>4. PICK alone \in BOOLEAN : alone <=> {e \in Chief : Activates(e, s)} = {}
  OBVIOUS
<1>5. s \in School /\ seen \subseteq Term
  BY <1>3 DEF PeriodsInv, PeriodsTypeOK, PeriodsOf
<1>6. PICK call0 : call0 = [op |-> "activate", school |-> s, period |-> p, seen |-> seen,
                            alone |-> alone]
  OBVIOUS
<1>7. call0 \in PeriodCall
  BY <1>5, <1>6 DEF PeriodCall
<1>8. /\ chief' = [e \in Chief |-> chief'[e]]
      /\ chief'[d] = call0
      /\ \A e \in Chief \ {d} :
           chief'[e] = IF Activates(e, s) THEN [chief[e] EXCEPT !.alone = FALSE] ELSE chief[e]
  BY <1>2, <1>3, <1>4, <1>6
<1>9. /\ chief' \in [Chief -> PeriodCall]
      /\ \A e \in Chief \ {d} :
           /\ chief'[e].op = chief[e].op
           /\ chief[e].op = "activate" =>
                /\ chief'[e].school = chief[e].school /\ chief'[e].seen = chief[e].seen
                /\ chief'[e].alone => chief[e].alone /\ chief[e].school # s
           /\ chief[e].op = "first" => chief'[e].school = chief[e].school
  BY <1>5, <1>7, <1>8, ChiefMet
<1>10. \A t : PeriodsOf(t)' = PeriodsOf(t) /\ ActivePeriods(t)' = ActivePeriods(t)
  BY <1>1 DEF PeriodsOf, ActivePeriods
<1>11. ASSUME NEW e \in Chief
       PROVE  KnowsPeriods(e)'
  <2>1. CASE e = d
    <3>1. alone => \A f \in Chief \ {d} : ~Activates(f, s)'
      BY <1>4, <1>8 DEF Activates
    <3>2. PeriodsOf(s)' = seen /\ ActivePeriods(s)' \subseteq seen
      BY <1>3, <1>10 DEF ActivePeriods
    <3>. QED
      BY <1>1, <1>6, <1>8, <2>1, <3>1, <3>2, KnowsNext
  <2>2. CASE e # d /\ chief[e].op = "activate"
    <3>1. PICK t \in School : t = chief[e].school
      BY <2>2, ChiefCalls DEF PeriodsInv
    <3>2. t \in school /\ chief[e].seen \subseteq PeriodsOf(t)
      BY <2>2, <3>1 DEF PeriodsInv, KnowsPeriods
    <3>3. ASSUME chief'[e].alone
          PROVE  /\ \A f \in Chief \ {e} : ~Activates(f, t)'
                 /\ ActivePeriods(t)' \subseteq chief[e].seen
      <4>1. chief[e].alone /\ t # s
        BY <1>9, <2>2, <3>1, <3>3
      <4>2. /\ \A f \in Chief \ {e} : ~Activates(f, t)
            /\ ActivePeriods(t) \subseteq chief[e].seen
        BY <2>2, <3>1, <4>1 DEF PeriodsInv, KnowsPeriods
      <4>. QED
        BY <1>6, <1>8, <1>9, <1>10, <4>1, <4>2 DEF Activates
    <3>. QED
      BY <1>1, <1>9, <1>10, <2>2, <3>1, <3>2, <3>3, KnowsNext
  <2>3. CASE e # d /\ chief[e].op # "activate"
    BY <1>1, <1>9, <2>3 DEF PeriodsInv, KnowsPeriods
  <2>. QED
    BY <2>1, <2>2, <2>3
<1>12. PeriodsTypeOK'
  BY <1>1, <1>9 DEF PeriodsInv, PeriodsTypeOK
<1>13. ActivationSettles'
  BY <1>1 DEF PeriodsInv, ActivationSettles, PeriodsOf, ActivePeriods
<1>. QED
  BY <1>11, <1>12, <1>13 DEF PeriodsInv

\* An activation that was alone to the end has deactivated every other period
\* of its school; the period it activates is new or was seen.
LEMMA CommitActivationStep ==
  ASSUME PeriodsInv, NEW d \in Chief, CommitActivation(d)
  PROVE  PeriodsInv'
<1>1. chief[d].op = "activate" /\ school' = school /\ chief' = [chief EXCEPT ![d] = Free]
  BY DEF CommitActivation
<1>2. PICK s \in School, p \in Term, seen \in SUBSET Term, alone \in BOOLEAN :
        /\ s = chief[d].school /\ p = chief[d].period
        /\ seen = chief[d].seen /\ alone = chief[d].alone
  BY <1>1, ChiefCalls DEF PeriodsInv
<1>3. /\ s \in school /\ seen \subseteq PeriodsOf(s)
      /\ alone => /\ \A e \in Chief \ {d} : ~Activates(e, s)
                  /\ ActivePeriods(s) \subseteq seen
  BY <1>1, <1>2 DEF PeriodsInv, KnowsPeriods
<1>4. /\ p \notin seen => period[p] = None
      /\ period' = [q \in Term |->
           IF q = p THEN [school |-> s, active |-> TRUE]
           ELSE IF q \in seen THEN [period[q] EXCEPT !.active = FALSE] ELSE period[q]]
      /\ settledOn' = [settledOn EXCEPT ![s] = IF alone THEN p ELSE None]
  BY <1>2 DEF CommitActivation, Deactivated
<1>5. period \in [Term -> TermRow \cup {None}]
  BY DEF PeriodsInv, PeriodsTypeOK
<1>6. \A q \in Term :
        /\ period[q] # None => period[q] \in TermRow
        /\ q \in seen => period[q] # None /\ period[q].school = s
  BY <1>3, <1>5 DEF PeriodsOf
<1>7. \A row \in TermRow :
        LET off == [row EXCEPT !.active = FALSE] IN
          off \in TermRow /\ off # None /\ off.school = row.school /\ off.active = FALSE
  <2>1. \A row \in TermRow :
          LET off == [row EXCEPT !.active = FALSE] IN
            off \in TermRow /\ off.school = row.school /\ off.active = FALSE
    BY DEF TermRow
  <2>. QED
    BY <2>1, PeriodsNullAssumption
<1>8. PICK row \in TermRow : row = [school |-> s, active |-> TRUE] /\ row # None
                             /\ row.school = s /\ row.active = TRUE
  <2>1. [school |-> s, active |-> TRUE] \in TermRow
    BY DEF TermRow
  <2>. QED
    BY <2>1, PeriodsNullAssumption
<1>9. /\ period'[p] = row
      /\ \A q \in Term \ {p} :
           /\ q \in seen => /\ period'[q] \in TermRow /\ period'[q] # None
                            /\ period'[q].school = s /\ period'[q].active = FALSE
           /\ q \notin seen => period'[q] = period[q]
  BY <1>4, <1>6, <1>7, <1>8
<1>10. p \notin seen => period[p] = None
  BY <1>4
<1>11. PeriodsOf(s)' = PeriodsOf(s) \cup {p}
  BY <1>6, <1>8, <1>9 DEF PeriodsOf
<1>12. alone => ActivePeriods(s)' = {p}
  BY <1>3, <1>6, <1>8, <1>9, <1>10 DEF PeriodsOf, ActivePeriods
<1>13. \A t \in School \ {s} : PeriodsOf(t)' = PeriodsOf(t) /\ ActivePeriods(t)' = ActivePeriods(t)
  <2>1. \A t \in School \ {s}, q \in Term :
          /\ q \in PeriodsOf(t)' <=> q \in PeriodsOf(t)
          /\ q \in ActivePeriods(t)' <=> q \in ActivePeriods(t)
    BY <1>6, <1>8, <1>9, <1>10 DEF PeriodsOf, ActivePeriods
  <2>. QED
    BY <2>1 DEF PeriodsOf, ActivePeriods
<1>14. PeriodsTypeOK'
  <2>1. \A q \in Term : /\ period'[q] \in TermRow \cup {None}
                        /\ period'[q] # None => period'[q].school \in school
    BY <1>3, <1>5, <1>8, <1>9 DEF PeriodsInv, PeriodsTypeOK
  <2>2. period' \in [Term -> TermRow \cup {None}]
    BY <1>4, <2>1
  <2>3. chief' \in [Chief -> PeriodCall] /\ settledOn' \in [School -> Term \cup {None}]
    BY <1>1, <1>4 DEF PeriodsInv, PeriodsTypeOK, PeriodCall
  <2>. QED
    BY <1>1, <2>1, <2>2, <2>3 DEF PeriodsInv, PeriodsTypeOK
<1>15. ASSUME NEW e \in Chief
       PROVE  KnowsPeriods(e)'
  <2>1. chief'[d].op = "free" /\ \A f \in Chief \ {d} : chief'[f] = chief[f]
    BY <1>1 DEF PeriodsInv, PeriodsTypeOK, Free
  <2>2. CASE e = d
    BY <2>1, <2>2 DEF KnowsPeriods
  <2>3. CASE e # d /\ chief[e].op = "activate"
    <3>1. PICK t \in School : t = chief[e].school
      BY <2>3, ChiefCalls DEF PeriodsInv
    <3>2. /\ t \in school /\ chief[e].seen \subseteq PeriodsOf(t)
          /\ chief[e].alone => /\ \A f \in Chief \ {e} : ~Activates(f, t)
                               /\ ActivePeriods(t) \subseteq chief[e].seen
      BY <2>3, <3>1 DEF PeriodsInv, KnowsPeriods
    <3>3. chief[e].seen \subseteq PeriodsOf(t)'
      BY <1>11, <1>13, <3>2
    <3>4. ASSUME chief[e].alone
          PROVE  /\ \A f \in Chief \ {e} : ~Activates(f, t)'
                 /\ ActivePeriods(t)' \subseteq chief[e].seen
      <4>1. t # s
        BY <1>1, <1>2, <2>3, <3>2, <3>4 DEF Activates
      <4>. QED
        BY <1>13, <2>1, <3>2, <3>4, <4>1 DEF Activates
    <3>. QED
      BY <1>1, <2>1, <2>3, <3>1, <3>2, <3>3, <3>4, KnowsNext
  <2>4. CASE e # d /\ chief[e].op # "activate"
    BY <1>1, <2>1, <2>4 DEF PeriodsInv, KnowsPeriods
  <2>. QED
    BY <2>2, <2>3, <2>4
<1>16. ActivationSettles'
  <2>1. settledOn \in [School -> Term \cup {None}]
    BY DEF PeriodsInv, PeriodsTypeOK
  <2>2. settledOn'[s] = (IF alone THEN p ELSE None) /\ \A t \in School \ {s} : settledOn'[t] = settledOn[t]
    BY <1>4, <2>1
  <2>3. \A t \in School : settledOn'[t] # None => ActivePeriods(t)' = {settledOn'[t]}
    BY <1>12, <1>13, <2>2 DEF ActivationSettles, PeriodsInv
  <2>. QED
    BY <2>3 DEF ActivationSettles
<1>. QED
  BY <1>14, <1>15, <1>16 DEF PeriodsInv

\* Every step keeps the invariant.
LEMMA PeriodsStep == PeriodsInv /\ [PeriodsNext]_periodVars => PeriodsInv'
<1> SUFFICES ASSUME PeriodsInv, [PeriodsNext]_periodVars
             PROVE  PeriodsInv'
  OBVIOUS
<1>1. CASE UNCHANGED periodVars
  <2>1. chief' = chief /\ school' = school /\ period' = period /\ settledOn' = settledOn
    BY <1>1 DEF periodVars
  <2>2. PeriodsTypeOK' /\ ActivationSettles'
    BY <2>1 DEF PeriodsInv, PeriodsTypeOK, ActivationSettles, PeriodsOf, ActivePeriods
  <2>3. \A e \in Chief : KnowsPeriods(e)'
    BY <2>1 DEF PeriodsInv, KnowsPeriods, PeriodsOf, ActivePeriods, Activates
  <2>. QED
    BY <2>2, <2>3 DEF PeriodsInv
<1>2. ASSUME NEW d \in Chief, BreaksOff(d)
      PROVE  PeriodsInv'
  <2>1. /\ chief' = [chief EXCEPT ![d] = Free]
        /\ school' = school /\ period' = period /\ settledOn' = settledOn
    BY <1>2 DEF BreaksOff
  <2>. QED
    BY <2>1, ChiefDone
       DEF PeriodsInv, PeriodsTypeOK, ActivationSettles, PeriodsOf, ActivePeriods
<1>. QED
  BY <1>1, <1>2, BootstrapStep, FirstPeriodStep, ActivateStep, CommitActivationStep, EditStep
     DEF PeriodsNext

\* The invariant of the periods holds for any number of schools, periods and
\* administrators.
LEMMA PeriodsInductive == PeriodsSpec => []PeriodsInv
BY PeriodsStart, PeriodsStep, PTL DEF PeriodsSpec

\* An activation that met no other leaves its period the only active one of
\* the school (setActiveAcademicPeriod, createAcademicPeriod,
\* updateAcademicPeriod, bootstrapSchool).
THEOREM ActivationLeavesOne == PeriodsSpec => []ActivationSettles
<1>1. PeriodsInv => ActivationSettles
  BY DEF PeriodsInv
<1>. QED
  BY <1>1, PeriodsInductive, PTL

-----------------------------------------------------------------------------
(* Enrollments.                                                             *)

\* The roster lists a student once, and only students that exist.
ListedOnce ==
  /\ \A i \in DOMAIN enrollment : enrollment[i].student # None => enrollment[i].student \in student
  /\ \A i, j \in DOMAIN enrollment :
       enrollment[i].student # None /\ enrollment[i].student = enrollment[j].student => i = j

\* A student who is bound exists, and their rows name the account they are
\* bound to.
BoundRows ==
  /\ \A s \in Student : binding[s] # None => s \in student
  /\ \A u \in User : binding[NisOf[u]] = u =>
       \A i \in DOMAIN enrollment : enrollment[i].student = NisOf[u] => enrollment[i].user = u

\* An acceptance has loaded a report.
CallsLoaded == \A d \in Desk : call[d].op = "accept" => report[call[d].report] # None

EnrollInv ==
  /\ EnrollmentsTypeOK /\ IndexesHold(enrollment)
  /\ ListedOnce /\ BoundRows /\ CallsLoaded
  /\ AcceptedMeansEnrolled

\* The rows and their parts.
LEMMA RowsTyped ==
  ASSUME EnrollmentsTypeOK
  PROVE  /\ DOMAIN enrollment = 1 .. Len(enrollment) /\ Len(enrollment) \in Nat
         /\ \A i \in DOMAIN enrollment : /\ enrollment[i] \in EnrollmentRow
                                         /\ ~(enrollment[i].student = None /\ enrollment[i].user = None)
BY DEF EnrollmentsTypeOK, ToSet

\* A table of rows as long as another.
LEMMA RowsMapped ==
  ASSUME NEW T, NEW q \in Seq(T), NEW f, f = [i \in DOMAIN q |-> f[i]],
         \A i \in DOMAIN q : f[i] \in T
  PROVE  f \in Seq(T) /\ Len(f) = Len(q) /\ DOMAIN f = DOMAIN q
<1>1. DOMAIN q = 1 .. Len(q) /\ Len(q) \in Nat
  OBVIOUS
<1>2. f \in [1 .. Len(q) -> T]
  BY <1>1
<1>. QED
  BY <1>1, <1>2

\* SetToSeq lists each element of a finite set once.
LEMMA SetListed ==
  ASSUME NEW S, IsFiniteSet(S)
  PROVE  /\ SetToSeq(S) \in Seq(S)
         /\ \A x \in S : \E i \in DOMAIN SetToSeq(S) : SetToSeq(S)[i] = x
         /\ \A i, j \in DOMAIN SetToSeq(S) : SetToSeq(S)[i] = SetToSeq(S)[j] => i = j
<1>1. Cardinality(S) \in Nat /\ ExistsBijection(1 .. Cardinality(S), S)
  BY FS_CardinalityType
<1>2. \E f : f \in [1 .. Cardinality(S) -> S] /\ IsInjective(f)
  BY <1>1 DEF ExistsBijection, Bijection, Injection, IsInjective
<1>3. SetToSeq(S) \in [1 .. Cardinality(S) -> S] /\ IsInjective(SetToSeq(S))
  BY <1>2 DEF SetToSeq
<1>4. Cardinality(1 .. Cardinality(S)) = Cardinality(S) /\ IsFiniteSet(1 .. Cardinality(S))
  BY <1>1, FS_Interval
<1>5. SetToSeq(S) \in Surjection(1 .. Cardinality(S), S)
  BY <1>1, <1>3, <1>4, FS_Injection DEF Injection
<1>. QED
  BY <1>1, <1>3, <1>5 DEF Surjection, IsInjective

\* The tables are empty at the start.
LEMMA EnrollStart == EnrollmentsInit => EnrollInv
<1> SUFFICES ASSUME EnrollmentsInit
             PROVE  EnrollInv
  OBVIOUS
<1>1. enrollment = <<>> /\ DOMAIN enrollment = {} /\ Len(enrollment) = 0
  BY DEF EnrollmentsInit
<1>2. EnrollmentsTypeOK
  <2>1. \A e \in ToSet(enrollment) : ~(e.student = None /\ e.user = None)
    BY <1>1 DEF ToSet
  <2>2. enrollment \in Seq(EnrollmentRow) /\ Len(enrollment) <= MaxRows
    BY <1>1, EnrollmentsAssumption
  <2>. QED
    BY <2>1, <2>2 DEF EnrollmentsInit, EnrollmentsTypeOK, Call
<1>3. IndexesHold(enrollment)
  BY <1>1 DEF IndexesHold, ActiveIn
<1>4. ListedOnce /\ BoundRows
  BY <1>1 DEF ListedOnce, BoundRows, EnrollmentsInit
<1>5. CallsLoaded /\ AcceptedMeansEnrolled
  BY DEF CallsLoaded, AcceptedMeansEnrolled, EnrollmentsInit, Idle
<1>. QED
  BY <1>2, <1>3, <1>4, <1>5 DEF EnrollInv

\* What a step of the table must keep of the rows: every row stays of the
\* student, class, period and absence number it was created with.
RowsStay ==
  /\ DOMAIN enrollment \subseteq DOMAIN enrollment'
  /\ \A i \in DOMAIN enrollment :
       /\ enrollment'[i].student = enrollment[i].student
       /\ enrollment'[i].class = enrollment[i].class
       /\ enrollment'[i].period = enrollment[i].period
       /\ enrollment'[i].absence = enrollment[i].absence

\* Then accepted reports stay enrolled.
LEMMA EnrolledStay ==
  ASSUME AcceptedMeansEnrolled, RowsStay, student \subseteq student', NEW r \in Report,
         report'[r] = report[r], report[r] # None, report[r].status = "accepted",
         NEW s \in DOMAIN report[r].rows
  PROVE  /\ s \in student'
         /\ \E i \in DOMAIN enrollment' :
              /\ enrollment'[i].student = s
              /\ enrollment'[i].period = report[r].period
              /\ enrollment'[i].class = report[r].rows[s].class
              /\ enrollment'[i].absence = report[r].rows[s].absence
<1>1. s \in student
  BY DEF AcceptedMeansEnrolled
<1>2. PICK i \in DOMAIN enrollment :
        /\ enrollment[i].student = s
        /\ enrollment[i].period = report[r].period
        /\ enrollment[i].class = report[r].rows[s].class
        /\ enrollment[i].absence = report[r].rows[s].absence
  BY DEF AcceptedMeansEnrolled
<1>3. i \in DOMAIN enrollment'
  BY DEF RowsStay
<1>. QED
  BY <1>1, <1>2, <1>3 DEF RowsStay

\* A step by account: rows keep their student and account, and new ones name
\* an account only.
LEMMA TableStep ==
  ASSUME EnrollInv, RowsStay,
         enrollment' \in Seq(EnrollmentRow), Len(enrollment') <= MaxRows,
         IndexesHold(enrollment)',
         \A i \in DOMAIN enrollment : enrollment'[i].user = enrollment[i].user,
         \A i \in DOMAIN enrollment' \ DOMAIN enrollment :
           enrollment'[i].student = None /\ enrollment'[i].user # None,
         call' \in [Desk -> Call],
         \A d \in Desk : call'[d].op = "accept" => call'[d] = call[d],
         UNCHANGED <<signupOpen, class, student, binding, report>>
  PROVE  EnrollInv'
<1>1. \A i \in DOMAIN enrollment' :
        \/ i \in DOMAIN enrollment /\ enrollment'[i].student = enrollment[i].student
             /\ enrollment'[i].user = enrollment[i].user
        \/ enrollment'[i].student = None /\ enrollment'[i].user # None
  BY DEF RowsStay
<1>2. \A e \in ToSet(enrollment') : ~(e.student = None /\ e.user = None)
  BY <1>1, RowsTyped DEF ToSet, EnrollInv
<1>3. EnrollmentsTypeOK'
  BY <1>2 DEF EnrollmentsTypeOK, EnrollInv
<1>4. ListedOnce'
  BY <1>1 DEF ListedOnce, EnrollInv
<1>5. BoundRows'
  <2>1. ASSUME NEW u \in User, binding[NisOf[u]] = u, NEW i \in DOMAIN enrollment',
               enrollment'[i].student = NisOf[u]
        PROVE  enrollment'[i].user = u
    <3>1. NisOf[u] # None
      BY EnrollmentsAssumption
    <3>2. i \in DOMAIN enrollment /\ enrollment[i].student = NisOf[u]
      BY <1>1, <2>1, <3>1
    <3>. QED
      BY <2>1, <3>2 DEF BoundRows, EnrollInv
  <2>. QED
    BY <2>1 DEF BoundRows, EnrollInv
<1>6. CallsLoaded'
  BY DEF CallsLoaded, EnrollInv
<1>7. AcceptedMeansEnrolled'
  BY EnrolledStay DEF AcceptedMeansEnrolled, EnrollInv
<1>. QED
  BY <1>3, <1>4, <1>5, <1>6, <1>7 DEF EnrollInv

\* A step that leaves the rows alone, and of the reports what was loaded and
\* accepted.
LEMMA OfficeStep ==
  ASSUME EnrollInv, enrollment' = enrollment, student' = student,
         signupOpen' \in BOOLEAN, class' \in [Class -> Period \cup {None}],
         binding' \in [Student -> User \cup {None}],
         \A s \in Student : binding'[s] \in {binding[s], None},
         report' \in [Report -> ReportRow \cup {None}],
         \A r \in Report : /\ report[r] # None => report'[r] = report[r]
                           /\ report[r] = None /\ report'[r] # None => report'[r].status # "accepted",
         call' \in [Desk -> Call], CallsLoaded'
  PROVE  EnrollInv'
<1>1. EnrollmentsTypeOK' /\ IndexesHold(enrollment)' /\ ListedOnce'
  BY DEF EnrollInv, EnrollmentsTypeOK, IndexesHold, ActiveIn, ListedOnce
<1>2. BoundRows'
  <2>1. \A u \in User : u # None /\ NisOf[u] \in Student
    BY EnrollmentsAssumption
  <2>. QED
    BY <2>1 DEF BoundRows, EnrollInv
<1>3. RowsStay
  BY DEF RowsStay
<1>4. AcceptedMeansEnrolled'
  BY <1>3, EnrolledStay DEF AcceptedMeansEnrolled, EnrollInv
<1>. QED
  BY <1>1, <1>2, <1>4 DEF EnrollInv

\* A call that reads, or gives up.
LEMMA CallSet ==
  ASSUME EnrollInv, NEW d \in Desk, NEW c \in Call, Becomes(d, c),
         c.op = "accept" => report[c.report] # None, report' = report
  PROVE  call' \in [Desk -> Call] /\ CallsLoaded'
BY DEF Becomes, EnrollInv, EnrollmentsTypeOK, CallsLoaded

\* The fields of a call, by what it does.
LEMMA CallFields ==
  ASSUME EnrollmentsTypeOK, NEW d \in Desk
  PROVE  /\ call[d].op = "accept" => call[d].report \in Report
         /\ call[d].op \in {"transferred", "promoted"} =>
              /\ call[d].class \in Class /\ call[d].period \in Period /\ call[d].user \in User
<1>1. call[d] \in Call
  BY DEF EnrollmentsTypeOK
<1>. QED
  BY <1>1 DEF Call, Idle

\* Steps that only read, and those of classes, reports and bindings.
LEMMA OfficeSteps ==
  ASSUME EnrollInv, NEW d \in Desk,
         \/ PutClass(d) \/ StageRoster(d) \/ AcceptRoster(d) \/ OpenSignup(d)
         \/ TransferStudent(d) \/ PromoteStudent(d) \/ Fails(d)
  PROVE  EnrollInv'
<1>0. Idle \in Call /\ Idle.op # "accept"
  BY DEF Call, Idle
<1>1. \A u, p : ActiveOf(u, p) \subseteq 1 .. MaxRows
  <2>1. DOMAIN enrollment \subseteq 1 .. MaxRows
    BY RowsTyped, EnrollmentsAssumption DEF EnrollInv, EnrollmentsTypeOK
  <2>. QED
    BY <2>1 DEF ActiveOf, ActiveIn
<1>2. /\ signupOpen \in BOOLEAN /\ class \in [Class -> Period \cup {None}]
      /\ binding \in [Student -> User \cup {None}]
      /\ report \in [Report -> ReportRow \cup {None}]
      /\ call \in [Desk -> Call] /\ CallsLoaded
  BY DEF EnrollInv, EnrollmentsTypeOK
<1>3. CASE PutClass(d)
  <2>1. PICK c \in Class, p \in Period : class' = [class EXCEPT ![c] = p]
    BY <1>3, Zenon DEF PutClass, SetClass
  <2>2. UNCHANGED <<signupOpen, student, binding, enrollment, report, call>>
    BY <1>3 DEF PutClass
  <2>3. class' \in [Class -> Period \cup {None}]
    BY <1>2, <2>1
  <2>4. CallsLoaded'
    BY <1>2, <2>2 DEF CallsLoaded
  <2>. QED
    BY <1>2, <2>2, <2>3, <2>4, OfficeStep
<1>4. CASE StageRoster(d)
  <2>0. PICK p \in Period, S \in SUBSET Student : \E rows \in [S -> Listing] :
          InsertReport([period |-> p, rows |-> rows,
                        status |-> IF Acceptable(p, rows) THEN "staged" ELSE "rejected"])
    BY <1>4, Zenon DEF StageRoster
  <2>1. PICK rows \in [S -> Listing] :
          InsertReport([period |-> p, rows |-> rows,
                        status |-> IF Acceptable(p, rows) THEN "staged" ELSE "rejected"])
    BY <2>0
  <2>2. PICK status \in {"staged", "rejected"} :
          status = IF Acceptable(p, rows) THEN "staged" ELSE "rejected"
    OBVIOUS
  <2>3. PICK row : row = [period |-> p, rows |-> rows, status |-> status]
    OBVIOUS
  <2>4. row \in ReportRow /\ row.status # "accepted"
    BY <2>0, <2>1, <2>3 DEF ReportRow
  <2>5. PICK r \in Report : report[r] = None /\ report' = [report EXCEPT ![r] = row]
    BY <2>1, <2>2, <2>3 DEF InsertReport
  <2>6. UNCHANGED <<signupOpen, class, student, binding, enrollment, call>>
    BY <1>4 DEF StageRoster
  <2>7. /\ report' \in [Report -> ReportRow \cup {None}]
        /\ \A q \in Report : /\ report[q] # None => report'[q] = report[q]
                             /\ report[q] = None /\ report'[q] # None => report'[q].status # "accepted"
    BY <1>2, <2>4, <2>5
  <2>8. CallsLoaded'
    BY <1>2, <2>6, <2>7, CallFields DEF CallsLoaded, EnrollInv
  <2>. QED
    BY <1>2, <2>6, <2>7, <2>8, OfficeStep
<1>5. CASE AcceptRoster(d)
  <2>1. PICK r \in Report : report[r] # None /\ Becomes(d, [op |-> "accept", report |-> r])
    BY <1>5 DEF AcceptRoster, ReportsThatAre
  <2>2. UNCHANGED <<signupOpen, class, student, binding, enrollment, report>>
    BY <1>5 DEF AcceptRoster
  <2>3. PICK c \in Call : c = [op |-> "accept", report |-> r] /\ c.report = r
    BY <2>1 DEF Call
  <2>4. Becomes(d, c) /\ report[c.report] # None
    BY <2>1, <2>3
  <2>5. call' \in [Desk -> Call] /\ CallsLoaded'
    BY <2>2, <2>4, CallSet
  <2>. QED
    BY <1>2, <2>2, <2>5, OfficeStep
<1>6. CASE OpenSignup(d)
  <2>1. signupOpen' \in BOOLEAN /\ UNCHANGED <<class, student, binding, enrollment, report, call>>
    BY <1>6 DEF OpenSignup, SetSignupOpen
  <2>2. CallsLoaded'
    BY <1>2, <2>1 DEF CallsLoaded
  <2>. QED
    BY <1>2, <2>1, <2>2, OfficeStep
<1>7. CASE TransferStudent(d) \/ PromoteStudent(d) \/ Fails(d)
  <2>1. PICK c \in Call : Becomes(d, c) /\ c.op # "accept"
    <3>1. CASE TransferStudent(d)
      <4>1. PICK u \in User, c \in Class, p \in Period : \E i \in ActiveOf(u, p) :
              Becomes(d, [op |-> "transferred", row |-> i, class |-> c, period |-> p, user |-> u])
        BY <3>1, Zenon DEF TransferStudent
      <4>2. PICK i \in 1 .. MaxRows :
              Becomes(d, [op |-> "transferred", row |-> i, class |-> c, period |-> p, user |-> u])
        BY <1>1, <4>1
      <4>3. PICK m : m = [op |-> "transferred", row |-> i, class |-> c, period |-> p, user |-> u]
        OBVIOUS
      <4>4. m \in Call /\ m.op # "accept"
        BY <4>1, <4>2, <4>3 DEF Call
      <4>. QED
        BY <4>2, <4>3, <4>4
    <3>2. CASE PromoteStudent(d)
      <4>1. PICK u \in User, c \in Class, p \in Period, q \in Period : \E i \in ActiveOf(u, p) :
              Becomes(d, [op |-> "promoted", row |-> i, class |-> c, period |-> q, user |-> u])
        BY <3>2, Zenon DEF PromoteStudent
      <4>2. PICK i \in 1 .. MaxRows :
              Becomes(d, [op |-> "promoted", row |-> i, class |-> c, period |-> q, user |-> u])
        BY <1>1, <4>1
      <4>3. PICK m : m = [op |-> "promoted", row |-> i, class |-> c, period |-> q, user |-> u]
        OBVIOUS
      <4>4. m \in Call /\ m.op # "accept"
        BY <4>1, <4>2, <4>3 DEF Call
      <4>. QED
        BY <4>2, <4>3, <4>4
    <3>3. CASE Fails(d)
      BY <1>0, <3>3 DEF Fails
    <3>. QED
      BY <1>7, <3>1, <3>2, <3>3
  <2>2. UNCHANGED <<signupOpen, class, student, binding, enrollment, report>>
    BY <1>7 DEF TransferStudent, PromoteStudent, Fails
  <2>3. call' \in [Desk -> Call] /\ CallsLoaded'
    BY <2>1, <2>2, CallSet
  <2>. QED
    BY <1>2, <2>2, <2>3, OfficeStep
<1>. QED
  BY <1>3, <1>4, <1>5, <1>6, <1>7

\* A row created by account is a row that names no student.
LEMMA AccountRow ==
  ASSUME NEW u \in User, NEW c \in Class, NEW p \in Period
  PROVE  /\ ByAccount(u, c, p) \in EnrollmentRow
         /\ ByAccount(u, c, p).student = None /\ ByAccount(u, c, p).user = u /\ u # None
BY EnrollmentsAssumption DEF ByAccount, EnrollmentRow, Status

\* Appending a row to a table that keeps the rows.
LEMMA AppendStep ==
  ASSUME EnrollInv, NEW d \in Desk,
         NEW table \in Seq(EnrollmentRow), Len(table) = Len(enrollment),
         \A i \in DOMAIN enrollment :
           /\ table[i].student = enrollment[i].student /\ table[i].user = enrollment[i].user
           /\ table[i].class = enrollment[i].class /\ table[i].period = enrollment[i].period
           /\ table[i].absence = enrollment[i].absence,
         NEW row \in EnrollmentRow, row.student = None, row.user # None,
         Commits(Append(table, row)),
         call' = call \/ Becomes(d, Idle),
         UNCHANGED <<signupOpen, class, student, binding, report>>
  PROVE  EnrollInv'
<1>1. enrollment' = Append(table, row) /\ Len(enrollment') <= MaxRows /\ IndexesHold(enrollment')
  BY DEF Commits
<1>2. /\ enrollment' \in Seq(EnrollmentRow) /\ Len(enrollment') = Len(enrollment) + 1
      /\ DOMAIN enrollment' = 1 .. (Len(enrollment) + 1)
      /\ enrollment'[Len(enrollment) + 1] = row
      /\ DOMAIN enrollment = 1 .. Len(enrollment) /\ Len(enrollment) \in Nat
      /\ \A i \in DOMAIN enrollment : enrollment'[i] = table[i]
  BY <1>1, RowsTyped DEF EnrollInv
<1>3. RowsStay
  BY <1>2 DEF RowsStay
<1>4. \A i \in DOMAIN enrollment' \ DOMAIN enrollment : i = Len(enrollment) + 1
  BY <1>2
<1>5. IndexesHold(enrollment)'
  BY <1>1 DEF IndexesHold, ActiveIn
<1>6. call' \in [Desk -> Call] /\ \A e \in Desk : call'[e].op = "accept" => call'[e] = call[e]
  BY SMTT(30) DEF Becomes, Call, Idle, EnrollInv, EnrollmentsTypeOK
<1>. QED
  BY <1>1, <1>2, <1>3, <1>4, <1>5, <1>6, TableStep

\* An enrollment, and the commit of a transfer or promotion.
LEMMA AppendSteps ==
  ASSUME EnrollInv, NEW d \in Desk,
         EnrollStudent(d) \/ CommitTransfer(d) \/ CommitPromotion(d)
  PROVE  EnrollInv'
<1>1. CASE EnrollStudent(d)
  <2>1. PICK u \in User, c \in Class, p \in Period :
          Commits(Append(enrollment, ByAccount(u, c, p)))
    BY <1>1, Zenon DEF EnrollStudent
  <2>2. enrollment \in Seq(EnrollmentRow)
    BY DEF EnrollInv, EnrollmentsTypeOK
  <2>3. call' = call /\ UNCHANGED <<signupOpen, class, student, binding, report>>
    BY <1>1 DEF EnrollStudent
  <2>4. PICK row : row = ByAccount(u, c, p)
    OBVIOUS
  <2>. QED
    BY <2>1, <2>2, <2>3, <2>4, AccountRow, AppendStep
<1>2. CASE CommitTransfer(d) \/ CommitPromotion(d)
  <2>1. /\ call[d].op \in {"transferred", "promoted"} /\ Moves(call[d]) /\ Becomes(d, Idle)
        /\ UNCHANGED <<signupOpen, class, student, binding, report>>
    BY <1>2 DEF CommitTransfer, CommitPromotion
  <2>2. PICK u \in User, c \in Class, p \in Period :
          u = call[d].user /\ c = call[d].class /\ p = call[d].period
    BY <2>1, CallFields DEF EnrollInv
  <2>3. PICK row : row = ByAccount(u, c, p)
    OBVIOUS
  <2>4. PICK op \in {"transferred", "promoted"} : op = call[d].op
    BY <2>1
  <2>5. PICK r : r = call[d].row
    OBVIOUS
  <2>6. PICK table : table = [enrollment EXCEPT ![r].status = op]
    OBVIOUS
  <2>7. Commits(Append(table, row))
    BY <2>1, <2>2, <2>3, <2>4, <2>5, <2>6 DEF Moves, Left
  <2>8. enrollment \in Seq(EnrollmentRow)
    BY DEF EnrollInv, EnrollmentsTypeOK
  <2>9. \A i \in DOMAIN enrollment :
          table[i] = IF i = r THEN [enrollment[i] EXCEPT !.status = op] ELSE enrollment[i]
    BY <2>6
  <2>10. \A i \in DOMAIN enrollment :
           /\ table[i] \in EnrollmentRow
           /\ table[i].student = enrollment[i].student /\ table[i].user = enrollment[i].user
           /\ table[i].class = enrollment[i].class /\ table[i].period = enrollment[i].period
           /\ table[i].absence = enrollment[i].absence
    <3>1. \A e \in EnrollmentRow :
            LET f == [e EXCEPT !.status = op] IN
              /\ f \in EnrollmentRow /\ f.student = e.student /\ f.user = e.user
              /\ f.class = e.class /\ f.period = e.period /\ f.absence = e.absence
      BY DEF EnrollmentRow, Status
    <3>2. \A i \in DOMAIN enrollment : enrollment[i] \in EnrollmentRow
      BY <2>8
    <3>. QED
      BY <2>9, <3>1, <3>2
  <2>11. table = [i \in DOMAIN enrollment |-> table[i]]
    BY <2>6
  <2>12. table \in Seq(EnrollmentRow) /\ Len(table) = Len(enrollment)
    BY <2>8, <2>10, <2>11, RowsMapped
  <2>. QED
    BY <2>1, <2>2, <2>3, <2>7, <2>10, <2>12, AccountRow, AppendStep
<1>. QED
  BY <1>1, <1>2

\* An exit ends the active enrollments of an account in a period.
LEMMA ExitStep ==
  ASSUME EnrollInv, NEW d \in Desk, ExitStudent(d)
  PROVE  EnrollInv'
<1>1. PICK u \in User, p \in Period, status \in ExitStatus :
        enrollment' = [i \in DOMAIN enrollment |->
          IF i \in ActiveOf(u, p) THEN [enrollment[i] EXCEPT !.status = status] ELSE enrollment[i]]
  BY Zenon DEF ExitStudent
<1>2. UNCHANGED <<signupOpen, class, student, binding, report, call>>
  BY DEF ExitStudent
<1>3. enrollment \in Seq(EnrollmentRow) /\ Len(enrollment) <= MaxRows
  BY DEF EnrollInv, EnrollmentsTypeOK
<1>4. status \in Status \ {"active"}
  BY EnrollmentsAssumption DEF Status
<1>5. \A i \in DOMAIN enrollment :
        /\ enrollment'[i] \in EnrollmentRow
        /\ enrollment'[i].student = enrollment[i].student /\ enrollment'[i].user = enrollment[i].user
        /\ enrollment'[i].class = enrollment[i].class /\ enrollment'[i].period = enrollment[i].period
        /\ enrollment'[i].absence = enrollment[i].absence
        /\ enrollment'[i].status = "active" => enrollment[i].status = "active"
  <2>1. \A e \in EnrollmentRow :
          LET f == [e EXCEPT !.status = status] IN
            /\ f \in EnrollmentRow /\ f.student = e.student /\ f.user = e.user
            /\ f.class = e.class /\ f.period = e.period /\ f.absence = e.absence
            /\ f.status # "active"
    BY <1>4 DEF EnrollmentRow
  <2>2. \A i \in DOMAIN enrollment : enrollment[i] \in EnrollmentRow
    BY <1>3
  <2>. QED
    BY <1>1, <2>1, <2>2
<1>6. /\ enrollment' \in Seq(EnrollmentRow) /\ Len(enrollment') = Len(enrollment)
      /\ DOMAIN enrollment' = DOMAIN enrollment
  <2>1. enrollment' = [i \in DOMAIN enrollment |-> enrollment'[i]]
    BY <1>1
  <2>. QED
    BY <1>3, <1>5, <2>1, RowsMapped
<1>7. RowsStay
  BY <1>5, <1>6 DEF RowsStay
<1>8. IndexesHold(enrollment)'
  BY <1>5, <1>6 DEF IndexesHold, ActiveIn, EnrollInv
<1>9. call' \in [Desk -> Call]
  BY <1>2 DEF EnrollInv, EnrollmentsTypeOK
<1>. QED
  BY <1>2, <1>3, <1>5, <1>6, <1>7, <1>8, <1>9, TableStep

\* A binding gives every row of the student to the account.
LEMMA BindStep ==
  ASSUME EnrollInv, NEW u \in User, Bind(u) \/ Unbind(u)
  PROVE  EnrollInv'
<1>1. PICK s \in Student : s = NisOf[u]
  BY EnrollmentsAssumption
<1>2. binding \in [Student -> User \cup {None}]
  BY DEF EnrollInv, EnrollmentsTypeOK
<1>3. CASE Unbind(u)
  <2>1. /\ binding' = [binding EXCEPT ![s] = None]
        /\ UNCHANGED <<signupOpen, class, student, enrollment, report, call>>
    BY <1>1, <1>3 DEF Unbind
  <2>2. /\ binding' \in [Student -> User \cup {None}]
        /\ \A t \in Student : binding'[t] \in {binding[t], None}
    BY <1>2, <2>1
  <2>3. /\ signupOpen \in BOOLEAN /\ class \in [Class -> Period \cup {None}]
        /\ report \in [Report -> ReportRow \cup {None}] /\ call \in [Desk -> Call]
    BY DEF EnrollInv, EnrollmentsTypeOK
  <2>4. CallsLoaded'
    BY <2>1 DEF EnrollInv, CallsLoaded
  <2>. QED
    BY <2>1, <2>2, <2>3, <2>4, OfficeStep
<1>4. CASE Bind(u)
  <2>1. PICK table : table = [i \in DOMAIN enrollment |->
                        IF enrollment[i].student = s THEN [enrollment[i] EXCEPT !.user = u]
                        ELSE enrollment[i]]
    OBVIOUS
  <2>2. /\ s \in student /\ binding[s] \in {None, u}
        /\ binding' = [binding EXCEPT ![s] = u]
        /\ Commits(table)
        /\ UNCHANGED <<signupOpen, class, student, report, call>>
    BY <1>1, <1>4, <2>1 DEF Bind
  <2>3. enrollment' = table /\ Len(enrollment') <= MaxRows /\ IndexesHold(enrollment)'
    BY <2>2 DEF Commits, IndexesHold, ActiveIn
  <2>4. enrollment \in Seq(EnrollmentRow) /\ s # None /\ u # None
    BY EnrollmentsAssumption DEF EnrollInv, EnrollmentsTypeOK
  <2>5. \A i \in DOMAIN enrollment :
          /\ enrollment'[i] \in EnrollmentRow
          /\ enrollment'[i].student = enrollment[i].student
          /\ enrollment'[i].class = enrollment[i].class /\ enrollment'[i].period = enrollment[i].period
          /\ enrollment'[i].absence = enrollment[i].absence
          /\ enrollment[i].student = s => enrollment'[i].user = u
          /\ enrollment[i].student # s => enrollment'[i].user = enrollment[i].user
    <3>1. \A e \in EnrollmentRow :
            LET f == [e EXCEPT !.user = u] IN
              /\ f \in EnrollmentRow /\ f.student = e.student /\ f.user = u
              /\ f.class = e.class /\ f.period = e.period /\ f.absence = e.absence
      BY DEF EnrollmentRow
    <3>2. \A i \in DOMAIN enrollment : enrollment[i] \in EnrollmentRow
      BY <2>4
    <3>. QED
      BY <2>1, <2>3, <3>1, <3>2
  <2>6. /\ enrollment' \in Seq(EnrollmentRow) /\ DOMAIN enrollment' = DOMAIN enrollment
    <3>1. enrollment' = [i \in DOMAIN enrollment |-> enrollment'[i]]
      BY <2>1, <2>3
    <3>. QED
      BY <2>4, <2>5, <3>1, RowsMapped
  <2>7. RowsStay
    BY <2>5, <2>6 DEF RowsStay
  <2>8. binding' \in [Student -> User \cup {None}]
    BY <1>2, <2>2
  <2>9. EnrollmentsTypeOK'
    <3>1. \A e \in ToSet(enrollment') : ~(e.student = None /\ e.user = None)
      BY <2>4, <2>5, <2>6, RowsTyped DEF ToSet, EnrollInv
    <3>. QED
      BY <2>2, <2>3, <2>6, <2>8, <3>1 DEF EnrollInv, EnrollmentsTypeOK
  <2>10. ListedOnce'
    BY <2>2, <2>5, <2>6 DEF EnrollInv, ListedOnce
  <2>11. BoundRows'
    <3>1. ASSUME NEW v \in User, binding'[NisOf[v]] = v, NEW i \in DOMAIN enrollment',
                 enrollment'[i].student = NisOf[v]
          PROVE  enrollment'[i].user = v
      <4>1. PICK t \in Student : t = NisOf[v]
        BY EnrollmentsAssumption
      <4>2. CASE t = s
        <5>1. v = u
          BY <1>2, <2>2, <3>1, <4>1, <4>2
        <5>. QED
          BY <2>5, <2>6, <3>1, <4>1, <4>2, <5>1
      <4>3. CASE t # s
        <5>1. binding[NisOf[v]] = v
          BY <1>2, <2>2, <3>1, <4>1, <4>3
        <5>2. enrollment[i].student = NisOf[v] /\ enrollment'[i].user = enrollment[i].user
          BY <2>5, <2>6, <3>1, <4>1, <4>3
        <5>. QED
          BY <2>6, <5>1, <5>2 DEF EnrollInv, BoundRows
      <4>. QED
        BY <4>2, <4>3
    <3>2. \A t \in Student : binding'[t] # None => t \in student'
      BY <1>2, <2>2 DEF EnrollInv, BoundRows
    <3>. QED
      BY <3>1, <3>2 DEF BoundRows
  <2>12. CallsLoaded'
    BY <2>2 DEF EnrollInv, CallsLoaded
  <2>13. AcceptedMeansEnrolled'
    BY <2>2, <2>7, EnrolledStay DEF AcceptedMeansEnrolled, EnrollInv
  <2>. QED
    BY <2>3, <2>9, <2>10, <2>11, <2>12, <2>13 DEF EnrollInv
<1>. QED
  BY <1>3, <1>4

\* Rows that carry out a report: one of each student, and as the report says.
CarriesOut(new, rep) ==
  /\ new \in Seq(EnrollmentRow)
  /\ \A i \in DOMAIN new : new[i].student \in DOMAIN rep.rows
  /\ \A i, j \in DOMAIN new : new[i].student = new[j].student => i = j
  /\ \A s \in DOMAIN rep.rows : \E i \in DOMAIN new :
       /\ new[i].student = s /\ new[i].period = rep.period
       /\ new[i].class = rep.rows[s].class /\ new[i].absence = rep.rows[s].absence

\* The rows that an acceptance lists do.
LEMMA ListedRows ==
  ASSUME NEW rep \in ReportRow, IsFiniteSet(DOMAIN rep.rows),
         NEW new, new = Listed(rep, DOMAIN rep.rows)
  PROVE  CarriesOut(new, rep)
<1> DEFINE S == DOMAIN rep.rows
           RowOf(s) == [student |-> s, user |-> None, class |-> rep.rows[s].class,
                        period |-> rep.period, absence |-> rep.rows[s].absence, status |-> "active"]
           R == {RowOf(s) : s \in S}
<1>1. PICK T \in SUBSET Student : rep.rows \in [T -> Listing] /\ rep.period \in Period
  BY DEF ReportRow
<1>2. S \subseteq Student /\ \A s \in S : rep.rows[s].class \in Class /\ rep.rows[s].absence \in Absence
  BY <1>1 DEF Listing
<1>3. \A s \in S : /\ RowOf(s) \in EnrollmentRow
                   /\ RowOf(s).student = s /\ RowOf(s).period = rep.period
                   /\ RowOf(s).class = rep.rows[s].class /\ RowOf(s).absence = rep.rows[s].absence
  BY <1>1, <1>2 DEF EnrollmentRow, Status
<1>4. IsFiniteSet(R)
  <2>1. [s \in S |-> RowOf(s)] \in Surjection(S, R)
    BY DEF Surjection
  <2>. QED
    BY <2>1, FS_Surjection
<1>5. new = SetToSeq(R)
  BY DEF Listed
<1> HIDE DEF RowOf
<1>6. R \subseteq EnrollmentRow
  BY <1>3
<1>7. /\ new \in Seq(R)
      /\ \A x \in R : \E i \in DOMAIN new : new[i] = x
      /\ \A i, j \in DOMAIN new : new[i] = new[j] => i = j
  BY <1>4, <1>5, SetListed, ZenonT(60)
<1>8. \A i \in DOMAIN new : \E s \in S : new[i] = RowOf(s) /\ new[i].student = s
  BY <1>3, <1>7
<1>9. new \in Seq(EnrollmentRow)
  BY <1>6, <1>7
<1>10. \A i, j \in DOMAIN new : new[i].student = new[j].student => i = j
  BY <1>7, <1>8
<1>11. \A s \in S : \E i \in DOMAIN new :
         /\ new[i].student = s /\ new[i].period = rep.period
         /\ new[i].class = rep.rows[s].class /\ new[i].absence = rep.rows[s].absence
  BY <1>3, <1>7
<1>. QED
  BY <1>8, <1>9, <1>10, <1>11 DEF CarriesOut

\* An acceptance adds the rows of its listing behind the others; its students
\* are new.
LEMMA CommitRosterStep ==
  ASSUME EnrollInv, NEW d \in Desk, CommitRoster(d)
  PROVE  EnrollInv'
<1>1. PICK r \in Report : r = call[d].report /\ report[r] # None
  BY CallFields DEF CommitRoster, EnrollInv, CallsLoaded
<1>2. PICK rep \in ReportRow : rep = report[r]
  BY <1>1 DEF EnrollInv, EnrollmentsTypeOK
<1>3. PICK new : new = Listed(rep, DOMAIN rep.rows)
  OBVIOUS
<1>4. /\ (DOMAIN rep.rows) \cap student = {}
      /\ student' = student \cup DOMAIN rep.rows
      /\ Commits(enrollment \o new)
      /\ report' = [report EXCEPT ![r].status = "accepted"]
      /\ Becomes(d, Idle)
      /\ UNCHANGED <<signupOpen, class, binding>>
  BY <1>1, <1>2, <1>3 DEF CommitRoster, CarryOut
<1>5. DOMAIN rep.rows \subseteq Student /\ IsFiniteSet(DOMAIN rep.rows)
  <2>1. DOMAIN rep.rows \subseteq Student
    BY DEF ReportRow
  <2>. QED
    BY <2>1, EnrollmentsAssumption, FS_Subset
<1>6. /\ new \in Seq(EnrollmentRow)
      /\ \A i \in DOMAIN new : new[i].student \in DOMAIN rep.rows
      /\ \A i, j \in DOMAIN new : new[i].student = new[j].student => i = j
      /\ \A s \in DOMAIN rep.rows : \E i \in DOMAIN new :
           /\ new[i].student = s /\ new[i].period = rep.period
           /\ new[i].class = rep.rows[s].class /\ new[i].absence = rep.rows[s].absence
  <2>1. CarriesOut(new, rep)
    BY <1>2, <1>3, <1>5, ListedRows
  <2>. QED
    BY <2>1 DEF CarriesOut
<1>7. PICK n \in Nat, m \in Nat : n = Len(enrollment) /\ m = Len(new)
  <2>1. Len(enrollment) \in Nat
    BY RowsTyped DEF EnrollInv
  <2>2. Len(new) \in Nat
    BY <1>6
  <2>. QED
    BY <2>1, <2>2
<1>8. /\ enrollment \in Seq(EnrollmentRow) /\ DOMAIN enrollment = 1 .. n /\ DOMAIN new = 1 .. m
  BY <1>6, <1>7 DEF EnrollInv, EnrollmentsTypeOK
<1>9. /\ enrollment' = enrollment \o new /\ Len(enrollment') <= MaxRows /\ IndexesHold(enrollment)'
  <2>1. enrollment' = enrollment \o new /\ Len(enrollment') <= MaxRows /\ IndexesHold(enrollment')
    BY <1>4 DEF Commits
  <2>. QED
    BY <2>1 DEF IndexesHold, ActiveIn
<1>10. /\ enrollment' \in Seq(EnrollmentRow) /\ DOMAIN enrollment' = 1 .. (n + m)
       /\ \A i \in 1 .. n : enrollment'[i] = enrollment[i]
       /\ \A i \in 1 .. m : enrollment'[n + i] = new[i]
  BY <1>6, <1>7, <1>8, <1>9
<1>11. \A i \in DOMAIN enrollment' :
         \/ i \in DOMAIN enrollment /\ enrollment'[i] = enrollment[i]
         \/ /\ i - n \in DOMAIN new /\ enrollment'[i] = new[i - n]
            /\ enrollment'[i].student \in DOMAIN rep.rows
  <2>1. ASSUME NEW i \in 1 .. (n + m), i \notin 1 .. n
        PROVE  i - n \in 1 .. m /\ enrollment'[i] = new[i - n]
    <3>1. i - n \in 1 .. m /\ n + (i - n) = i
      BY <2>1
    <3>. QED
      BY <1>10, <3>1
  <2>. QED
    BY <1>6, <1>8, <1>10, <2>1
<1>12. RowsStay
  BY <1>8, <1>10 DEF RowsStay
<1>13. /\ report' \in [Report -> ReportRow \cup {None}] /\ report'[r] # None
       /\ report'[r].rows = rep.rows /\ report'[r].period = rep.period
       /\ \A q \in Report \ {r} : report'[q] = report[q]
  <2>1. report \in [Report -> ReportRow \cup {None}]
    BY DEF EnrollInv, EnrollmentsTypeOK
  <2>2. PICK done : done = [rep EXCEPT !.status = "accepted"]
    OBVIOUS
  <2>3. done \in ReportRow /\ done.rows = rep.rows /\ done.period = rep.period
    BY <2>2 DEF ReportRow
  <2>4. report' = [report EXCEPT ![r] = done]
    BY <1>2, <1>4, <2>2
  <2>. QED
    BY <2>1, <2>3, <2>4, EnrollmentsNullAssumption
<1>14. call' \in [Desk -> Call] /\ \A e \in Desk : call'[e].op = "accept" => call'[e] = call[e]
  BY <1>4 DEF Becomes, Call, Idle, EnrollInv, EnrollmentsTypeOK
<1>15. None \notin DOMAIN rep.rows
  BY <1>5, EnrollmentsAssumption
<1>16. EnrollmentsTypeOK'
  <2>1. \A e \in ToSet(enrollment') : ~(e.student = None /\ e.user = None)
    BY <1>11, <1>15, RowsTyped DEF ToSet, EnrollInv
  <2>. QED
    BY <1>4, <1>5, <1>9, <1>10, <1>13, <1>14, <2>1 DEF EnrollInv, EnrollmentsTypeOK
<1>17. ListedOnce'
  <2>1. \A i \in DOMAIN enrollment' : enrollment'[i].student # None => enrollment'[i].student \in student'
    BY <1>4, <1>11 DEF EnrollInv, ListedOnce
  <2>2. ASSUME NEW i \in DOMAIN enrollment', NEW j \in DOMAIN enrollment',
               enrollment'[i].student # None, enrollment'[i].student = enrollment'[j].student
        PROVE  i = j
    <3>1. CASE i \in DOMAIN enrollment
      <4>1. enrollment'[i].student \in student
        BY <1>8, <1>10, <2>2, <3>1 DEF EnrollInv, ListedOnce
      <4>2. j \in DOMAIN enrollment /\ enrollment'[j] = enrollment[j]
        BY <1>4, <1>11, <2>2, <4>1
      <4>. QED
        BY <1>8, <1>10, <2>2, <3>1, <4>2 DEF EnrollInv, ListedOnce
    <3>2. CASE i \notin DOMAIN enrollment
      <4>1. /\ i - n \in DOMAIN new /\ enrollment'[i] = new[i - n]
            /\ enrollment'[i].student \in DOMAIN rep.rows
        BY <1>11, <3>2
      <4>2. j \notin DOMAIN enrollment
        BY <1>4, <1>8, <1>10, <2>2, <4>1 DEF EnrollInv, ListedOnce
      <4>3. j - n \in DOMAIN new /\ enrollment'[j] = new[j - n]
        BY <1>11, <4>2
      <4>4. i - n = j - n
        BY <1>6, <2>2, <4>1, <4>3
      <4>. QED
        BY <1>10, <4>4
    <3>. QED
      BY <3>1, <3>2
  <2>. QED
    BY <2>1, <2>2 DEF ListedOnce
<1>18. BoundRows'
  <2>1. ASSUME NEW u \in User, binding[NisOf[u]] = u, NEW i \in DOMAIN enrollment',
               enrollment'[i].student = NisOf[u]
        PROVE  enrollment'[i].user = u
    <3>1. NisOf[u] \in student
      BY <2>1, EnrollmentsAssumption DEF EnrollInv, BoundRows
    <3>2. i \in DOMAIN enrollment /\ enrollment'[i] = enrollment[i]
      BY <1>4, <1>11, <2>1, <3>1
    <3>. QED
      BY <2>1, <3>2 DEF EnrollInv, BoundRows
  <2>. QED
    BY <1>4, <2>1 DEF EnrollInv, BoundRows
<1>19. CallsLoaded'
  BY <1>13, <1>14, CallFields DEF EnrollInv, CallsLoaded
<1>20. AcceptedMeansEnrolled'
  <2>1. ASSUME NEW s \in DOMAIN rep.rows
        PROVE  /\ s \in student'
               /\ \E i \in DOMAIN enrollment' :
                    /\ enrollment'[i].student = s /\ enrollment'[i].period = rep.period
                    /\ enrollment'[i].class = rep.rows[s].class
                    /\ enrollment'[i].absence = rep.rows[s].absence
    <3>1. PICK i \in 1 .. m :
            /\ new[i].student = s /\ new[i].period = rep.period
            /\ new[i].class = rep.rows[s].class /\ new[i].absence = rep.rows[s].absence
      BY <1>6, <1>8
    <3>2. n + i \in DOMAIN enrollment' /\ enrollment'[n + i] = new[i]
      BY <1>10
    <3>. QED
      BY <1>4, <3>1, <3>2
  <2>2. ASSUME NEW q \in Report \ {r}, report'[q] # None, report'[q].status = "accepted",
               NEW s \in DOMAIN report'[q].rows
        PROVE  /\ s \in student'
               /\ \E i \in DOMAIN enrollment' :
                    /\ enrollment'[i].student = s
                    /\ enrollment'[i].period = report'[q].period
                    /\ enrollment'[i].class = report'[q].rows[s].class
                    /\ enrollment'[i].absence = report'[q].rows[s].absence
    <3>1. report'[q] = report[q]
      BY <1>13
    <3>. QED
      BY <1>4, <1>12, <2>2, <3>1, EnrolledStay DEF EnrollInv
  <2>. QED
    BY <1>13, <2>1, <2>2 DEF AcceptedMeansEnrolled
<1>. QED
  BY <1>9, <1>16, <1>17, <1>18, <1>19, <1>20 DEF EnrollInv

\* Every step keeps the invariant.
LEMMA EnrollStep == EnrollInv /\ [EnrollmentsNext]_enrollmentVars => EnrollInv'
<1> SUFFICES ASSUME EnrollInv, [EnrollmentsNext]_enrollmentVars
             PROVE  EnrollInv'
  OBVIOUS
<1>1. CASE UNCHANGED enrollmentVars
  <2>1. UNCHANGED <<signupOpen, class, student, binding, enrollment, report, call>>
    BY <1>1 DEF enrollmentVars
  <2>2. /\ signupOpen \in BOOLEAN /\ class \in [Class -> Period \cup {None}]
        /\ binding \in [Student -> User \cup {None}]
        /\ report \in [Report -> ReportRow \cup {None}] /\ call \in [Desk -> Call]
    BY DEF EnrollInv, EnrollmentsTypeOK
  <2>3. CallsLoaded'
    BY <2>1 DEF EnrollInv, CallsLoaded
  <2>. QED
    BY <2>1, <2>2, <2>3, OfficeStep
<1>. QED
  BY <1>1, OfficeSteps, AppendSteps, ExitStep, BindStep, CommitRosterStep DEF EnrollmentsNext

\* The invariant of the enrollments holds for any number of students,
\* accounts, classes, periods, reports, administrators and rows.
LEMMA EnrollInductive == EnrollmentsSpec => []EnrollInv
BY EnrollStart, EnrollStep, PTL DEF EnrollmentsSpec

\* A student and the account bound to it have one active enrollment a period
\* between them: the rows of the student name the account, and the index of
\* the account is left.
LEMMA OnePersonOneClass == EnrollInv => OneClassPerPerson
<1> SUFFICES ASSUME EnrollInv, NEW u \in User, NEW p \in Period,
                    NEW i \in ActiveIn(enrollment), NEW j \in ActiveIn(enrollment),
                    enrollment[i].period = p, enrollment[j].period = p,
                    \/ enrollment[i].user = u
                    \/ binding[NisOf[u]] = u /\ enrollment[i].student = NisOf[u],
                    \/ enrollment[j].user = u
                    \/ binding[NisOf[u]] = u /\ enrollment[j].student = NisOf[u]
             PROVE  i = j
  BY DEF OneClassPerPerson
<1>1. i \in DOMAIN enrollment /\ j \in DOMAIN enrollment
  BY DEF ActiveIn
<1>2. enrollment[i].user = u /\ enrollment[j].user = u /\ u # None
  BY <1>1, EnrollmentsAssumption DEF EnrollInv, BoundRows
<1>. QED
  BY <1>2 DEF EnrollInv, IndexesHold

\* One class per person and period, whatever signups, transfers and
\* promotions are under way (bindStudentToUser, transferStudentEnrollment,
\* promoteStudentEnrollment).
THEOREM PersonsHaveOneClass == EnrollmentsSpec => []OneClassPerPerson
BY EnrollInductive, OnePersonOneClass, PTL

\* An accepted report stays carried out as a whole (acceptRosterReport).
THEOREM AcceptedReportsAreEnrolled == EnrollmentsSpec => []AcceptedMeansEnrolled
<1>1. EnrollInv => AcceptedMeansEnrolled
  BY DEF EnrollInv
<1>. QED
  BY <1>1, EnrollInductive, PTL

-----------------------------------------------------------------------------
(* The readers of the enrollments.                                          *)

\* The class of no row and of one row.
LEMMA ClassOfRows ==
  ASSUME NEW p, NEW i
  PROVE  /\ OfOneRow({}, p) = Because("no_active_enrollment")
         /\ OfOneRow({i}, p) = ClassIn(i, p)
<1>1. Cardinality({i}) = 1
  BY FS_Singleton
<1>2. {i} # {} /\ ~(Cardinality({i}) > 1) /\ (CHOOSE j \in {i} : TRUE) = i
  BY <1>1
<1>3. OfOneRow({}, p) = Because("no_active_enrollment")
  <2>1. Cardinality({}) = 0
    BY FS_EmptySet
  <2>2. ~(Cardinality({}) > 1)
    BY <2>1
  <2>. QED
    BY <2>2 DEF OfOneRow
<1>4. OfOneRow({i}, p) = ClassIn(CHOOSE j \in {i} : TRUE, p)
  BY <1>2 DEF OfOneRow
<1>. QED
  BY <1>2, <1>3, <1>4

\* Looking a class up gives it or says why not.
LEMMA AnswerOfRow ==
  ASSUME NEW i, NEW p
  PROVE  \/ ClassIn(i, p) = Answer(enrollment[i].class)
         \/ ClassIn(i, p) = Because("class_not_in_current_period")
BY DEF ClassIn

\* The greatest of one.
LEMMA MaxOfOne == ASSUME NEW i \in Nat PROVE Max({i}) = i
BY DEF Max

\* What the administrators' list finds of a student it finds in one row, the
\* row of the account too, and the row that the roster has the class from.
LEMMA ViewIsAnswer ==
  ASSUME EnrollInv, NEW u \in User, NEW active \in SUBSET Period, TheActive(active) # None,
         ViewOf(u, active) # Because("no_active_enrollment")
  PROVE  \E i \in DOMAIN enrollment :
           /\ ViewOf(u, active) = ClassIn(i, TheActive(active))
           /\ AccountAnswer(u, active) = ViewOf(u, active)
           /\ CanonicalClass(u) = enrollment[i].class
           /\ ProfileClass(u, TheActive(active)) = enrollment[i].class
<1>1. PICK p : p = TheActive(active) /\ p # None
  OBVIOUS
<1>2. PICK rows : rows = {i \in RosterRows(u) : enrollment[i].period = p}
  OBVIOUS
<1>3. ViewOf(u, active) = OfOneRow(rows, p)
  BY <1>1, <1>2 DEF ViewOf
<1>4. rows # {}
  BY <1>3, ClassOfRows
<1>5. PICK i \in DOMAIN enrollment :
        /\ binding[NisOf[u]] = u /\ enrollment[i].student = NisOf[u]
        /\ enrollment[i].status = "active" /\ enrollment[i].period = p /\ i \in rows
  BY <1>2, <1>4 DEF RosterRows, ActiveIn
<1>6. NisOf[u] # None /\ u # None /\ i \in Nat
  BY <1>5, EnrollmentsAssumption, RowsTyped DEF EnrollInv
<1>7. \A j \in DOMAIN enrollment : enrollment[j].student = NisOf[u] => j = i
  BY <1>5, <1>6 DEF EnrollInv, ListedOnce
<1>8. rows = {i}
  BY <1>2, <1>5, <1>7 DEF RosterRows, ActiveIn
<1>9. AccountRows(u, p) = {i}
  <2>1. enrollment[i].user = u
    BY <1>5 DEF EnrollInv, BoundRows
  <2>2. i \in AccountRows(u, p)
    BY <1>5, <2>1 DEF AccountRows, ActiveOf, ActiveIn
  <2>3. \A j \in AccountRows(u, p) : j = i
    BY <1>5, <1>6, <2>1 DEF AccountRows, ActiveOf, ActiveIn, EnrollInv, IndexesHold
  <2>. QED
    BY <2>2, <2>3
<1>10. ViewOf(u, active) = ClassIn(i, p) /\ AccountAnswer(u, active) = ClassIn(i, p)
  BY <1>1, <1>3, <1>8, <1>9, ClassOfRows DEF AccountAnswer
<1>11. CanonicalClass(u) = enrollment[i].class
  <2>1. {j \in ActiveIn(enrollment) : enrollment[j].student = NisOf[u]} = {i}
    BY <1>5, <1>7 DEF ActiveIn
  <2>. QED
    BY <1>5, <1>6, <2>1, MaxOfOne DEF CanonicalClass, RosterClass
<1>12. ProfileClass(u, p) = enrollment[i].class
  BY <1>6, <1>9, MaxOfOne DEF ProfileClass
<1>. QED
  BY <1>1, <1>10, <1>11, <1>12

\* The readers agree wherever the tables may stand.
LEMMA ReadersAgree == EnrollInv => OfferedIsGranted
<1> SUFFICES ASSUME EnrollInv, NEW active \in SUBSET Period
             PROVE  /\ \A u \in User :
                         LET view == ViewOf(u, active) IN
                           view.class # None =>
                             /\ AccountAnswer(u, active) = view
                             /\ CanonicalClass(u) = view.class
                             /\ ProfileClass(u, TheActive(active)) = view.class
                    /\ \A granted \in SUBSET User :
                         /\ \A c \in CoveredClasses(granted, active) :
                              \E u \in granted : AccountAnswer(u, active) = Answer(c)
                         /\ CoverageFails(granted, active) /\ TheActive(active) # None =>
                              \E u \in granted :
                                AccountAnswer(u, active) = Because("class_not_in_current_period")
  BY DEF OfferedIsGranted
<1>1. \A why, c : /\ Because(why).class = None /\ Because(why).reason = why
                  /\ Answer(c).class = c /\ Answer(c).reason = None
  BY DEF Because, Answer
<1>2. ASSUME NEW u \in User, ViewOf(u, active).class # None
      PROVE  /\ AccountAnswer(u, active) = ViewOf(u, active)
             /\ CanonicalClass(u) = ViewOf(u, active).class
             /\ ProfileClass(u, TheActive(active)) = ViewOf(u, active).class
             /\ ViewOf(u, active) = Answer(ViewOf(u, active).class)
  <2>1. TheActive(active) # None
    BY <1>1, <1>2 DEF ViewOf
  <2>2. PICK i \in DOMAIN enrollment :
          /\ ViewOf(u, active) = ClassIn(i, TheActive(active))
          /\ AccountAnswer(u, active) = ViewOf(u, active)
          /\ CanonicalClass(u) = enrollment[i].class
          /\ ProfileClass(u, TheActive(active)) = enrollment[i].class
    BY <1>1, <1>2, <2>1, ViewIsAnswer
  <2>. QED
    BY <1>1, <1>2, <2>2, AnswerOfRow
<1>3. ASSUME NEW u \in User, TheActive(active) # None,
             ViewOf(u, active).reason \in {"ambiguous_active_enrollment",
                                           "class_not_in_current_period"}
      PROVE  AccountAnswer(u, active) = Because("class_not_in_current_period")
  <2>1. PICK i \in DOMAIN enrollment :
          /\ ViewOf(u, active) = ClassIn(i, TheActive(active))
          /\ AccountAnswer(u, active) = ViewOf(u, active)
    BY <1>1, <1>3, ViewIsAnswer
  <2>2. None \notin {"ambiguous_active_enrollment", "class_not_in_current_period"}
    BY ReasonAssumption
  <2>3. ViewOf(u, active) # Answer(enrollment[i].class)
    BY <1>1, <1>3, <2>2
  <2>. QED
    BY <2>1, <2>3, AnswerOfRow
<1>4. ASSUME NEW granted \in SUBSET User, NEW c \in CoveredClasses(granted, active)
      PROVE  \E u \in granted : AccountAnswer(u, active) = Answer(c)
  <2>1. PICK u \in granted : c = ViewOf(u, active).class /\ c # None
    BY <1>4 DEF CoveredClasses
  <2>. QED
    BY <1>2, <2>1
<1>5. ASSUME NEW granted \in SUBSET User, CoverageFails(granted, active), TheActive(active) # None
      PROVE  \E u \in granted : AccountAnswer(u, active) = Because("class_not_in_current_period")
  BY <1>3, <1>5 DEF CoverageFails
<1>. QED
  BY <1>2, <1>4, <1>5

\* Whoever the administrators' list offers can be granted, and sees the class
\* offered on the dashboard and in the profile; today's coverage waits for no
\* class that nobody can report for (listAdiwiyataAdminEligibility,
\* grantAdiwiyataEligibility, getAdiwiyataDashboard, getProfile,
\* listAdiwiyataAdminReports).
THEOREM OffersAreGranted == EnrollmentsSpec => []OfferedIsGranted
BY EnrollInductive, ReadersAgree, PTL

-----------------------------------------------------------------------------
(* The administration.                                                      *)

\* Beside each other the components are themselves.
LEMMA AdministrationParts == AdministrationSpec => EnrollmentsSpec /\ PeriodsSpec
<1>1. AdministrationInit => EnrollmentsInit /\ PeriodsInit
  BY DEF AdministrationInit
<1>2. [AdministrationNext]_<<part, enrollmentVars, periodVars>>
        => [EnrollmentsNext]_enrollmentVars /\ [PeriodsNext]_periodVars
  BY DEF AdministrationNext
<1>. QED
  BY <1>1, <1>2, PTL DEF AdministrationSpec, EnrollmentsSpec, PeriodsSpec

\* All parts keep their types.
THEOREM AdministrationTyped == AdministrationSpec => []AdministrationTypeOK
<1>1. EnrollInv /\ PeriodsInv => AdministrationTypeOK
  BY DEF EnrollInv, PeriodsInv, AdministrationTypeOK
<1>. QED
  BY <1>1, AdministrationParts, EnrollInductive, PeriodsInductive, PTL

\* What the run checks of the administration together, for any size of it.
THEOREM AdministrationSafe ==
  AdministrationSpec => [](OneClassPerPerson /\ AcceptedMeansEnrolled /\ OfferedIsGranted
                             /\ ActivationSettles)
BY AdministrationParts, PersonsHaveOneClass, AcceptedReportsAreEnrolled, OffersAreGranted,
   ActivationLeavesOne, PTL
=============================================================================
