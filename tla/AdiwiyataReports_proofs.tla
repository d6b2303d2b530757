----------------------- MODULE AdiwiyataReports_proofs -----------------------
(***************************************************************************)
(* The safety of AdiwiyataReports for any number of submissions, students, *)
(* classes and Sites.                                                      *)
(***************************************************************************)
EXTENDS AdiwiyataReports, TLAPS

\* What the phase of a handler says about its file, its object, its transaction
\* and its report.  An open transaction has a stored object and a pending file,
\* and no handler is on its way to delete them.
Sound(p) ==
  LET phase == submission[p].phase IN
    /\ phase = "new" => file[p] = "none" /\ p \notin stored
    /\ phase \in {"created", "stored", "refused", "unstored", "unmarked"}
         => file[p] = "pending" /\ p \notin open /\ p \notin filed
    /\ phase = "stored" => p \in stored
    /\ phase = "unmarked" => p \notin stored
    /\ phase = "sent" => p \in open
    /\ p \in open => /\ phase \in {"sent", "unsure", "done"}
                     /\ file[p] = "pending" /\ p \in stored /\ p \notin filed
    /\ p \in filed => /\ phase \in {"unsure", "done"}
                      /\ file[p] = "available" /\ p \in stored
    /\ p \in stored => file[p] \in {"pending", "available"}

PhasesInv == \A p \in Submission : Sound(p)

\* What the locks of an open transaction keep true of what it has checked.
LocksInv ==
  /\ \A p \in open :
       /\ submission[p].class \in Class
       /\ class[submission[p].student] = submission[p].class
       /\ ~Closed(submission[p].class, submission[p].site)
       /\ ~Duplicate(submission[p].student, submission[p].class, submission[p].site)
  /\ \A p, q \in open : p # q => submission[p].student # submission[q].student

\* The parts of the state that are filled in as a submission goes on.
IdentityInv ==
  \A p \in Submission : ~In(p, "new") =>
    /\ submission[p].student \in Student /\ submission[p].class \in Class
    /\ submission[p].site \in Site

ReportsInv == /\ ReportsTypeOK /\ IdentityInv /\ PhasesInv /\ LocksInv
              /\ OneReportPerSite

-----------------------------------------------------------------------------
\* Init establishes the invariant.
LEMMA InitReportsInv == ReportsInit => ReportsInv
<1> SUFFICES ASSUME ReportsInit PROVE ReportsInv
  OBVIOUS
<1>1. ReportsTypeOK
  BY ReportsAssumption DEF ReportsInit, ReportsTypeOK, SubmissionState, Phase
<1>2. IdentityInv /\ PhasesInv /\ LocksInv
  BY DEF ReportsInit, IdentityInv, PhasesInv, Sound, LocksInv, In
<1>3. OneReportPerSite
  BY DEF ReportsInit, OneReportPerSite
<1>. QED
  BY <1>1, <1>2, <1>3 DEF ReportsInv

\* A handler that only moves on keeps its types and its identity.
LEMMA GoToType ==
  ASSUME ReportsTypeOK, NEW p \in Submission, NEW phase \in Phase, GoTo(p, phase)
  PROVE  /\ submission' \in [Submission -> SubmissionState]
         /\ submission'[p] = [submission[p] EXCEPT !.phase = phase]
         /\ submission'[p].phase = phase
         /\ \A q \in Submission : q # p => submission'[q] = submission[q]
         /\ \A q \in Submission : /\ submission'[q].student = submission[q].student
                                  /\ submission'[q].class = submission[q].class
                                  /\ submission'[q].site = submission[q].site
<1> DEFINE moved == [submission[p] EXCEPT !.phase = phase]
<1>1. submission \in [Submission -> SubmissionState]
  BY DEF ReportsTypeOK
<1>2. submission' = [submission EXCEPT ![p] = moved]
  BY <1>1 DEF GoTo
<1>3. /\ moved \in SubmissionState /\ moved.phase = phase
      /\ moved.student = submission[p].student
      /\ moved.class = submission[p].class
      /\ moved.site = submission[p].site
  BY <1>1 DEF SubmissionState
<1> HIDE DEF moved
<1>4. /\ submission' \in [Submission -> SubmissionState]
      /\ submission'[p] = moved
      /\ \A q \in Submission : q # p => submission'[q] = submission[q]
  BY <1>1, <1>2, <1>3
<1>5. \A q \in Submission : /\ submission'[q].student = submission[q].student
                            /\ submission'[q].class = submission[q].class
                            /\ submission'[q].site = submission[q].site
  BY <1>3, <1>4
<1>. QED
  BY <1>3, <1>4, <1>5 DEF moved

\* Every step keeps the types.
LEMMA NextType == ReportsInv /\ Next => ReportsTypeOK'
<1> SUFFICES ASSUME ReportsInv, Next PROVE ReportsTypeOK'
  OBVIOUS
<1>1. ReportsTypeOK
  BY DEF ReportsInv
<1>2. ASSUME NEW p \in Submission, NEW s \in Student, NEW x \in Site, Begin(p, s, x)
      PROVE  ReportsTypeOK'
  <2> DEFINE c == [phase |-> "created", student |-> s, class |-> class[s], site |-> x]
  <2>1. c \in SubmissionState
    BY <1>1 DEF ReportsTypeOK, SubmissionState, Phase
  <2>2. submission' = [submission EXCEPT ![p] = c] /\ s # None
    BY <1>2, ReportsAssumption DEF Begin
  <2>3. submission' \in [Submission -> SubmissionState]
    BY <1>1, <2>1, <2>2 DEF ReportsTypeOK
  <2>4. open' \subseteq {q \in Submission : submission'[q].student # None}
    BY <1>1, <1>2, <2>2 DEF ReportsTypeOK, Begin
  <2>. QED
    BY <1>1, <1>2, <2>3, <2>4 DEF ReportsTypeOK, Begin, school, reports
<1>3. ASSUME NEW p \in Submission, NEW phase \in Phase, GoTo(p, phase),
             UNCHANGED <<school, reports>>,
             file' \in [Submission -> {"none", "pending", "available", "deleted"}],
             stored' \subseteq Submission,
             open' \subseteq open \cup (IF submission[p].student # None THEN {p} ELSE {})
      PROVE  ReportsTypeOK'
  <2>1. /\ submission' \in [Submission -> SubmissionState]
        /\ \A q \in Submission : submission'[q].student = submission[q].student
    BY <1>1, <1>3, GoToType
  <2>2. open' \subseteq {q \in Submission : submission'[q].student # None}
    BY <1>1, <1>3, <2>1 DEF ReportsTypeOK
  <2>. QED
    BY <1>1, <1>3, <2>1, <2>2 DEF ReportsTypeOK, school, reports
<1>4. ASSUME NEW p \in Submission, HandlerStep(p)
      PROVE  ReportsTypeOK'
  <2>1. CASE Upload(p)
    BY <1>1, <1>3, <2>1 DEF Upload, ReportsTypeOK, Phase
  <2>2. CASE Check(p)
    <3>1. submission[p].student # None
      BY <2>2, ReportsAssumption DEF Check, ReportsInv, IdentityInv, In
    <3>2. open' \subseteq open \cup {p}
      BY <2>2 DEF Check
    <3>. QED
      BY <1>1, <1>3, <2>2, <3>1, <3>2 DEF Check, ReportsTypeOK, Phase
  <2>3. CASE LoseConnection(p) \/ ListReports(p) \/ Crash(p)
    BY <1>1, <1>3, <2>3 DEF LoseConnection, ListReports, Crash, ReportsTypeOK, Phase
  <2>4. CASE DeleteObject(p) \/ MarkDeleted(p)
    BY <1>1, <1>3, <2>4 DEF DeleteObject, MarkDeleted, ReportsTypeOK, Phase
  <2>. QED
    BY <1>4, <2>1, <2>2, <2>3, <2>4 DEF HandlerStep
<1>5. ASSUME NEW p \in Submission, Commit(p) \/ Abort(p)
      PROVE  ReportsTypeOK'
  <2>1. /\ submission' \in [Submission -> SubmissionState]
        /\ \A q \in Submission : submission'[q].student = submission[q].student
    <3>1. CASE UNCHANGED submission
      BY <1>1, <3>1 DEF ReportsTypeOK
    <3>2. CASE \E phase \in {"done", "unsure"} : GoTo(p, phase)
      BY <1>1, <3>2, GoToType DEF Phase
    <3>. QED
      BY <1>5, <3>1, <3>2 DEF Commit, Abort
  <2>2. open' \subseteq {q \in Submission : submission'[q].student # None}
    BY <1>1, <1>5, <2>1 DEF ReportsTypeOK, Commit, Abort
  <2>. QED
    BY <1>1, <1>5, <2>1, <2>2 DEF Commit, Abort, ReportsTypeOK, school, reports
<1>6. ASSUME NEW p \in Submission, NEW v \in BOOLEAN, UpdateVerification(p, v)
      PROVE  ReportsTypeOK'
  <2>1. verified' \subseteq filed /\ UNCHANGED <<school, file, stored, filed, submission, open>>
    BY <1>1, <1>6 DEF UpdateVerification, Sets, ReportsTypeOK
  <2>2. trail' \in [Submission -> Seq({"verify", "unverify"})]
    BY <1>1, <1>6 DEF UpdateVerification, Sets, ReportsTypeOK
  <2>. QED
    BY <1>1, <2>1, <2>2 DEF ReportsTypeOK, school
<1>7. ASSUME NEW x \in Site, UpdateSite(x)
      PROVE  ReportsTypeOK'
  BY <1>1, <1>7 DEF UpdateSite, Viewers, SetVisible, ReportsTypeOK, reports
<1>8. ASSUME NEW s \in Student,
             \/ GrantEligibility(s) \/ RevokeEligibility(s) \/ ExitStudent(s)
             \/ \E c \in Class : TransferStudent(s, c) \/ EnrollStudent(s, c)
      PROVE  ReportsTypeOK'
  BY <1>1, <1>8 DEF GrantEligibility, RevokeEligibility, SetEligible, ExitStudent, TransferStudent,
     EnrollStudent, ReportsTypeOK, reports
<1>. QED
  BY <1>2, <1>4, <1>5, <1>6, <1>7, <1>8 DEF Next

\* What administrators do reaches neither files nor submissions.
LEMMA OfficeLeavesSubmissions ==
  ASSUME \/ \E p \in Submission, v \in BOOLEAN : UpdateVerification(p, v)
         \/ \E x \in Site : UpdateSite(x)
         \/ \E s \in Student :
              \/ GrantEligibility(s) \/ RevokeEligibility(s) \/ ExitStudent(s)
              \/ \E c \in Class : TransferStudent(s, c) \/ EnrollStudent(s, c)
  PROVE  UNCHANGED <<file, stored, filed, submission, open>>
BY DEF UpdateVerification, Sets, UpdateSite, GrantEligibility, RevokeEligibility,
   ExitStudent, TransferStudent, EnrollStudent, reports

\* A submission stays sound while nothing happens to it.
LEMMA OthersStaySound ==
  ASSUME PhasesInv, NEW p \in Submission, Sound(p)',
         \A q \in Submission \ {p} :
           /\ submission'[q] = submission[q] /\ file'[q] = file[q]
           /\ q \in stored' <=> q \in stored
           /\ q \in open' <=> q \in open
           /\ q \in filed' <=> q \in filed
  PROVE  PhasesInv'
BY DEF PhasesInv, Sound

\* What a handler moves on to is what the phase it comes to asks for.
LEMMA HandlerStaysSound ==
  ASSUME ReportsInv, NEW p \in Submission, HandlerStep(p)
  PROVE  PhasesInv'
<1>1. ReportsTypeOK /\ PhasesInv /\ Sound(p)
  BY DEF ReportsInv, PhasesInv
<1>2. file \in [Submission -> {"none", "pending", "available", "deleted"}]
  BY <1>1 DEF ReportsTypeOK
<1>3. PICK phase \in Phase : GoTo(p, phase)
  BY DEF HandlerStep, Upload, Check, LoseConnection, ListReports, DeleteObject, MarkDeleted,
     Crash, Phase
<1>4. /\ submission'[p].phase = phase
      /\ \A q \in Submission \ {p} : submission'[q] = submission[q]
  BY <1>1, <1>3, GoToType
<1>5. \A q \in Submission \ {p} :
        /\ file'[q] = file[q]
        /\ q \in stored' <=> q \in stored
        /\ q \in open' <=> q \in open
        /\ q \in filed' <=> q \in filed
  BY <1>2 DEF HandlerStep, Upload, Check, LoseConnection, ListReports, DeleteObject,
     MarkDeleted, Crash, reports
<1>6. Sound(p)'
  <2>1. CASE Upload(p)
    BY <1>1, <1>4, <2>1, GoToType DEF Upload, Sound, In, reports, Phase
  <2>2. CASE Check(p)
    BY <1>1, <1>4, <2>2, GoToType DEF Check, Sound, In, reports, Phase
  <2>3. CASE LoseConnection(p)
    BY <1>1, <1>4, <2>3, GoToType DEF LoseConnection, Sound, In, reports, Phase
  <2>4. CASE ListReports(p)
    BY <1>1, <1>4, <2>4, GoToType DEF ListReports, Sound, In, reports, Phase
  <2>5. CASE DeleteObject(p)
    BY <1>1, <1>4, <2>5, GoToType DEF DeleteObject, Sound, In, reports, Phase
  <2>6. CASE MarkDeleted(p)
    BY <1>1, <1>2, <1>4, <2>6, GoToType DEF MarkDeleted, Sound, In, reports, Phase
  <2>7. CASE Crash(p)
    BY <1>1, <1>4, <2>7, GoToType DEF Crash, Sound, In, reports, Phase
  <2>. QED
    BY <2>1, <2>2, <2>3, <2>4, <2>5, <2>6, <2>7 DEF HandlerStep
<1>. QED
  BY <1>1, <1>4, <1>5, <1>6, OthersStaySound

\* A transaction that ends leaves what its handler may be relying on.
LEMMA TransactionStaysSound ==
  ASSUME ReportsInv, NEW p \in Submission, Commit(p) \/ Abort(p)
  PROVE  PhasesInv'
<1>1. ReportsTypeOK /\ PhasesInv /\ Sound(p)
  BY DEF ReportsInv, PhasesInv
<1>2. file \in [Submission -> {"none", "pending", "available", "deleted"}]
  BY <1>1 DEF ReportsTypeOK
<1>3. /\ \A q \in Submission \ {p} : submission'[q] = submission[q]
      /\ \/ In(p, "sent") /\ Commit(p) /\ submission'[p].phase = "done"
         \/ In(p, "sent") /\ Abort(p) /\ submission'[p].phase = "unsure"
         \/ ~In(p, "sent") /\ UNCHANGED submission
  <2>1. CASE UNCHANGED submission
    BY <2>1, <1>1, GoToType DEF Commit, Abort, Phase
  <2>2. CASE In(p, "sent")
    BY <2>2, <1>1, GoToType DEF Commit, Abort, Phase
  <2>. QED
    BY <2>1, <2>2 DEF Commit, Abort
<1>4. \A q \in Submission \ {p} :
        /\ file'[q] = file[q]
        /\ q \in stored' <=> q \in stored
        /\ q \in open' <=> q \in open
        /\ q \in filed' <=> q \in filed
  BY <1>2 DEF Commit, Abort, reports
<1>5. Sound(p)'
  <2>1. CASE Commit(p)
    BY <1>1, <1>2, <1>3, <2>1 DEF Commit, Abort, Sound, In
  <2>2. CASE Abort(p)
    BY <1>1, <1>3, <2>2 DEF Commit, Abort, Sound, In, reports
  <2>. QED
    BY <2>1, <2>2
<1>. QED
  BY <1>1, <1>3, <1>4, <1>5, OthersStaySound

\* Every step keeps what the phases say.
LEMMA NextSound == ReportsInv /\ Next => PhasesInv'
<1> SUFFICES ASSUME ReportsInv, Next PROVE PhasesInv'
  OBVIOUS
<1>1. PhasesInv /\ ReportsTypeOK
  BY DEF ReportsInv
<1>2. ASSUME NEW p \in Submission, NEW s \in Student, NEW x \in Site, Begin(p, s, x)
      PROVE  PhasesInv'
  <2>1. /\ submission'[p].phase = "created" /\ file'[p] = "pending"
        /\ \A q \in Submission \ {p} : submission'[q] = submission[q] /\ file'[q] = file[q]
        /\ UNCHANGED <<stored, filed, open>>
    BY <1>1, <1>2 DEF Begin, ReportsTypeOK, reports
  <2>2. In(p, "new") /\ Sound(p)
    BY <1>1, <1>2 DEF Begin, PhasesInv
  <2>3. Sound(p)'
    BY <2>1, <2>2 DEF Sound, In
  <2>. QED
    BY <1>1, <2>1, <2>3, OthersStaySound
<1>3. ASSUME UNCHANGED <<file, stored, filed, submission, open>>
      PROVE  PhasesInv'
  BY <1>1, <1>3 DEF PhasesInv, Sound
<1>. QED
  BY <1>2, <1>3, HandlerStaysSound, TransactionStaysSound, OfficeLeavesSubmissions DEF Next

\* Who a submission is for is settled when it begins.
LEMMA NextIdentity ==
  ReportsInv /\ Next =>
    /\ IdentityInv'
    /\ \A p \in Submission : ~In(p, "new") =>
         /\ submission'[p].student = submission[p].student
         /\ submission'[p].class = submission[p].class
         /\ submission'[p].site = submission[p].site
<1> SUFFICES ASSUME ReportsInv, Next
             PROVE  /\ IdentityInv'
                    /\ \A p \in Submission : ~In(p, "new") =>
                         /\ submission'[p].student = submission[p].student
                         /\ submission'[p].class = submission[p].class
                         /\ submission'[p].site = submission[p].site
  OBVIOUS
<1>1. ReportsTypeOK /\ IdentityInv /\ PhasesInv
  BY DEF ReportsInv
<1>2. CASE \E p \in Submission, s \in Student, x \in Site : Begin(p, s, x)
  <2>1. PICK p \in Submission, s \in Student, x \in Site : Begin(p, s, x)
    BY <1>2
  <2>2. class[s] \in Class
    BY <1>1, <2>1, ReportsAssumption DEF Begin, CanReport, ReportsTypeOK
  <2>3. /\ submission'[p] = [phase |-> "created", student |-> s, class |-> class[s], site |-> x]
        /\ \A q \in Submission \ {p} : submission'[q] = submission[q]
        /\ In(p, "new")
    BY <1>1, <2>1 DEF Begin, ReportsTypeOK
  <2>. QED
    BY <1>1, <2>2, <2>3 DEF IdentityInv, In
<1>3. CASE \E p \in Submission : ~In(p, "new") /\ \E phase \in Phase : GoTo(p, phase)
  BY <1>1, <1>3, GoToType DEF IdentityInv, In
<1>4. CASE UNCHANGED submission
  BY <1>1, <1>4 DEF IdentityInv, In
<1>5. ASSUME NEW p \in Submission, HandlerStep(p)
      PROVE  ~In(p, "new") /\ \E phase \in Phase : GoTo(p, phase)
  BY <1>5 DEF HandlerStep, Upload, Check, LoseConnection, ListReports, DeleteObject,
     MarkDeleted, Crash, In, Phase
<1>6. ASSUME NEW p \in Submission, Commit(p) \/ Abort(p)
      PROVE  \/ ~In(p, "new") /\ \E phase \in Phase : GoTo(p, phase)
             \/ UNCHANGED submission
  BY <1>6 DEF Commit, Abort, In, Phase
<1>. QED
  BY <1>2, <1>3, <1>4, <1>5, <1>6, OfficeLeavesSubmissions DEF Next

\* What an open transaction has checked stays as it is until the transaction
\* ends: the lock of the pair keeps verifications away, the lock of the
\* enrollment keeps transfers and the student's other submissions away.
LEMMA NextLocks == ReportsInv /\ Next => LocksInv'
<1> SUFFICES ASSUME ReportsInv, Next PROVE LocksInv'
  OBVIOUS
<1>1. ReportsTypeOK /\ IdentityInv /\ PhasesInv /\ LocksInv
  BY DEF ReportsInv
<1>2. /\ \A p \in open \cup filed : p \in Submission /\ ~In(p, "new")
      /\ open \cap filed = {} /\ verified \subseteq filed
  BY <1>1 DEF ReportsTypeOK, PhasesInv, Sound, In
<1>3. \A p \in open \cup filed : /\ submission'[p].student = submission[p].student
                                 /\ submission'[p].class = submission[p].class
                                 /\ submission'[p].site = submission[p].site
  BY <1>2, NextIdentity
\* Steps that leave the tables alone.
<1>4. ASSUME UNCHANGED <<class, filed, verified>>, open' \subseteq open
      PROVE  LocksInv'
  BY <1>1, <1>2, <1>3, <1>4 DEF LocksInv, Closed, Duplicate, OfPair, PairOf
<1>5. ASSUME NEW p \in Submission, Check(p)
      PROVE  LocksInv'
  <2>1. CASE UNCHANGED open
    BY <1>4, <1>5, <2>1 DEF Check, school, reports
  <2>2. CASE open' = open \cup {p} /\ ~ UNCHANGED open
    <3>1. /\ In(p, "stored") /\ EnrollmentFree(submission[p].student)
          /\ class[submission[p].student] = submission[p].class
          /\ ~Duplicate(submission[p].student, submission[p].class, submission[p].site)
          /\ ~Closed(submission[p].class, submission[p].site)
          /\ UNCHANGED <<class, filed, verified>>
      BY <1>5, <2>2 DEF Check, school, reports
    <3>2. submission[p].class \in Class /\ ~In(p, "new")
      BY <1>1, <3>1 DEF IdentityInv, In
    <3>3. /\ submission'[p].student = submission[p].student
          /\ submission'[p].class = submission[p].class
          /\ submission'[p].site = submission[p].site
      BY <3>2, NextIdentity
    <3>. QED
      BY <1>1, <1>2, <1>3, <2>2, <3>1, <3>2, <3>3
         DEF LocksInv, Closed, Duplicate, OfPair, PairOf, EnrollmentFree
  <2>. QED
    BY <1>5, <2>1, <2>2 DEF Check
<1>6. ASSUME NEW p \in Submission, Commit(p)
      PROVE  LocksInv'
  <2>1. /\ p \in open /\ filed' = filed \cup {p} /\ open' = open \ {p}
        /\ UNCHANGED <<class, verified>>
    BY <1>6 DEF Commit, school
  <2>2. \A q \in open' : submission[q].student # submission[p].student
    BY <1>1, <2>1 DEF LocksInv
  <2>. QED
    BY <1>1, <1>2, <1>3, <2>1, <2>2 DEF LocksInv, Closed, Duplicate, OfPair, PairOf
<1>7. ASSUME NEW p \in Submission, NEW v \in BOOLEAN, UpdateVerification(p, v)
      PROVE  LocksInv'
  <2>1. /\ PairFree(PairOf(p)) /\ p \in filed
        /\ verified' = IF v THEN verified \cup {p} ELSE verified \ {p}
        /\ UNCHANGED <<class, filed, submission, open>>
    BY <1>7 DEF UpdateVerification, Sets, school
  <2>2. \A q \in open : PairOf(q) # PairOf(p)
    BY <2>1 DEF PairFree
  <2>. QED
    BY <1>1, <2>1, <2>2 DEF LocksInv, Closed, Duplicate, OfPair, PairOf
<1>8. ASSUME NEW s \in Student, NEW c \in Class,
             ExitStudent(s) \/ TransferStudent(s, c) \/ EnrollStudent(s, c)
      PROVE  LocksInv'
  <2>1. \A q \in open : submission[q].student # s
    BY <1>1, <1>8, ReportsAssumption
       DEF ExitStudent, TransferStudent, EnrollStudent, EnrollmentFree, LocksInv
  <2>2. UNCHANGED <<filed, verified, submission, open>>
    BY <1>8 DEF ExitStudent, TransferStudent, EnrollStudent, reports
  <2>3. \A q \in open : class'[submission[q].student] = class[submission[q].student]
    BY <1>1, <1>2, <1>8, <2>1
       DEF ExitStudent, TransferStudent, EnrollStudent, ReportsTypeOK, IdentityInv
  <2>. QED
    BY <1>1, <2>2, <2>3 DEF LocksInv, Closed, Duplicate, OfPair, PairOf
<1>9. ASSUME NEW s \in Student, ExitStudent(s)
      PROVE  LocksInv'
  <2>1. class[s] \in Class
    BY <1>1, <1>9 DEF ExitStudent, ReportsTypeOK
  <2>. QED
    BY <1>8, <1>9, <2>1
<1>10. ASSUME NEW p \in Submission, HandlerStep(p), ~Check(p)
       PROVE  UNCHANGED <<class, filed, verified>> /\ open' \subseteq open
  BY <1>10 DEF HandlerStep, Upload, LoseConnection, ListReports, DeleteObject, MarkDeleted,
     Crash, school, reports
<1>11. ASSUME \/ \E p \in Submission, s \in Student, x \in Site : Begin(p, s, x)
              \/ \E p \in Submission : Abort(p)
              \/ \E x \in Site : UpdateSite(x)
              \/ \E s \in Student : GrantEligibility(s) \/ RevokeEligibility(s)
       PROVE  UNCHANGED <<class, filed, verified>> /\ open' \subseteq open
  BY <1>11 DEF Begin, Abort, UpdateSite, GrantEligibility, RevokeEligibility, school, reports
<1>. QED
  BY <1>4, <1>5, <1>6, <1>7, <1>8, <1>9, <1>10, <1>11 DEF Next

\* A report is only filed by a transaction that has checked for another.
LEMMA NextOneReport == ReportsInv /\ Next => OneReportPerSite'
<1> SUFFICES ASSUME ReportsInv, Next PROVE OneReportPerSite'
  OBVIOUS
<1>1. ReportsTypeOK /\ PhasesInv /\ LocksInv /\ OneReportPerSite
  BY DEF ReportsInv
<1>2. \A p \in open \cup filed : p \in Submission /\ ~In(p, "new")
  BY <1>1 DEF ReportsTypeOK, PhasesInv, Sound, In
<1>3. \A p \in open \cup filed : /\ submission'[p].student = submission[p].student
                                 /\ submission'[p].site = submission[p].site
  BY <1>2, NextIdentity
<1>4. ASSUME NEW p \in Submission, Commit(p)
      PROVE  OneReportPerSite'
  <2>1. p \in open /\ filed' = filed \cup {p}
    BY <1>4 DEF Commit
  <2>2. \A q \in filed : ~(/\ submission[q].student = submission[p].student
                           /\ submission[q].site = submission[p].site)
    BY <1>1, <2>1 DEF LocksInv, Duplicate
  <2>. QED
    BY <1>1, <1>3, <2>1, <2>2 DEF OneReportPerSite
<1>5. ASSUME UNCHANGED filed
      PROVE  OneReportPerSite'
  BY <1>1, <1>3, <1>5 DEF OneReportPerSite
<1>6. ASSUME NEW p \in Submission, HandlerStep(p) \/ Abort(p)
      PROVE  UNCHANGED filed
  BY <1>6 DEF HandlerStep, Upload, Check, LoseConnection, ListReports, DeleteObject,
     MarkDeleted, Crash, Abort, reports
<1>7. ASSUME NEW p \in Submission, NEW s \in Student, NEW x \in Site, Begin(p, s, x)
      PROVE  UNCHANGED filed
  BY <1>7 DEF Begin, reports
<1>. QED
  BY <1>4, <1>5, <1>6, <1>7, OfficeLeavesSubmissions DEF Next

-----------------------------------------------------------------------------
\* The invariant holds of every behaviour.
THEOREM ReportsSafe == ReportsSpec => []ReportsInv
<1>1. ReportsInit => ReportsInv
  BY InitReportsInv
<1>2. ReportsInv /\ [Next]_vars => ReportsInv'
  <2>1. ReportsInv /\ UNCHANGED vars => ReportsInv'
    BY DEF ReportsInv, vars, school, reports, ReportsTypeOK, IdentityInv, PhasesInv, Sound,
       LocksInv, OneReportPerSite, Closed, Duplicate, OfPair, PairOf, In
  <2>. QED
    BY <2>1, NextType, NextIdentity, NextSound, NextLocks, NextOneReport DEF ReportsInv
<1>. QED
  BY <1>1, <1>2, PTL DEF ReportsSpec

\* Tables and handlers keep their types.
THEOREM ReportsTyped == ReportsSpec => []ReportsTypeOK
<1>1. ReportsInv => ReportsTypeOK
  BY DEF ReportsInv
<1>. QED
  BY <1>1, ReportsSafe, PTL

\* A filed report has an available file and a stored object.
THEOREM PhotosAreKept == ReportsSpec => []ReportHasPhoto
<1>1. ReportsInv => ReportHasPhoto
  BY DEF ReportsInv, ReportsTypeOK, PhasesInv, Sound, ReportHasPhoto
<1>. QED
  BY <1>1, ReportsSafe, PTL

\* No object outlives the record that names it.
THEOREM ObjectsAreTracked == ReportsSpec => []ObjectsStayTracked
<1>1. ReportsInv => ObjectsStayTracked
  BY DEF ReportsInv, ReportsTypeOK, PhasesInv, Sound, ObjectsStayTracked
<1>. QED
  BY <1>1, ReportsSafe, PTL

\* A student files one report a day for a Site.
THEOREM ReportsAreUnique == ReportsSpec => []OneReportPerSite
<1>1. ReportsInv => OneReportPerSite
  BY DEF ReportsInv
<1>. QED
  BY <1>1, ReportsSafe, PTL

\* Only a transaction that holds its locks files a report.
LEMMA FilingIsCommit ==
  ASSUME Next, NEW p \in filed' \ filed
  PROVE  p \in open
<1>1. ASSUME UNCHANGED filed
      PROVE  FALSE
  BY <1>1
<1>2. ASSUME NEW q \in Submission, Commit(q)
      PROVE  p \in open
  BY <1>2 DEF Commit
<1>3. ASSUME NEW q \in Submission, HandlerStep(q) \/ Abort(q)
      PROVE  UNCHANGED filed
  BY <1>3 DEF HandlerStep, Upload, Check, LoseConnection, ListReports, DeleteObject,
     MarkDeleted, Crash, Abort, reports
<1>4. ASSUME NEW q \in Submission, NEW s \in Student, NEW x \in Site, Begin(q, s, x)
      PROVE  UNCHANGED filed
  BY <1>4 DEF Begin, reports
<1>. QED
  BY <1>1, <1>2, <1>3, <1>4, OfficeLeavesSubmissions DEF Next

\* No report is filed for a class and a Site that have a verified one.
THEOREM VerifiedPairsAreClosed == ReportsSpec => ClosedAfterVerification
<1>1. ReportsInv /\ [Next]_vars =>
        [\A p \in filed' \ filed : ~Closed(submission[p].class, submission[p].site)]_vars
  BY FilingIsCommit DEF ReportsInv, LocksInv, vars
<1>. QED
  BY <1>1, ReportsSafe, PTL DEF ReportsSpec, ClosedAfterVerification

\* A report is filed under the class the student is enrolled in.
THEOREM ReportsFollowEnrollment == ReportsSpec => FiledUnderEnrolledClass
<1>1. ReportsInv /\ [Next]_vars =>
        [\A p \in filed' \ filed : class[submission[p].student] = submission[p].class]_vars
  BY FilingIsCommit DEF ReportsInv, LocksInv, vars
<1>. QED
  BY <1>1, ReportsSafe, PTL DEF ReportsSpec, FiledUnderEnrolledClass

-----------------------------------------------------------------------------
\* The reports implement the book of reports.

\* A report is one of a student who was in a class, on a Site, and it keeps its
\* entry in the book.
LEMMA FiledHasEntry ==
  ASSUME ReportsInv, NEW p \in open \cup filed
  PROVE  /\ p \in Submission /\ ~In(p, "new")
         /\ submission[p].student \in Student /\ submission[p].class \in Class
         /\ submission[p].site \in Site
<1>1. p \in Submission /\ ~In(p, "new")
  BY DEF ReportsInv, ReportsTypeOK, PhasesInv, Sound, In
<1>. QED
  BY <1>1 DEF ReportsInv, IdentityInv

LEMMA EntriesStay ==
  ASSUME ReportsInv, Next, NEW p \in open \cup filed
  PROVE  EntryOf(p)' = EntryOf(p)
BY FiledHasEntry, NextIdentity DEF EntryOf

\* No two reports have one entry, so what is accepted in the book is what is
\* verified in the table.
LEMMA EntriesDiffer ==
  ASSUME ReportsInv, NEW p \in filed, NEW q \in filed, EntryOf(p) = EntryOf(q)
  PROVE  p = q
BY DEF ReportsInv, OneReportPerSite, EntryOf

\* The book that a set of reports fills.
LEMMA BookStays ==
  ASSUME ReportsInv, Next, UNCHANGED <<filed, verified>>
  PROVE  UNCHANGED <<{EntryOf(p) : p \in filed}, {EntryOf(p) : p \in verified}>>
<1>1. verified \subseteq filed
  BY DEF ReportsInv, ReportsTypeOK
<1>2. \A p \in filed : EntryOf(p)' = EntryOf(p)
  BY EntriesStay
<1>3. /\ {EntryOf(p) : p \in filed}' = {EntryOf(p) : p \in filed}
      /\ {EntryOf(p) : p \in verified}' = {EntryOf(p) : p \in verified}
  BY <1>1, <1>2
<1>. QED
  BY <1>3

\* A commit writes an entry that the locks of its transaction have kept open.
LEMMA CommitReports ==
  ASSUME ReportsInv, Next, NEW p \in Submission, Commit(p)
  PROVE  Book!BookNext
<1> DEFINE s == submission[p].student
           c == submission[p].class
           x == submission[p].site
<1>1. /\ p \in open /\ filed' = filed \cup {p}
      /\ UNCHANGED <<class, verified>>
  BY DEF Commit, school
<1>2. s \in Student /\ c \in Class /\ x \in Site
  BY <1>1, FiledHasEntry
<1>3. class[s] = c
  BY <1>1 DEF ReportsInv, LocksInv
<1>4. verified \subseteq filed
  BY DEF ReportsInv, ReportsTypeOK
<1>5. \A d \in Class : <<s, d, x>> \notin {EntryOf(q) : q \in filed}
  BY <1>1 DEF ReportsInv, LocksInv, Duplicate, EntryOf
<1>6. \A other \in Student : <<other, c, x>> \notin {EntryOf(q) : q \in verified}
  BY <1>1, <1>4 DEF ReportsInv, LocksInv, Closed, OfPair, PairOf, EntryOf
<1>7. \A q \in filed \cup {p} : EntryOf(q)' = EntryOf(q)
  BY <1>1, EntriesStay
<1>8. EntryOf(p) = <<s, c, x>>
  BY DEF EntryOf
<1>9. {EntryOf(q) : q \in filed}' = {EntryOf(q) : q \in filed} \cup {<<s, c, x>>}
  BY <1>1, <1>7, <1>8
<1>10. {EntryOf(q) : q \in verified}' = {EntryOf(q) : q \in verified}
  BY <1>1, <1>4, <1>7
<1>11. Book!Report(s, c, x)
  BY <1>1, <1>3, <1>5, <1>6, <1>9, <1>10 DEF Book!Report
<1>. QED
  BY <1>2, <1>11 DEF Book!BookNext

\* A verification accepts its entry, and taking it back withdraws it.
LEMMA VerificationAccepts ==
  ASSUME ReportsInv, Next, NEW p \in Submission, NEW v \in BOOLEAN,
         UpdateVerification(p, v)
  PROVE  Book!BookNext
<1> DEFINE entry == EntryOf(p)
<1>1. /\ p \in filed /\ (v <=> p \notin verified)
      /\ verified' = IF v THEN verified \cup {p} ELSE verified \ {p}
      /\ UNCHANGED <<class, filed>>
  BY DEF UpdateVerification, Sets, school
<1>2. verified \subseteq filed
  BY DEF ReportsInv, ReportsTypeOK
<1>3. \A q \in filed : EntryOf(q)' = EntryOf(q)
  BY EntriesStay
<1>4. \A q \in filed : EntryOf(q) = entry => q = p
  BY <1>1, EntriesDiffer
<1>5. {EntryOf(q) : q \in filed}' = {EntryOf(q) : q \in filed}
  BY <1>1, <1>3
<1>6. \E s \in Student, c \in Class, x \in Site : entry = <<s, c, x>>
  BY <1>1, FiledHasEntry DEF EntryOf
<1>7. CASE v
  <2>1. p \notin verified /\ verified' = verified \cup {p}
    BY <1>1, <1>7
  <2>2. entry \in {EntryOf(q) : q \in filed} \ {EntryOf(q) : q \in verified}
    BY <1>1, <1>2, <1>4, <2>1
  <2>3. {EntryOf(q) : q \in verified}' = {EntryOf(q) : q \in verified} \cup {entry}
    BY <1>1, <1>2, <1>3, <2>1
  <2>4. Book!Accept(entry)
    BY <1>1, <1>5, <2>2, <2>3 DEF Book!Accept
  <2>. QED
    BY <1>6, <2>4 DEF Book!BookNext
<1>8. CASE ~v
  <2>1. p \in verified /\ verified' = verified \ {p}
    BY <1>1, <1>8
  <2>2. entry \in {EntryOf(q) : q \in verified}
    BY <2>1
  <2>3. {EntryOf(q) : q \in verified}' = {EntryOf(q) : q \in verified} \ {entry}
    BY <1>2, <1>3, <1>4, <2>1
  <2>4. Book!Withdraw(entry)
    BY <1>1, <1>5, <2>2, <2>3 DEF Book!Withdraw
  <2>. QED
    BY <1>6, <2>4 DEF Book!BookNext
<1>. QED
  BY <1>7, <1>8

\* Every step on the three stores is a step of the book, or leaves it alone.
LEMMA BookStep ==
  ASSUME ReportsInv, Next
  PROVE  \/ Book!BookNext
         \/ UNCHANGED <<class, {EntryOf(p) : p \in filed}, {EntryOf(p) : p \in verified}>>
<1>1. ASSUME UNCHANGED <<class, filed, verified>>
      PROVE  UNCHANGED <<class, {EntryOf(p) : p \in filed}, {EntryOf(p) : p \in verified}>>
  BY <1>1, BookStays
<1>2. ASSUME NEW s \in Student, NEW c \in Class,
             ExitStudent(s) \/ TransferStudent(s, c) \/ EnrollStudent(s, c)
      PROVE  Book!BookNext
  <2>1. UNCHANGED <<filed, verified>>
    BY <1>2 DEF ExitStudent, TransferStudent, EnrollStudent, reports
  <2>2. PICK d \in Class \cup {None} : class' = [class EXCEPT ![s] = d]
    BY <1>2 DEF ExitStudent, TransferStudent, EnrollStudent
  <2>3. Book!Move(s, d)
    BY <2>1, <2>2, BookStays DEF Book!Move
  <2>. QED
    BY <2>3 DEF Book!BookNext
<1>3. ASSUME NEW s \in Student, ExitStudent(s)
      PROVE  Book!BookNext
  <2>1. class[s] \in Class
    BY <1>3 DEF ExitStudent, ReportsInv, ReportsTypeOK
  <2>. QED
    BY <1>2, <1>3, <2>1
<1>4. ASSUME NEW p \in Submission, HandlerStep(p) \/ Abort(p)
      PROVE  UNCHANGED <<class, filed, verified>>
  BY <1>4 DEF HandlerStep, Upload, Check, LoseConnection, ListReports, DeleteObject,
     MarkDeleted, Crash, Abort, school, reports
<1>5. ASSUME \/ \E p \in Submission, s \in Student, x \in Site : Begin(p, s, x)
             \/ \E x \in Site : UpdateSite(x)
             \/ \E s \in Student : GrantEligibility(s) \/ RevokeEligibility(s)
      PROVE  UNCHANGED <<class, filed, verified>>
  BY <1>5 DEF Begin, UpdateSite, GrantEligibility, RevokeEligibility, school, reports
<1>. QED
  BY <1>1, <1>2, <1>3, <1>4, <1>5, CommitReports, VerificationAccepts DEF Next

\* Whatever the files, the objects, the handlers and their transactions do,
\* reports are filed, verified and unverified as in a book of reports.
THEOREM ReportsKeepTheBook == ReportsSpec => ImplementsReportBook
<1>1. ReportsInit => Book!BookInit
  <2> SUFFICES ASSUME ReportsInit PROVE Book!BookInit
    OBVIOUS
  <2>1. class \in [Student -> Class] /\ filed = {} /\ verified = {}
    BY DEF ReportsInit
  <2>. QED
    BY <2>1 DEF Book!BookInit
<1>2. ReportsInv /\ [Next]_vars =>
        [Book!BookNext]_<<class, {EntryOf(p) : p \in filed}, {EntryOf(p) : p \in verified}>>
  <2>1. ASSUME UNCHANGED vars
        PROVE  UNCHANGED <<class, {EntryOf(p) : p \in filed}, {EntryOf(p) : p \in verified}>>
    BY <2>1 DEF vars, school, reports, EntryOf
  <2>. QED
    BY <2>1, BookStep
<1>. QED
  BY <1>1, <1>2, ReportsSafe, PTL DEF ReportsSpec, ImplementsReportBook, Book!BookSpec

-----------------------------------------------------------------------------
\* One audit row after another, each the opposite of the one before.
LEMMA VerificationAlternates ==
  ASSUME ReportsTypeOK, TrailAlternates, NEW p \in Submission, NEW v \in BOOLEAN,
         UpdateVerification(p, v)
  PROVE  TrailAlternates'
<1> DEFINE n == Len(trail[p])
           word == IF v THEN "verify" ELSE "unverify"
<1>1. trail[p] \in Seq({"verify", "unverify"}) /\ n \in Nat
  BY DEF ReportsTypeOK
<1>2. /\ trail'[p] = Append(trail[p], word)
      /\ \A q \in Submission \ {p} : trail'[q] = trail[q] /\ (q \in verified' <=> q \in verified)
      /\ p \in verified' <=> v
      /\ v <=> p \notin verified
  BY DEF UpdateVerification, Sets, ReportsTypeOK
<1>3. /\ Len(trail'[p]) = n + 1 /\ DOMAIN trail'[p] = 1 .. n + 1 /\ DOMAIN trail[p] = 1 .. n
      /\ trail'[p][n + 1] = word
      /\ \A i \in 1 .. n : trail'[p][i] = trail[p][i]
  BY <1>1, <1>2
<1>4. word \in {"verify", "unverify"} /\ (p \in verified' <=> word = "verify")
  <2>1. CASE v
    BY <1>2, <2>1
  <2>2. CASE ~v
    BY <1>2, <2>2
  <2>. QED
    BY <2>1, <2>2
<1>5. p \in verified <=> word # "verify"
  <2>1. CASE v
    BY <1>2, <2>1
  <2>2. CASE ~v
    BY <1>2, <2>2
  <2>. QED
    BY <2>1, <2>2
<1>6. p \in verified <=> n > 0 /\ trail[p][n] = "verify"
  BY DEF TrailAlternates
<1>7. n > 0 => trail'[p][1] = "verify"
  BY <1>1, <1>3 DEF TrailAlternates
<1>8. n = 0 => trail'[p][1] = "verify"
  BY <1>3, <1>4, <1>5, <1>6
<1>9. ASSUME NEW i \in 1 .. n
      PROVE  trail'[p][i] # trail'[p][i + 1]
  <2>1. CASE i < n
    BY <1>1, <1>3, <2>1 DEF TrailAlternates
  <2>2. CASE i = n
    <3>1. trail[p][n] \in {"verify", "unverify"}
      BY <1>1, <1>9, <2>2
    <3>2. trail[p][n] = "verify" <=> word # "verify"
      BY <1>1, <1>5, <1>6, <1>9, <2>2
    <3>. QED
      BY <1>3, <1>4, <1>9, <2>2, <3>1, <3>2
  <2>. QED
    BY <1>1, <1>9, <2>1, <2>2
<1>. QED
  <2>1. ASSUME NEW q \in Submission \ {p}
        PROVE  /\ Len(trail'[q]) > 0 => trail'[q][1] = "verify"
               /\ \A i \in 1 .. Len(trail'[q]) - 1 : trail'[q][i] # trail'[q][i + 1]
               /\ q \in verified' <=> (Len(trail'[q]) > 0 /\ trail'[q][Len(trail'[q])] = "verify")
    BY <1>2, <2>1 DEF TrailAlternates
  <2>2. /\ Len(trail'[p]) > 0 => trail'[p][1] = "verify"
        /\ \A i \in 1 .. Len(trail'[p]) - 1 : trail'[p][i] # trail'[p][i + 1]
        /\ p \in verified' <=> (Len(trail'[p]) > 0 /\ trail'[p][Len(trail'[p])] = "verify")
    BY <1>1, <1>3, <1>4, <1>7, <1>8, <1>9
  <2>. QED
    BY <2>1, <2>2 DEF TrailAlternates

\* The trail of a report tells its verifications apart.
THEOREM TrailsAlternate == ReportsSpec => []TrailAlternates
<1>1. ReportsInit => TrailAlternates
  BY DEF ReportsInit, TrailAlternates
<1>2. ReportsInv /\ TrailAlternates /\ [Next]_vars => TrailAlternates'
  <2> SUFFICES ASSUME ReportsInv, TrailAlternates, [Next]_vars PROVE TrailAlternates'
    OBVIOUS
  <2>1. CASE UNCHANGED <<trail, verified>>
    BY <2>1 DEF TrailAlternates
  <2>2. CASE \E p \in Submission, v \in BOOLEAN : UpdateVerification(p, v)
    BY <2>2, VerificationAlternates DEF ReportsInv
  <2>3. ASSUME NEW p \in Submission, HandlerStep(p) \/ Commit(p) \/ Abort(p)
        PROVE  UNCHANGED <<trail, verified>>
    BY <2>3 DEF HandlerStep, Upload, Check, LoseConnection, ListReports, DeleteObject,
       MarkDeleted, Crash, Commit, Abort, reports
  <2>4. ASSUME \/ \E p \in Submission, s \in Student, x \in Site : Begin(p, s, x)
               \/ \E x \in Site : UpdateSite(x)
               \/ \E s \in Student :
                    \/ GrantEligibility(s) \/ RevokeEligibility(s) \/ ExitStudent(s)
                    \/ \E c \in Class : TransferStudent(s, c) \/ EnrollStudent(s, c)
        PROVE  UNCHANGED <<trail, verified>>
    BY <2>4 DEF Begin, UpdateSite, GrantEligibility, RevokeEligibility, ExitStudent,
       TransferStudent, EnrollStudent, reports
  <2>5. CASE UNCHANGED vars
    BY <2>1, <2>5 DEF vars, reports
  <2>. QED
    BY <2>1, <2>2, <2>3, <2>4, <2>5 DEF Next
<1>. QED
  BY <1>1, <1>2, ReportsSafe, PTL DEF ReportsSpec

\* Reports and their trails stay consistent.
THEOREM ReportsStayConsistent == ReportsSpec => []ReportsConsistent
<1>1. OneReportPerSite /\ TrailAlternates => ReportsConsistent
  BY DEF ReportsConsistent
<1>. QED
  BY <1>1, ReportsAreUnique, TrailsAlternate, PTL
=============================================================================
