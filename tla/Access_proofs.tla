--------------------------- MODULE Access_proofs ---------------------------
(***************************************************************************)
(* Proofs about who is let in: staff and their roles, the addresses of     *)
(* students, the gate before attendance, and the three together with the   *)
(* accounts of students.  They hold for any number of people, names of     *)
(* roles, administrators, schedules and exceptions.                        *)
(***************************************************************************)
EXTENDS MCAccess, StudentAccounts_proofs, FiniteSetTheorems

-----------------------------------------------------------------------------
(***************************************************************************)
(* Staff and their roles.                                                  *)
(***************************************************************************)

\* What a change under way rests on.  One that creates a staff member is the
\* only one of the member.  One that met no other has what it wrote and what it
\* read still in force.
ChangeHolds(d) ==
  LET w == office[d]
      s == w.staff
  IN  /\ staffIdentity[s] # None
      /\ w.op = "assign" => w.names # None
      /\ w.op = "read" => ~w.new
      /\ w.new => /\ w.alone /\ w.names # None /\ w.role \in w.names
                  /\ staffProfile[s] = None
                  /\ w.op = "assign" => staffIdentity[s] = {}
      /\ ~w.new => staffProfile[s] # None
      /\ w.op = "publish" /\ ~w.new => w.seen # None
      /\ w.alone =>
           /\ \A e \in Officer \ {d} : ~Changes(e, s)
           /\ w.op # "assign" /\ w.names # None => staffIdentity[s] = w.names
           /\ w.op = "publish" /\ ~w.new => w.seen = staffProfile[s]
           /\ w.names # None /\ w.role # None => w.role \in w.names
           /\ w.names # None /\ w.role = None => staffProfile[s].role \in w.names

\* A token is not of the future, and one of an identity that has no profile yet
\* carries no roles or the ones the identity was given.
TokenHolds(s) ==
  staffToken[s] # None =>
    /\ staffIdentity[s] # None
    /\ staffToken[s].at <= clock
    /\ staffProfile[s] = None => staffToken[s].roles \in {{}, staffIdentity[s]}

\* What is settled is settled until the next change begins.
SettledHolds(s) ==
  settled[s] # "nothing" => /\ \A d \in Officer : ~Changes(d, s)
                            /\ staffProfile[s] # None
                            /\ Admitted(s) => staffToken[s].roles = staffIdentity[s]
                            /\ settled[s] = "roles" => staffIdentity[s] = NamesOf(s)

StaffInv ==
  /\ StaffTypeOK
  /\ \A d \in Officer : office[d] # AtRest => ChangeHolds(d)
  /\ \A s \in Staff : TokenHolds(s) /\ SettledHolds(s)

\* The changes there may be under way, apart from none.
Job == [op : {"assign", "read", "publish"}, new : BOOLEAN,
        staff : Staff, role : Name \cup {None}, names : (SUBSET Name) \cup {None},
        status : Lifecycle \cup {None}, seen : StaffRow \cup {None}, alone : BOOLEAN]

\* An administrator is at rest or at a job, never both.
LEMMA JobOrRest ==
  /\ Work = {AtRest} \cup Job
  /\ \A w \in Job : w # AtRest
BY DEF Work, Job, AtRest

\* A job that goes on to another step is otherwise the same job.
LEMMA JobGoes ==
  ASSUME NEW w \in Job, NEW op \in {"assign", "read", "publish"}
  PROVE  LET x == [w EXCEPT !.op = op] IN
         /\ x \in Job /\ x.op = op /\ x.new = w.new /\ x.staff = w.staff /\ x.role = w.role
         /\ x.names = w.names /\ x.status = w.status /\ x.seen = w.seen /\ x.alone = w.alone
BY DEF Job

\* The same when only the meeting of others is noted.
LEMMA JobMeets ==
  ASSUME NEW w \in Job, NEW b \in BOOLEAN
  PROVE  LET x == [w EXCEPT !.alone = b] IN
         /\ x \in Job /\ x.op = w.op /\ x.new = w.new /\ x.staff = w.staff /\ x.role = w.role
         /\ x.names = w.names /\ x.status = w.status /\ x.seen = w.seen /\ x.alone = b
BY DEF Job

\* What the beginning of a change of s does to the others.
LEMMA BeginSets ==
  ASSUME StaffTypeOK, NEW d \in Officer, NEW s \in Staff, NEW w \in Job, w.staff = s,
         Begin(d, s, w)
  PROVE  /\ office' \in [Officer -> Work] /\ settled' = [settled EXCEPT ![s] = "nothing"]
         /\ LET x == office'[d] IN
            /\ x \in Job /\ x.op = w.op /\ x.new = w.new /\ x.staff = s /\ x.role = w.role
            /\ x.names = w.names /\ x.status = w.status /\ x.seen = w.seen
            /\ (x.alone <=> \A f \in Officer : ~Changes(f, s))
         /\ \A e \in Officer \ {d} :
              /\ ~Changes(e, s) => office'[e] = office[e]
              /\ Changes(e, s) =>
                   LET x == office'[e]
                       y == office[e]
                   IN /\ x \in Job /\ x.op = y.op /\ x.new = y.new /\ x.staff = s
                      /\ x.role = y.role /\ x.names = y.names /\ x.status = y.status
                      /\ x.seen = y.seen /\ ~x.alone
<1>0. PICK no \in BOOLEAN : no = FALSE
  OBVIOUS
<1>1. office \in [Officer -> Work]
  BY DEF StaffTypeOK
<1>2. PICK b \in BOOLEAN : b = (\A f \in Officer : ~Changes(f, s))
  OBVIOUS
<1>3. office' = [e \in Officer |->
        IF e = d THEN [w EXCEPT !.alone = b]
        ELSE IF Changes(e, s) THEN [office[e] EXCEPT !.alone = no] ELSE office[e]]
  BY <1>0, <1>2 DEF Begin
<1>4. \A e \in Officer : Changes(e, s) => office[e] \in Job /\ office[e].staff = s
  BY <1>1, JobOrRest DEF Changes
<1>5. /\ office'[d] = [w EXCEPT !.alone = b]
      /\ \A e \in Officer \ {d} :
           /\ ~Changes(e, s) => office'[e] = office[e]
           /\ Changes(e, s) => office'[e] = [office[e] EXCEPT !.alone = no]
  BY <1>3
<1>6. LET x == office'[d] IN
      /\ x \in Job /\ x.op = w.op /\ x.new = w.new /\ x.staff = s /\ x.role = w.role
      /\ x.names = w.names /\ x.status = w.status /\ x.seen = w.seen /\ x.alone = b
  BY <1>5, JobMeets
<1>7. ASSUME NEW e \in Officer \ {d}, Changes(e, s)
      PROVE  LET x == office'[e]
                 y == office[e]
             IN /\ x \in Job /\ x.op = y.op /\ x.new = y.new /\ x.staff = s
                /\ x.role = y.role /\ x.names = y.names /\ x.status = y.status
                /\ x.seen = y.seen /\ x.alone = no
  <2>1. /\ office[e] \in Job /\ office[e].staff = s
        /\ office'[e] = [office[e] EXCEPT !.alone = no]
    BY <1>4, <1>5, <1>7
  <2>. QED
    BY <2>1, JobMeets
<1>8. \A e \in Officer : office'[e] \in Work
  BY <1>1, <1>5, <1>6, <1>7, JobOrRest
<1>9. office' \in [Officer -> Work]
  BY <1>3, <1>8
<1>10. settled' = [settled EXCEPT ![s] = "nothing"]
  BY DEF Begin
<1>. QED
  BY <1>0, <1>2, <1>5, <1>6, <1>7, <1>9, <1>10

\* What an administrator does to the staff member s of a change leaves the
\* other changes alone: those of s have met it and rest on little.
LEMMA OtherChanges ==
  ASSUME StaffInv, NEW d \in Officer, NEW s \in Staff, Changes(d, s),
         office' = [office EXCEPT ![d] = office'[d]],
         office'[d] # AtRest => office'[d].staff = s,
         \A t \in Staff \ {s} : /\ staffIdentity'[t] = staffIdentity[t]
                                /\ staffProfile'[t] = staffProfile[t],
         staffIdentity'[s] # None, staffProfile[s] # None => staffProfile'[s] # None,
         NEW e \in Officer \ {d}, office'[e] # AtRest
  PROVE  ChangeHolds(e)'
<1>1. office'[e] = office[e] /\ ChangeHolds(e) /\ office[e] \in Job /\ office[e].staff \in Staff
  BY JobOrRest DEF StaffInv, StaffTypeOK, Job
<1>2. \A f \in Officer, t \in Staff : Changes(f, t)' => Changes(f, t)
  BY DEF StaffInv, StaffTypeOK, Changes
<1>3. CASE office[e].staff = s
  <2>1. ~office[e].alone
    BY <1>1, <1>3 DEF ChangeHolds
  <2>. QED
    BY <1>1, <1>3, <2>1 DEF ChangeHolds
<1>4. CASE office[e].staff # s
  BY <1>1, <1>2, <1>4 DEF ChangeHolds
<1>. QED
  BY <1>3, <1>4

\* A step that writes nothing of t, and begins no change of it, disturbs
\* neither its token nor what is settled of it.
LEMMA OtherStaff ==
  ASSUME StaffInv, NEW t \in Staff,
         staffIdentity'[t] = staffIdentity[t], staffProfile'[t] = staffProfile[t],
         userRoles'[t] = userRoles[t], staffCutoff'[t] = staffCutoff[t],
         staffToken'[t] = staffToken[t], settled'[t] = settled[t],
         clock' = clock, \A d \in Officer : Changes(d, t)' => Changes(d, t)
  PROVE  TokenHolds(t)' /\ SettledHolds(t)'
<1>1. TokenHolds(t) /\ SettledHolds(t)
  BY DEF StaffInv
<1>2. TokenHolds(t)'
  BY <1>1 DEF TokenHolds
<1>3. SettledHolds(t)'
  BY <1>1 DEF SettledHolds, Admitted, NamesOf
<1>. QED
  BY <1>2, <1>3

\* The beginning of a change: the job is typed and holds if what it asks for
\* does, and every other change holds as before.
LEMMA BeginStep ==
  ASSUME StaffInv, NEW d \in Officer, office[d] = AtRest,
         NEW s \in Staff, NEW w \in Job, w.staff = s, Begin(d, s, w),
         w.op \in {"assign", "read"}, w.op = "assign" => w.names # None,
         w.op = "read" => ~w.new /\ w.names = None,
         w.names # None /\ w.role # None => w.role \in w.names,
         w.names # None /\ w.role = None => ~w.new /\ staffProfile[s].role \in w.names,
         UNCHANGED <<staffProfile, userRoles, staffCutoff, staffToken, clock>>,
         \/ /\ w.new /\ w.names # None /\ w.role # None /\ w.op = "assign"
            /\ staffIdentity[s] = None
            /\ staffIdentity' = [staffIdentity EXCEPT ![s] = {}]
         \/ /\ ~w.new /\ staffProfile[s] # None /\ staffIdentity' = staffIdentity
  PROVE  StaffInv'
<1>1. /\ office \in [Officer -> Work] /\ StaffTypeOK
      /\ staffIdentity \in [Staff -> (SUBSET Name) \cup {None}]
      /\ settled \in [Staff -> {"nothing", "status", "roles"}]
  BY DEF StaffInv, StaffTypeOK
<1> DEFINE x == office'[d]
<1>2. /\ office' \in [Officer -> Work] /\ settled' = [settled EXCEPT ![s] = "nothing"]
      /\ x \in Job /\ x.op = w.op /\ x.new = w.new /\ x.staff = s /\ x.role = w.role
      /\ x.names = w.names /\ x.status = w.status /\ x.seen = w.seen
      /\ (x.alone <=> \A f \in Officer : ~Changes(f, s))
      /\ x # AtRest
  BY <1>1, BeginSets, JobOrRest
<1>3. ASSUME NEW e \in Officer \ {d}, ~Changes(e, s)
      PROVE  office'[e] = office[e]
  BY <1>1, <1>3, BeginSets
<1>4. ASSUME NEW e \in Officer \ {d}, Changes(e, s)
      PROVE  LET z == office'[e]
                 y == office[e]
             IN /\ z \in Job /\ z.op = y.op /\ z.new = y.new /\ z.staff = s
                /\ z.role = y.role /\ z.names = y.names /\ z.status = y.status
                /\ z.seen = y.seen /\ ~z.alone
  BY <1>1, <1>4, BeginSets
<1>5. \A e \in Officer, t \in Staff : Changes(e, t)' <=> (IF e = d THEN t = s ELSE Changes(e, t))
  <2>1. ASSUME NEW t \in Staff
        PROVE  Changes(d, t)' <=> t = s
    BY <1>2 DEF Changes
  <2>2. ASSUME NEW e \in Officer \ {d}, NEW t \in Staff, Changes(e, s)
        PROVE  Changes(e, t)' <=> Changes(e, t)
    <3>1. office'[e] # AtRest /\ office'[e].staff = s /\ office[e] # AtRest /\ office[e].staff = s
      BY <1>4, <2>2, JobOrRest DEF Changes
    <3>. QED
      BY <3>1 DEF Changes
  <2>3. ASSUME NEW e \in Officer \ {d}, NEW t \in Staff, ~Changes(e, s)
        PROVE  Changes(e, t)' <=> Changes(e, t)
    BY <1>3, <2>3 DEF Changes
  <2>. QED
    BY <2>1, <2>2, <2>3
<1>6. /\ staffIdentity' \in [Staff -> (SUBSET Name) \cup {None}]
      /\ staffIdentity'[s] # None
      /\ \A t \in Staff \ {s} : staffIdentity'[t] = staffIdentity[t]
      /\ \A t \in Staff : staffIdentity[t] # None => staffIdentity'[t] = staffIdentity[t]
      /\ w.new => staffIdentity'[s] = {} /\ staffProfile[s] = None
                  /\ \A e \in Officer \ {d} : ~Changes(e, s)
  <2>1. staffProfile[s] # None => staffIdentity[s] # None
    BY <1>1 DEF StaffTypeOK
  <2>2. \A e \in Officer : Changes(e, s) => staffIdentity[s] # None
    BY DEF StaffInv, ChangeHolds, Changes
  <2>. QED
    BY <1>1, <2>1, <2>2, StaffNullAssumption
<1>7. StaffTypeOK'
  BY <1>1, <1>2, <1>6, ZenonT(60) DEF StaffTypeOK
<1>8. ChangeHolds(d)'
  <2>1. ~Changes(d, s)
    BY DEF Changes
  <2>2. w.new => x.alone
    BY <1>2, <1>6, <2>1
  <2>3. x.alone => \A e \in Officer \ {d} : ~Changes(e, s)'
    BY <1>2, <1>5
  <2>. QED
    BY <1>2, <1>6, <2>2, <2>3 DEF ChangeHolds
<1>9. ASSUME NEW e \in Officer \ {d}, office'[e] # AtRest
      PROVE  ChangeHolds(e)'
  <2>1. CASE Changes(e, s)
    <3>1. ChangeHolds(e) /\ office[e].staff = s
      BY <2>1 DEF StaffInv, Changes
    <3>2. ~w.new /\ staffProfile[s] # None
      BY <1>6, <2>1
    <3>3. ~office[e].new
      BY <3>1, <3>2 DEF ChangeHolds
    <3>4. /\ office'[e].op = office[e].op /\ office'[e].new = office[e].new
          /\ office'[e].staff = s /\ office'[e].names = office[e].names
          /\ office'[e].seen = office[e].seen /\ ~office'[e].alone
      BY <1>4, <2>1
    <3>. QED
      BY <1>6, <3>1, <3>2, <3>3, <3>4 DEF ChangeHolds
  <2>2. CASE ~Changes(e, s)
    <3>1. office'[e] = office[e] /\ office[e] \in Job
      BY <1>1, <1>3, <1>9, <2>2, JobOrRest
    <3>2. ChangeHolds(e) /\ office[e].staff \in Staff \ {s}
      BY <1>9, <2>2, <3>1 DEF StaffInv, Changes, Job
    <3>. QED
      BY <1>5, <1>6, <3>1, <3>2 DEF ChangeHolds
  <2>. QED
    BY <2>1, <2>2
<1>10. ASSUME NEW t \in Staff \ {s}
       PROVE  TokenHolds(t)' /\ SettledHolds(t)'
  <2>1. settled'[t] = settled[t] /\ \A e \in Officer : Changes(e, t)' => Changes(e, t)
    BY <1>1, <1>2, <1>5
  <2>. QED
    BY <1>6, <2>1, OtherStaff
<1>11. TokenHolds(s)' /\ SettledHolds(s)'
  <2>1. settled'[s] = "nothing"
    BY <1>1, <1>2
  <2>2. TokenHolds(s)
    BY DEF StaffInv
  <2>3. TokenHolds(s)'
    BY <1>6, <2>2 DEF TokenHolds
  <2>. QED
    BY <2>1, <2>3 DEF SettledHolds
<1>. QED
  BY <1>7, <1>8, <1>9, <1>10, <1>11 DEF StaffInv

\* A step of a change of s under way keeps the invariant if it keeps that of s,
\* whatever it writes of s.
LEMMA ChangeStep ==
  ASSUME StaffInv, StaffTypeOK', NEW d \in Officer, NEW s \in Staff, Changes(d, s),
         office' = [office EXCEPT ![d] = office'[d]],
         office'[d] # AtRest => office'[d].staff = s,
         \A t \in Staff \ {s} :
           /\ staffIdentity'[t] = staffIdentity[t] /\ staffProfile'[t] = staffProfile[t]
           /\ userRoles'[t] = userRoles[t] /\ staffCutoff'[t] = staffCutoff[t]
           /\ settled'[t] = settled[t],
         staffToken' = staffToken, clock' = clock,
         staffIdentity'[s] # None, staffProfile[s] # None => staffProfile'[s] # None,
         office'[d] # AtRest => ChangeHolds(d)',
         TokenHolds(s)', SettledHolds(s)'
  PROVE  StaffInv'
<1>1. office \in [Officer -> Work]
  BY DEF StaffInv, StaffTypeOK
<1>2. \A e \in Officer \ {d} : office'[e] # AtRest => ChangeHolds(e)'
  BY OtherChanges
<1>3. \A e \in Officer, t \in Staff : Changes(e, t)' => Changes(e, t)
  BY <1>1 DEF Changes
<1>4. ASSUME NEW t \in Staff \ {s}
      PROVE  TokenHolds(t)' /\ SettledHolds(t)'
  BY <1>3, OtherStaff
<1>. QED
  BY <1>2, <1>4 DEF StaffInv

\* Every action of an administrator and of the clock keeps the invariant.
LEMMA StaffStep ==
  ASSUME StaffInv, StaffNext
  PROVE  StaffInv'
<1>1. /\ StaffTypeOK /\ office \in [Officer -> Work]
      /\ staffIdentity \in [Staff -> (SUBSET Name) \cup {None}]
      /\ staffProfile \in [Staff -> StaffRow \cup {None}]
      /\ userRoles \in [Staff -> SUBSET Name]
      /\ staffCutoff \in [Staff -> 0 .. LastTick]
      /\ staffToken \in [Staff -> StaffToken \cup {None}]
      /\ clock \in 1 .. LastTick
      /\ settled \in [Staff -> {"nothing", "status", "roles"}]
  BY DEF StaffInv, StaffTypeOK
<1>2. PICK no \in BOOLEAN, yes \in BOOLEAN : no = FALSE /\ yes = TRUE
  OBVIOUS
\* A change under way, and what is known of it.
<1>3. ASSUME NEW d \in Officer, office[d] # AtRest
      PROVE  /\ office[d] \in Job /\ office[d].staff \in Staff /\ Changes(d, office[d].staff)
             /\ office[d].names \in (SUBSET Name) \cup {None}
             /\ office[d].role \in Name \cup {None}
             /\ office[d].status \in Lifecycle \cup {None}
             /\ office[d].seen \in StaffRow \cup {None}
             /\ ChangeHolds(d) /\ settled[office[d].staff] = "nothing"
             /\ TokenHolds(office[d].staff)
  <2>1. office[d] \in Job
    BY <1>1, <1>3, JobOrRest
  <2>2. Changes(d, office[d].staff) /\ office[d].staff \in Staff
    BY <1>3, <2>1 DEF Changes, Job
  <2>3. settled[office[d].staff] = "nothing"
    BY <2>2 DEF StaffInv, SettledHolds
  <2>. QED
    BY <1>3, <2>1, <2>2, <2>3 DEF StaffInv, Job
<1>4. ASSUME NEW d \in Officer, NEW op, op \in {"assign", "read", "publish"}, office[d].op = op
      PROVE  office[d] # AtRest
  BY <1>4 DEF AtRest
<1>5. ASSUME NEW d \in Officer, CreateStaff(d)
      PROVE  StaffInv'
  <2>1. PICK s \in Staff, n \in Name, extra \in Lists \cup {{}} :
          /\ CreateStaffIdentity(s)
          /\ Begin(d, s, [op |-> "assign", new |-> TRUE, staff |-> s, role |-> n,
                          names |-> extra \cup {n}, status |-> None, seen |-> None,
                          alone |-> TRUE])
    BY <1>5 DEF CreateStaff
  <2> DEFINE names == extra \cup {n}
             w == [op |-> "assign", new |-> yes, staff |-> s, role |-> n, names |-> names,
                   status |-> None, seen |-> None, alone |-> yes]
  <2>2. names \in SUBSET Name /\ n \in names /\ names # None /\ n # None
    BY StaffAssumption, StaffNullAssumption
  <2>3. Begin(d, s, w)
    BY <1>2, <2>1
  <2> HIDE DEF names
  <2>4. /\ w \in Job /\ w.staff = s /\ w.op = "assign" /\ w.names = names /\ w.role = n
        /\ w.new = yes
    BY <2>2 DEF Job
  <2> HIDE DEF w
  <2>5. w.new
    BY <1>2, <2>4
  <2>6. /\ office[d] = AtRest
        /\ UNCHANGED <<staffProfile, userRoles, staffCutoff, staffToken, clock>>
    BY <1>5 DEF CreateStaff
  <2>7. staffIdentity[s] = None /\ staffIdentity' = [staffIdentity EXCEPT ![s] = {}]
    BY <2>1 DEF CreateStaffIdentity
  <2>. QED
    BY <2>2, <2>3, <2>4, <2>5, <2>6, <2>7, BeginStep
<1>6. ASSUME NEW d \in Officer, UpdateStaff(d)
      PROVE  StaffInv'
  <2>1. PICK s \in Staff, n \in Name \cup {None}, extra \in Lists \cup {None},
             status \in Lifecycle \cup {None}, rank \in OfficerRank :
          /\ staffProfile[s] # None
          /\ MayTouch(rank, NamesOf(s))
          /\ LET sets == n # None \/ extra # None
                 names == IF sets THEN Assigned(s, n, extra) ELSE None
             IN /\ sets => MayTouch(rank, names)
                /\ Begin(d, s, [op |-> IF sets THEN "assign" ELSE "read", new |-> FALSE,
                                staff |-> s, role |-> n, names |-> names, status |-> status,
                                seen |-> None, alone |-> TRUE])
    BY <1>6, Zenon DEF UpdateStaff
  <2>2. /\ office[d] = AtRest
        /\ UNCHANGED <<staffIdentity, staffProfile, userRoles, staffCutoff, staffToken, clock>>
    BY <1>6 DEF UpdateStaff
  <2>3. CASE n # None \/ extra # None
    <3> DEFINE names == Assigned(s, n, extra)
               w == [op |-> "assign", new |-> no, staff |-> s, role |-> n, names |-> names,
                     status |-> status, seen |-> None, alone |-> yes]
    <3>1. Begin(d, s, w)
      BY <1>2, <2>1, <2>3
    <3>2. staffProfile[s] \in StaffRow /\ staffProfile[s].role \in Name
      BY <1>1, <2>1, StaffAssumption DEF StaffRow
    <3>3. names \in SUBSET Name /\ names # None
      BY <3>2, StaffAssumption, StaffNullAssumption DEF Assigned
    <3>4. /\ n # None => n \in names
          /\ n = None => staffProfile[s].role \in names
      BY DEF Assigned
    <3> HIDE DEF names
    <3>5. /\ w \in Job /\ w.staff = s /\ w.op = "assign" /\ w.names = names /\ w.role = n
          /\ w.new = no
      BY <3>3 DEF Job
    <3> HIDE DEF w
    <3>6. ~w.new
      BY <1>2, <3>5
    <3>. QED
      BY <2>1, <2>2, <3>1, <3>3, <3>4, <3>5, <3>6, BeginStep
  <2>4. CASE n = None /\ extra = None
    <3> DEFINE w == [op |-> "read", new |-> no, staff |-> s, role |-> n, names |-> None,
                     status |-> status, seen |-> None, alone |-> yes]
    <3>1. Begin(d, s, w)
      BY <1>2, <2>1, <2>4
    <3>2. w \in Job /\ w.staff = s /\ w.op = "read" /\ w.names = None /\ w.new = no
      <4>1. None \in (SUBSET Name) \cup {None}
        BY Zenon
      <4>. QED
        BY <4>1 DEF Job
    <3> HIDE DEF w
    <3>3. ~w.new
      BY <1>2, <3>2
    <3>. QED
      BY <2>1, <2>2, <3>1, <3>2, <3>3, BeginStep
  <2>. QED
    BY <2>3, <2>4
<1>7. ASSUME NEW d \in Officer, AssignRoles(d)
      PROVE  StaffInv'
  <2>1. PICK w \in Job, s \in Staff :
        /\ w = office[d] /\ s = w.staff
        /\ w # AtRest /\ w.op = "assign" /\ Changes(d, s)
        /\ ChangeHolds(d) /\ settled[s] = "nothing" /\ TokenHolds(s)
        /\ w.names \in (SUBSET Name) \cup {None} /\ w.names # None
    BY <1>3, <1>4, <1>7 DEF AssignRoles, ChangeHolds
  <2> DEFINE op == IF w.new THEN "publish" ELSE "read"
  <2>2. /\ staffIdentity' = [staffIdentity EXCEPT ![s] = w.names]
        /\ office' = [office EXCEPT ![d] = [w EXCEPT !.op = op]]
        /\ UNCHANGED <<staffProfile, userRoles, staffCutoff, staffToken, clock, settled>>
    BY <1>1, <1>7, <2>1 DEF AssignRoles, Goes
  <2>3. op \in {"read", "publish"} /\ (op = "read" <=> ~w.new)
    OBVIOUS
  <2> HIDE DEF op
  <2>4. LET x == office'[d] IN
        /\ x \in Job /\ x.op = op /\ x.new = w.new /\ x.staff = s /\ x.role = w.role
        /\ x.names = w.names /\ x.status = w.status /\ x.seen = w.seen /\ x.alone = w.alone
    <3>1. office'[d] = [w EXCEPT !.op = op]
      BY <1>1, <2>2
    <3>2. op \in {"assign", "read", "publish"}
      BY <2>3
    <3>3. PICK y \in Job : y = w
      BY <2>1
    <3>4. LET x == [y EXCEPT !.op = op] IN
          /\ x \in Job /\ x.op = op /\ x.new = y.new /\ x.staff = y.staff /\ x.role = y.role
          /\ x.names = y.names /\ x.status = y.status /\ x.seen = y.seen /\ x.alone = y.alone
      BY <3>2, JobGoes
    <3>. QED
      BY <2>1, <3>1, <3>3, <3>4
  <2>5. office' = [office EXCEPT ![d] = office'[d]] /\ office'[d] \in Work /\ office'[d] # AtRest
    BY <1>1, <2>2, <2>4, JobOrRest
  <2>6. /\ staffIdentity'[s] = w.names /\ staffIdentity'[s] # None
        /\ \A t \in Staff \ {s} : staffIdentity'[t] = staffIdentity[t]
        /\ staffIdentity' \in [Staff -> (SUBSET Name) \cup {None}]
    BY <1>1, <2>1, <2>2
  <2>7. StaffTypeOK'
    BY <1>1, <2>1, <2>2, <2>5, <2>6 DEF StaffTypeOK
  <2>8. \A e \in Officer \ {d} : Changes(e, s)' <=> Changes(e, s)
    BY <1>1, <2>5 DEF Changes
  <2>9. ChangeHolds(d)'
    BY <2>1, <2>2, <2>3, <2>4, <2>6, <2>8 DEF ChangeHolds
  <2>10. TokenHolds(s)'
    BY <2>1, <2>2, <2>6 DEF TokenHolds, ChangeHolds
  <2>11. SettledHolds(s)'
    BY <2>1, <2>2 DEF SettledHolds
  <2>. QED
    BY <2>1, <2>2, <2>4, <2>5, <2>6, <2>7, <2>9, <2>10, <2>11, ChangeStep
<1>8. ASSUME NEW d \in Officer, CreateStaffProfile(d)
      PROVE  StaffInv'
  <2>1. PICK w \in Job, s \in Staff :
        /\ w = office[d] /\ s = w.staff
        /\ w # AtRest /\ w.op = "publish" /\ w.new /\ Changes(d, s)
        /\ ChangeHolds(d) /\ settled[s] = "nothing" /\ TokenHolds(s)
        /\ w.names \in (SUBSET Name) \cup {None} /\ w.names # None
    BY <1>3, <1>4, <1>8 DEF CreateStaffProfile, ChangeHolds
  <2> DEFINE row == [role |-> w.role, status |-> "approved"]
  <2>2. /\ w.alone /\ w.role \in w.names /\ staffProfile[s] = None
        /\ staffIdentity[s] # None /\ staffIdentity[s] = w.names
        /\ \A e \in Officer \ {d} : ~Changes(e, s)
    BY <2>1 DEF ChangeHolds
  <2>3. /\ w.role \in Primary
        /\ staffProfile' = [staffProfile EXCEPT ![s] = row]
        /\ userRoles' = [userRoles EXCEPT ![s] = w.names]
        /\ settled' = [settled EXCEPT ![s] = "roles"]
        /\ office' = [office EXCEPT ![d] = AtRest]
        /\ UNCHANGED <<staffIdentity, staffCutoff, staffToken, clock>>
    BY <1>8, <2>1, <2>2 DEF CreateStaffProfile, ChangeEnds
  <2>4. row \in StaffRow /\ row.role = w.role /\ row # None
    BY <2>3, StaffNullAssumption DEF StaffRow, Lifecycle
  <2> HIDE DEF row
  <2>5. /\ office'[d] = AtRest /\ office' = [office EXCEPT ![d] = office'[d]]
        /\ staffProfile'[s] = row /\ userRoles'[s] = w.names /\ settled'[s] = "roles"
        /\ AtRest \in Work
    BY <1>1, <2>1, <2>3, JobOrRest
  <2>6. StaffTypeOK'
    <3>1. staffProfile' \in [Staff -> StaffRow \cup {None}]
      BY <1>1, <2>3, <2>4
    <3>2. userRoles' \in [Staff -> SUBSET Name]
      <4>1. w.names \in SUBSET Name
        BY <2>1, Zenon
      <4>. QED
        BY <1>1, <2>3, <4>1
    <3>3. settled' \in [Staff -> {"nothing", "status", "roles"}] /\ office' \in [Officer -> Work]
      BY <1>1, <2>3, <2>5
    <3>4. \A t \in Staff : staffProfile'[t] # None => staffIdentity'[t] # None
      BY <1>1, <2>2, <2>3 DEF StaffTypeOK
    <3>. QED
      BY <1>1, <2>3, <3>1, <3>2, <3>3, <3>4 DEF StaffTypeOK
  <2>7. \A e \in Officer : ~Changes(e, s)'
    BY <1>1, <2>2, <2>3, <2>5 DEF Changes
  <2>8. TokenHolds(s)'
    BY <2>1, <2>3, <2>4, <2>5 DEF TokenHolds
  <2>9. Admitted(s)' => staffToken'[s].roles = staffIdentity'[s]
    BY <2>1, <2>2, <2>3 DEF TokenHolds, Admitted
  <2>10. NamesOf(s)' = staffIdentity'[s]
    BY <2>2, <2>3, <2>4, <2>5 DEF NamesOf
  <2>11. SettledHolds(s)'
    BY <2>4, <2>5, <2>7, <2>9, <2>10 DEF SettledHolds
  <2>. QED
    BY <1>1, <2>1, <2>2, <2>3, <2>4, <2>5, <2>6, <2>8, <2>11, ChangeStep
<1>9. ASSUME NEW d \in Officer, ReadStaffProfile(d)
      PROVE  StaffInv'
  <2>1. PICK w \in Job, s \in Staff :
        /\ w = office[d] /\ s = w.staff
        /\ w # AtRest /\ w.op = "read" /\ Changes(d, s)
        /\ ChangeHolds(d) /\ settled[s] = "nothing" /\ TokenHolds(s)
    BY <1>3, <1>4, <1>9 DEF ReadStaffProfile
  <2> DEFINE x == office'[d]
  <2>2. /\ office' = [office EXCEPT ![d] = [[w EXCEPT !.op = "publish"] EXCEPT
                                              !.seen = staffProfile[s]]]
        /\ UNCHANGED <<staffIdentity, staffProfile, userRoles, staffCutoff, staffToken, clock,
                       settled>>
    BY <1>1, <1>9, <2>1 DEF ReadStaffProfile
  <2>3. x = [[w EXCEPT !.op = "publish"] EXCEPT !.seen = staffProfile[s]]
    BY <1>1, <2>2
  <2>4. /\ x \in Job /\ x.op = "publish" /\ x.new = w.new /\ x.staff = s /\ x.role = w.role
        /\ x.names = w.names /\ x.alone = w.alone /\ x.seen = staffProfile[s]
    <3>1. staffProfile[s] \in StaffRow \cup {None}
      BY <1>1, <2>1
    <3>. QED
      BY <2>1, <2>3, <3>1 DEF Job
  <2>5. office' = [office EXCEPT ![d] = x] /\ x \in Work /\ x # AtRest
    BY <1>1, <2>2, <2>3, <2>4, JobOrRest
  <2> HIDE DEF x
  <2>6. StaffTypeOK'
    BY <1>1, <2>2, <2>5 DEF StaffTypeOK
  <2>7. \A e \in Officer \ {d} : Changes(e, s)' <=> Changes(e, s)
    BY <1>1, <2>5 DEF Changes
  <2>8. x = office'[d]
    BY DEF x
  <2>9. ChangeHolds(d)'
    BY <2>1, <2>2, <2>4, <2>7, <2>8 DEF ChangeHolds
  <2>10. TokenHolds(s)' /\ SettledHolds(s)'
    BY <2>1, <2>2 DEF TokenHolds, SettledHolds
  <2>11. staffIdentity[s] # None
    BY <2>1 DEF ChangeHolds
  <2>. QED
    BY <2>1, <2>2, <2>4, <2>5, <2>6, <2>8, <2>9, <2>10, <2>11, ChangeStep
<1>10. ASSUME NEW d \in Officer, UpdateStaffProfile(d)
       PROVE  StaffInv'
  <2>1. PICK w \in Job, s \in Staff :
        /\ w = office[d] /\ s = w.staff
        /\ w # AtRest /\ w.op = "publish" /\ ~w.new /\ Changes(d, s)
        /\ ChangeHolds(d) /\ settled[s] = "nothing" /\ TokenHolds(s)
        /\ w.names \in (SUBSET Name) \cup {None} /\ w.seen \in StaffRow
        /\ w.status \in Lifecycle \cup {None}
        /\ staffIdentity[s] # None
    BY <1>3, <1>4, <1>10 DEF UpdateStaffProfile, ChangeHolds
  <2> DEFINE row == Written(w)
             what == IF w.names # None THEN "roles"
                     ELSE IF w.status # None THEN "status" ELSE "nothing"
             result == IF w.alone THEN what ELSE "nothing"
  <2>2. /\ w.role \in Primary \cup {None}
        /\ staffProfile' = [staffProfile EXCEPT ![s] = row]
        /\ userRoles' = [userRoles EXCEPT ![s] = IF w.names = None THEN @ ELSE w.names]
        /\ staffCutoff' = [staffCutoff EXCEPT ![s] = Cutoff(w)]
        /\ settled' = [settled EXCEPT ![s] = result]
        /\ office' = [office EXCEPT ![d] = AtRest]
        /\ UNCHANGED <<staffIdentity, staffToken, clock>>
    BY <1>10, <2>1 DEF UpdateStaffProfile, ChangeEnds
  <2>3. row \in StaffRow /\ row.role = (IF w.role = None THEN w.seen.role ELSE w.role)
    BY <2>1, <2>2 DEF Written, StaffRow
  <2>4. Cutoff(w) \in 0 .. LastTick
    BY <1>1, <2>1, StaffAssumption DEF Cutoff
  <2>5. result \in {"nothing", "status", "roles"}
    OBVIOUS
  <2>6. result # "nothing" => w.alone /\ Cutoff(w) = clock
    BY DEF Cutoff
  <2>7. result = "roles" => w.alone /\ w.names # None
    OBVIOUS
  <2>8. row # None
    BY <2>3, StaffNullAssumption
  <2> HIDE DEF row, result
  <2>9. /\ office'[d] = AtRest /\ office' = [office EXCEPT ![d] = office'[d]]
        /\ staffProfile'[s] = row /\ settled'[s] = result
        /\ staffCutoff'[s] = Cutoff(w)
        /\ userRoles'[s] = (IF w.names = None THEN userRoles[s] ELSE w.names)
        /\ AtRest \in Work
    BY <1>1, <2>1, <2>2, JobOrRest
  <2>10. StaffTypeOK'
    <3>1. staffProfile' \in [Staff -> StaffRow \cup {None}]
      BY <1>1, <2>2, <2>3
    <3>2. userRoles' \in [Staff -> SUBSET Name]
      <4>1. userRoles[s] \in SUBSET Name
        BY <1>1
      <4>2. (IF w.names = None THEN userRoles[s] ELSE w.names) \in SUBSET Name
        BY <2>1, <4>1, Zenon
      <4>. QED
        BY <1>1, <2>2, <4>2
    <3>3. settled' \in [Staff -> {"nothing", "status", "roles"}]
      BY <1>1, <2>2, <2>5
    <3>4. staffCutoff' \in [Staff -> 0 .. LastTick]
      BY <1>1, <2>2, <2>4
    <3>5. office' \in [Officer -> Work]
      BY <1>1, <2>2, <2>9
    <3>6. \A t \in Staff : staffProfile'[t] # None => staffIdentity'[t] # None
      BY <1>1, <2>1, <2>2 DEF StaffTypeOK
    <3>. QED
      BY <1>1, <2>2, <3>1, <3>2, <3>3, <3>4, <3>5, <3>6 DEF StaffTypeOK
  <2>11. TokenHolds(s)'
    BY <2>1, <2>2, <2>8, <2>9 DEF TokenHolds
  <2>12. ASSUME settled'[s] # "nothing"
         PROVE  \A e \in Officer : ~Changes(e, s)'
    <3>1. \A e \in Officer \ {d} : ~Changes(e, s)
      BY <2>1, <2>6, <2>9, <2>12 DEF ChangeHolds
    <3>. QED
      BY <1>1, <2>2, <2>9, <3>1 DEF Changes
  <2>13. ASSUME settled'[s] # "nothing"
         PROVE  ~Admitted(s)'
    <3>1. staffCutoff'[s] = clock
      BY <2>6, <2>9, <2>13
    <3>2. staffToken[s] # None => staffToken[s].at <= clock /\ staffToken[s].at \in Nat
      BY <1>1, <2>1 DEF TokenHolds, StaffToken
    <3>. QED
      BY <1>1, <2>2, <3>1, <3>2 DEF Admitted
  <2>14. ASSUME settled'[s] = "roles"
         PROVE  staffIdentity'[s] = NamesOf(s)'
    <3>1. /\ w.names # None /\ staffIdentity[s] = w.names
          /\ w.role # None => w.role \in w.names
          /\ w.role = None => w.seen.role \in w.names
      BY <2>1, <2>7, <2>9, <2>14 DEF ChangeHolds
    <3>. QED
      BY <2>2, <2>3, <2>9, <3>1 DEF NamesOf
  <2>15. SettledHolds(s)'
    BY <2>8, <2>9, <2>12, <2>13, <2>14 DEF SettledHolds
  <2>. QED
    BY <1>1, <2>1, <2>2, <2>8, <2>9, <2>10, <2>11, <2>15, ChangeStep
<1>11. ASSUME NEW d \in Officer, ChangeFails(d)
       PROVE  StaffInv'
  <2>1. PICK s \in Staff :
        /\ s = office[d].staff /\ office[d] # AtRest /\ Changes(d, s)
        /\ ChangeHolds(d) /\ settled[s] = "nothing" /\ TokenHolds(s)
    BY <1>3, <1>11 DEF ChangeFails
  <2>2. /\ office' = [office EXCEPT ![d] = AtRest] /\ office'[d] = AtRest
        /\ UNCHANGED <<staffIdentity, staffProfile, userRoles, staffCutoff, staffToken, clock,
                       settled>>
    BY <1>1, <1>11 DEF ChangeFails
  <2>3. StaffTypeOK'
    BY <1>1, <2>2, JobOrRest DEF StaffTypeOK
  <2>4. TokenHolds(s)' /\ SettledHolds(s)'
    BY <2>1, <2>2 DEF TokenHolds, SettledHolds
  <2>5. staffIdentity[s] # None
    BY <2>1 DEF ChangeHolds
  <2>. QED
    BY <2>1, <2>2, <2>3, <2>4, <2>5, ChangeStep
<1>12. ASSUME NEW s \in Staff, StaffSignIn(s)
       PROVE  StaffInv'
  <2> DEFINE new == [roles |-> staffIdentity[s], at |-> clock]
  <2>1. /\ staffToken' = [staffToken EXCEPT ![s] = new] /\ staffIdentity[s] # None
        /\ UNCHANGED <<staffIdentity, staffProfile, userRoles, staffCutoff, clock, settled, office>>
    BY <1>12 DEF StaffSignIn
  <2>2. new \in StaffToken /\ new.roles = staffIdentity[s] /\ new.at = clock
    <3>1. staffIdentity[s] \in SUBSET Name
      BY <1>1, <2>1, Zenon
    <3>. QED
      BY <1>1, <3>1 DEF StaffToken
  <2> HIDE DEF new
  <2>3. staffToken'[s] = new /\ \A t \in Staff \ {s} : staffToken'[t] = staffToken[t]
    BY <1>1, <2>1
  <2>4. StaffTypeOK'
    BY <1>1, <2>1, <2>2 DEF StaffTypeOK
  <2>5. \A d \in Officer, t \in Staff : Changes(d, t)' <=> Changes(d, t)
    BY <2>1 DEF Changes
  <2>6. ASSUME NEW d \in Officer, office'[d] # AtRest
        PROVE  ChangeHolds(d)'
    <3>1. ChangeHolds(d) /\ office[d].staff \in Staff
      BY <1>3, <2>1, <2>6
    <3>. QED
      BY <2>1, <2>5, <3>1 DEF ChangeHolds
  <2>7. ASSUME NEW t \in Staff \ {s}
        PROVE  TokenHolds(t)' /\ SettledHolds(t)'
    BY <2>1, <2>3, <2>5, OtherStaff
  <2>8. TokenHolds(s)'
    BY <1>1, <2>1, <2>2, <2>3 DEF TokenHolds
  <2>9. SettledHolds(s)'
    <3>1. SettledHolds(s)
      BY DEF StaffInv
    <3>. QED
      BY <2>1, <2>2, <2>3, <2>5, <3>1 DEF SettledHolds, NamesOf
  <2>. QED
    BY <2>4, <2>6, <2>7, <2>8, <2>9 DEF StaffInv
<1>13. ASSUME ClockTicks
       PROVE  StaffInv'
  <2>1. /\ clock' = clock + 1 /\ clock < LastTick
        /\ UNCHANGED <<staffIdentity, staffProfile, userRoles, staffCutoff, staffToken, settled,
                       office>>
    BY <1>13 DEF ClockTicks
  <2>2. StaffTypeOK'
    BY <1>1, <2>1, StaffAssumption DEF StaffTypeOK
  <2>3. \A d \in Officer, t \in Staff : Changes(d, t)' <=> Changes(d, t)
    BY <2>1 DEF Changes
  <2>4. ASSUME NEW d \in Officer, office'[d] # AtRest
        PROVE  ChangeHolds(d)'
    <3>1. ChangeHolds(d) /\ office[d].staff \in Staff
      BY <1>3, <2>1, <2>4
    <3>. QED
      BY <2>1, <2>3, <3>1 DEF ChangeHolds
  <2>5. ASSUME NEW t \in Staff
        PROVE  TokenHolds(t)' /\ SettledHolds(t)'
    <3>1. TokenHolds(t) /\ SettledHolds(t)
      BY DEF StaffInv
    <3>2. staffToken[t] # None => staffToken[t].at \in Nat
      BY <1>1 DEF StaffToken
    <3>. QED
      BY <1>1, <2>1, <2>3, <3>1, <3>2 DEF TokenHolds, SettledHolds, NamesOf, Admitted
  <2>. QED
    BY <2>2, <2>4, <2>5 DEF StaffInv
<1>. QED
  BY <1>5, <1>6, <1>7, <1>8, <1>9, <1>10, <1>11, <1>12, <1>13 DEF StaffNext

\* The invariant holds of empty stores.
LEMMA StaffStart == StaffInit => StaffInv
<1> SUFFICES ASSUME StaffInit PROVE StaffInv
  OBVIOUS
<1>1. StaffTypeOK
  <2>1. 1 \in 1 .. LastTick /\ 0 \in 0 .. LastTick /\ AtRest \in Work
    BY StaffAssumption, JobOrRest
  <2>2. None \in (SUBSET Name) \cup {None} /\ {} \in SUBSET Name
    BY Zenon
  <2>. QED
    BY <2>1, <2>2 DEF StaffInit, StaffTypeOK
<1>. QED
  BY <1>1 DEF StaffInit, StaffInv, TokenHolds, SettledHolds

\* It is inductive.
LEMMA StaffInductive == StaffSpec => []StaffInv
<1>1. StaffInv /\ UNCHANGED staffVars => StaffInv'
  BY DEF StaffInv, staffVars, StaffTypeOK, ChangeHolds, TokenHolds, SettledHolds, Changes,
         Admitted, NamesOf
<1>. QED
  BY <1>1, StaffStart, StaffStep, PTL DEF StaffSpec

\* The stores of staff keep their types.
THEOREM StaffTyped == StaffSpec => []StaffTypeOK
<1>1. StaffInv => StaffTypeOK
  BY DEF StaffInv
<1>. QED
  BY <1>1, StaffInductive, PTL

\* Once a change of access is written that met no other, every token that is
\* admitted carries the roles the provider holds.
THEOREM SettledRolesRule == StaffSpec => []SettledRolesAreInForce
<1>1. StaffInv => SettledRolesAreInForce
  BY DEF StaffInv, SettledHolds, SettledRolesAreInForce
<1>. QED
  BY <1>1, StaffInductive, PTL

\* Once a change of roles is written that met no other, the provider and the
\* database hold the same roles.
THEOREM SettledRolesMatch == StaffSpec => []SettledRolesAgree
<1>1. StaffInv => SettledRolesAgree
  BY DEF StaffInv, SettledHolds, SettledRolesAgree
<1>. QED
  BY <1>1, StaffInductive, PTL

-----------------------------------------------------------------------------
(***************************************************************************)
(* The addresses of students.                                              *)
(***************************************************************************)

\* What a correction rests on: the account it corrects has a profile.  One that
\* met no other still finds there the address it read, and what it told the
\* provider is the provider's address, unless the user is gone.
CorrectionHolds(d) ==
  LET c == correction[d]
      a == c.account
  IN  /\ profileEmail[a] # None
      /\ c.alone => /\ \A e \in Registrar \ {d} : ~Corrects(e, a)
                    /\ profileEmail[a] = c.old
                    /\ c.step = "profile" => primaryEmail[a] \in {None, c.new}

\* What agrees does until the next correction begins.
AgreementHolds(a) ==
  a \in agreed => /\ \A d \in Registrar : ~Corrects(d, a)
                  /\ primaryEmail[a] # None => primaryEmail[a] = profileEmail[a]

EmailInv ==
  /\ EmailTypeOK
  /\ \A d \in Registrar : correction[d] # NoCorrection => CorrectionHolds(d)
  /\ \A a \in Account : AgreementHolds(a)

\* The corrections there may be under way, apart from none.
UnderWay == [step : {"provider", "profile", "undo"}, account : Account, old : Address,
             new : Address, alone : BOOLEAN]

\* An administrator corrects nothing or one account, never both.
LEMMA NoneOrUnderWay ==
  /\ Correction = {NoCorrection} \cup UnderWay
  /\ \A c \in UnderWay : c # NoCorrection
  /\ \A d \in Registrar, a \in Account :
       correction[d] = NoCorrection => ~Corrects(d, a)
BY EmailAssumption DEF Correction, UnderWay, NoCorrection, Corrects

\* A correction that goes on to another step keeps the rest.
LEMMA CorrectionGoes ==
  ASSUME NEW c \in UnderWay, NEW step \in {"provider", "profile", "undo"}
  PROVE  LET x == [c EXCEPT !.step = step] IN
         /\ x \in UnderWay /\ x.step = step /\ x.account = c.account
         /\ x.old = c.old /\ x.new = c.new /\ x.alone = c.alone
BY DEF UnderWay

\* The same of one that is met by another.
LEMMA CorrectionIsMet ==
  ASSUME NEW c \in UnderWay, NEW yes \in BOOLEAN
  PROVE  LET x == [c EXCEPT !.alone = yes] IN
         /\ x \in UnderWay /\ x.step = c.step /\ x.account = c.account
         /\ x.old = c.old /\ x.new = c.new /\ x.alone = yes
BY DEF UnderWay

\* A step of a correction of a keeps the invariant if it keeps that of a: it
\* writes of no other account, and whoever else corrects a knows it is met.
LEMMA CorrectionStep ==
  ASSUME EmailInv, EmailTypeOK', NEW d \in Registrar, NEW a \in Account, Corrects(d, a),
         correction' = [correction EXCEPT ![d] = correction'[d]],
         correction'[d] # NoCorrection => correction'[d].account = a,
         \A b \in Account \ {a} :
           /\ primaryEmail'[b] = primaryEmail[b] /\ profileEmail'[b] = profileEmail[b]
           /\ b \in agreed' <=> b \in agreed,
         profileEmail'[a] # None,
         correction'[d] # NoCorrection => CorrectionHolds(d)',
         AgreementHolds(a)'
  PROVE  EmailInv'
<1>1. correction \in [Registrar -> Correction] /\ EmailTypeOK
  BY DEF EmailInv, EmailTypeOK
<1>2. \A e \in Registrar \ {d} : correction'[e] = correction[e]
  BY <1>1
<1>3. \A e \in Registrar, b \in Account \ {a} : Corrects(e, b)' => Corrects(e, b)
  <2>1. correction'[d] = NoCorrection \/ correction'[d].account = a
    OBVIOUS
  <2>. QED
    BY <1>2, <2>1, EmailAssumption DEF Corrects, NoCorrection
<1>4. ASSUME NEW e \in Registrar \ {d}, correction'[e] # NoCorrection
      PROVE  CorrectionHolds(e)'
  <2>1. PICK c \in UnderWay : c = correction[e] /\ c = correction'[e]
    BY <1>1, <1>2, <1>4, NoneOrUnderWay
  <2>2. CorrectionHolds(e)
    BY <1>2, <1>4 DEF EmailInv
  <2>3. CASE c.account = a
    BY <2>1, <2>2, <2>3 DEF CorrectionHolds, Corrects
  <2>4. CASE c.account # a
    <3>1. c.account \in Account \ {a}
      BY <2>4 DEF UnderWay
    <3>. QED
      BY <1>3, <2>1, <2>2, <3>1 DEF CorrectionHolds
  <2>. QED
    BY <2>3, <2>4
<1>5. ASSUME NEW b \in Account \ {a}
      PROVE  AgreementHolds(b)'
  BY <1>3 DEF EmailInv, AgreementHolds
<1>. QED
  BY <1>4, <1>5 DEF EmailInv

\* The provider takes an address no other user has: users still differ in
\* address, and only this one has changed.
LEMMA ProviderTold ==
  ASSUME EmailTypeOK, NEW a \in Account, NEW e \in Address, UpdateUserEmail(a, e)
  PROVE  /\ primaryEmail' \in [Account -> Address \cup {None}]
         /\ primaryEmail'[a] = e
         /\ \A b \in Account \ {a} : primaryEmail'[b] = primaryEmail[b]
         /\ \A b, c \in Account : primaryEmail'[b] = primaryEmail'[c] => b = c \/ primaryEmail'[b] = None
BY DEF EmailTypeOK, UpdateUserEmail, AddressFree

\* A correction that begins meets those of the account that are under way.
LEMMA CorrectionBegins ==
  ASSUME EmailInv, NEW d \in Registrar, CorrectStudentEmail(d)
  PROVE  EmailInv'
<1>1. /\ correction \in [Registrar -> Correction] /\ EmailTypeOK /\ correction[d] = NoCorrection
      /\ profileEmail \in [Account -> Address \cup {None}]
      /\ UNCHANGED <<primaryEmail, profileEmail>>
  BY DEF EmailInv, EmailTypeOK, CorrectStudentEmail
<1>2. PICK a \in Account, new \in Address, old \in Address, yes \in BOOLEAN :
        /\ profileEmail[a] # None /\ old = profileEmail[a]
        /\ yes <=> \A g \in Registrar : ~Corrects(g, a)
        /\ correction' = [f \in Registrar |->
             IF f = d THEN [step |-> "provider", account |-> a, old |-> old, new |-> new,
                            alone |-> yes]
             ELSE IF Corrects(f, a) THEN [correction[f] EXCEPT !.alone = FALSE] ELSE correction[f]]
        /\ agreed' = agreed \ {a}
  <2>1. PICK a \in Account, new \in Address :
        /\ profileEmail[a] # None
        /\ correction' = [f \in Registrar |->
             IF f = d THEN [step |-> "provider", account |-> a, old |-> profileEmail[a], new |-> new,
                            alone |-> \A g \in Registrar : ~Corrects(g, a)]
             ELSE IF Corrects(f, a) THEN [correction[f] EXCEPT !.alone = FALSE] ELSE correction[f]]
        /\ agreed' = agreed \ {a}
    BY DEF CorrectStudentEmail
  <2>2. PICK old \in Address : old = profileEmail[a]
    BY <1>1, <2>1
  <2>3. PICK yes \in BOOLEAN : yes = \A g \in Registrar : ~Corrects(g, a)
    BY Zenon
  <2>. QED
    BY <2>1, <2>2, <2>3, ZenonT(60)
<1>3. ~Corrects(d, a)
  BY <1>1, NoneOrUnderWay
<1>4. LET x == correction'[d] IN
      /\ x \in UnderWay /\ x.account = a /\ x.old = old /\ x.step = "provider"
      /\ x.alone <=> \A g \in Registrar : ~Corrects(g, a)
  BY <1>2 DEF UnderWay
<1>5. ASSUME NEW f \in Registrar \ {d}, Corrects(f, a)
      PROVE  LET x == correction'[f] IN
             x \in UnderWay /\ x.account = a /\ ~x.alone
  <2>1. PICK c \in UnderWay : c = correction[f] /\ c.account = a
    BY <1>1, <1>5, NoneOrUnderWay DEF Corrects
  <2>2. PICK no \in BOOLEAN : ~no
    OBVIOUS
  <2>3. correction'[f] = [c EXCEPT !.alone = no]
    BY <1>2, <1>5, <2>1, <2>2
  <2>4. LET x == [c EXCEPT !.alone = no] IN
        x \in UnderWay /\ x.account = c.account /\ x.alone = no
    BY <2>1, <2>2, CorrectionIsMet
  <2>. QED
    BY <2>1, <2>2, <2>3, <2>4
<1>6. ASSUME NEW f \in Registrar \ {d}, ~Corrects(f, a)
      PROVE  correction'[f] = correction[f]
  BY <1>2, <1>6
<1>7. correction' \in [Registrar -> Correction]
  <2>1. ASSUME NEW f \in Registrar PROVE correction'[f] \in Correction
    BY <1>1, <1>4, <1>5, <1>6, NoneOrUnderWay
  <2>2. correction' = [f \in Registrar |-> correction'[f]]
    BY <1>2
  <2>. QED
    BY <2>1, <2>2
<1>8. EmailTypeOK'
  BY <1>1, <1>2, <1>7 DEF EmailTypeOK
<1>9. \A f \in Registrar, b \in Account : Corrects(f, b)' <=> (IF f = d THEN b = a ELSE Corrects(f, b))
  <2>1. ASSUME NEW f \in Registrar \ {d}, NEW b \in Account, Corrects(f, a)
        PROVE  Corrects(f, b)' <=> Corrects(f, b)
    <3>1. correction'[f].account = a /\ correction[f].account = a
      BY <1>5, <2>1 DEF Corrects
    <3>. QED
      BY <3>1 DEF Corrects
  <2>2. ASSUME NEW f \in Registrar \ {d}, NEW b \in Account, ~Corrects(f, a)
        PROVE  Corrects(f, b)' <=> Corrects(f, b)
    BY <1>6, <2>2 DEF Corrects
  <2>3. \A b \in Account : Corrects(d, b)' <=> b = a
    BY <1>4 DEF Corrects
  <2>. QED
    BY <2>1, <2>2, <2>3
<1>10. CorrectionHolds(d)'
  <2>1. correction'[d].alone => \A e \in Registrar \ {d} : ~Corrects(e, a)'
    BY <1>4, <1>9
  <2>. QED
    BY <1>1, <1>2, <1>4, <2>1 DEF CorrectionHolds
<1>11. ASSUME NEW f \in Registrar \ {d}, correction'[f] # NoCorrection
       PROVE  CorrectionHolds(f)'
  <2>1. CASE Corrects(f, a)
    BY <1>1, <1>2, <1>5, <2>1 DEF CorrectionHolds
  <2>2. CASE ~Corrects(f, a)
    <3>1. PICK c \in UnderWay : c = correction[f] /\ c = correction'[f] /\ c.account # a
      BY <1>1, <1>6, <1>11, <2>2, NoneOrUnderWay DEF Corrects
    <3>2. CorrectionHolds(f) /\ c.account \in Account
      BY <1>6, <1>11, <2>2, <3>1 DEF EmailInv, UnderWay
    <3>. QED
      BY <1>1, <1>9, <3>1, <3>2 DEF CorrectionHolds
  <2>. QED
    BY <2>1, <2>2
<1>12. ASSUME NEW b \in Account
       PROVE  AgreementHolds(b)'
  <2>1. b \in agreed' => b # a /\ b \in agreed
    BY <1>2
  <2>2. AgreementHolds(b)
    BY DEF EmailInv
  <2>. QED
    BY <1>1, <1>9, <2>1, <2>2 DEF AgreementHolds
<1>. QED
  BY <1>8, <1>10, <1>11, <1>12 DEF EmailInv

\* Every step keeps the invariant.
LEMMA EmailStep ==
  ASSUME EmailInv, [EmailNext]_emailVars
  PROVE  EmailInv'
<1>1. /\ EmailTypeOK /\ correction \in [Registrar -> Correction] /\ agreed \subseteq Account
      /\ primaryEmail \in [Account -> Address \cup {None}]
      /\ profileEmail \in [Account -> Address \cup {None}]
  BY DEF EmailInv, EmailTypeOK
<1>2. ASSUME NEW d \in Registrar, correction[d] # NoCorrection
      PROVE  \E c \in UnderWay, a \in Account :
             /\ c = correction[d] /\ a = c.account /\ Corrects(d, a) /\ CorrectionHolds(d)
             /\ c.old \in Address /\ c.new \in Address
             /\ profileEmail[a] # None /\ a \notin agreed
  <2>1. PICK c \in UnderWay : c = correction[d]
    BY <1>1, <1>2, NoneOrUnderWay
  <2>2. PICK a \in Account : a = c.account
    BY <2>1 DEF UnderWay
  <2>3. Corrects(d, a) /\ CorrectionHolds(d)
    BY <1>2, <2>1, <2>2 DEF Corrects, EmailInv
  <2>4. profileEmail[a] # None /\ a \notin agreed /\ c.old \in Address /\ c.new \in Address
    BY <2>1, <2>2, <2>3 DEF CorrectionHolds, EmailInv, AgreementHolds, UnderWay
  <2>. QED
    BY <2>1, <2>2, <2>3, <2>4
<1>3. CASE UNCHANGED emailVars
  BY <1>3 DEF emailVars, EmailInv, EmailTypeOK, CorrectionHolds, AgreementHolds, Corrects
<1>4. ASSUME NEW a \in Account, AccountAppears(a)
      PROVE  EmailInv'
  <2>1. PICK e \in Address :
        /\ profileEmail[a] = None /\ AddressFree(a, e)
        /\ primaryEmail' = [primaryEmail EXCEPT ![a] = e]
        /\ profileEmail' = [profileEmail EXCEPT ![a] = e]
        /\ agreed' = agreed \cup {a} /\ correction' = correction
    BY <1>4 DEF AccountAppears
  <2>2. \A d \in Registrar : ~Corrects(d, a)
    BY <2>1, <1>2, NoneOrUnderWay DEF Corrects
  <2>3. EmailTypeOK'
    BY <1>1, <2>1 DEF EmailTypeOK, AddressFree
  <2>4. ASSUME NEW d \in Registrar, correction'[d] # NoCorrection
        PROVE  CorrectionHolds(d)'
    <3>1. PICK c \in UnderWay, b \in Account : c = correction[d] /\ b = c.account /\ CorrectionHolds(d)
                                               /\ Corrects(d, b)
      BY <1>2, <2>1, <2>4
    <3>2. b # a
      BY <2>2, <3>1
    <3>. QED
      BY <1>1, <2>1, <3>1, <3>2 DEF CorrectionHolds, Corrects
  <2>5. \A b \in Account : AgreementHolds(b)'
    BY <1>1, <2>1, <2>2 DEF EmailInv, AgreementHolds, Corrects
  <2>. QED
    BY <2>3, <2>4, <2>5 DEF EmailInv
<1>5. ASSUME NEW a \in Account, UserIsDeleted(a)
      PROVE  EmailInv'
  <2>1. /\ primaryEmail' = [primaryEmail EXCEPT ![a] = None]
        /\ UNCHANGED <<profileEmail, correction, agreed>>
    BY <1>5 DEF UserIsDeleted
  <2>2. EmailTypeOK'
    BY <1>1, <2>1 DEF EmailTypeOK
  <2>3. \A d \in Registrar : correction'[d] # NoCorrection => CorrectionHolds(d)'
    <3>1. ASSUME NEW d \in Registrar, correction[d] # NoCorrection
          PROVE  CorrectionHolds(d)'
      <4>1. PICK c \in UnderWay, b \in Account :
            c = correction[d] /\ b = c.account /\ CorrectionHolds(d)
        BY <1>2, <3>1
      <4>2. primaryEmail'[b] \in {None, primaryEmail[b]}
        BY <1>1, <2>1
      <4>. QED
        BY <2>1, <4>1, <4>2 DEF CorrectionHolds, Corrects
    <3>. QED
      BY <2>1, <3>1
  <2>4. \A b \in Account : AgreementHolds(b)'
    BY <1>1, <2>1 DEF EmailInv, AgreementHolds, Corrects
  <2>. QED
    BY <2>2, <2>3, <2>4 DEF EmailInv
<1>6. ASSUME NEW d \in Registrar, TellProvider(d)
      PROVE  EmailInv'
  <2>1. PICK c \in UnderWay, a \in Account :
        /\ c = correction[d] /\ a = c.account /\ Corrects(d, a) /\ CorrectionHolds(d)
        /\ c.old \in Address /\ c.new \in Address
        /\ profileEmail[a] # None /\ a \notin agreed
    BY <1>2, <1>6 DEF TellProvider, NoCorrection
  <2>2. /\ UpdateUserEmail(a, c.new) /\ UNCHANGED <<profileEmail, agreed>>
        /\ correction' = [correction EXCEPT ![d] = [c EXCEPT !.step = "profile"]]
    BY <1>1, <1>6, <2>1 DEF TellProvider, Continues
  <2>3. LET x == [c EXCEPT !.step = "profile"] IN
        /\ x \in UnderWay /\ x.step = "profile" /\ x.account = c.account
        /\ x.old = c.old /\ x.new = c.new /\ x.alone = c.alone
    BY <2>1, CorrectionGoes
  <2>4. LET x == correction'[d] IN
        /\ x \in UnderWay /\ x.step = "profile" /\ x.account = a
        /\ x.old = c.old /\ x.new = c.new /\ x.alone = c.alone
    BY <1>1, <2>1, <2>2, <2>3
  <2>5. correction' = [correction EXCEPT ![d] = correction'[d]]
        /\ \A e \in Registrar \ {d} : Corrects(e, a)' <=> Corrects(e, a)
    BY <1>1, <2>2 DEF Corrects
  <2>6. /\ primaryEmail' \in [Account -> Address \cup {None}] /\ primaryEmail'[a] = c.new
        /\ \A b \in Account \ {a} : primaryEmail'[b] = primaryEmail[b]
        /\ \A b, e \in Account : primaryEmail'[b] = primaryEmail'[e] => b = e \/ primaryEmail'[b] = None
    BY <1>1, <2>1, <2>2, ProviderTold
  <2>7. EmailTypeOK'
    BY <1>1, <2>2, <2>4, <2>5, <2>6, NoneOrUnderWay DEF EmailTypeOK
  <2>8. CorrectionHolds(d)'
    BY <2>1, <2>2, <2>4, <2>5, <2>6 DEF CorrectionHolds
  <2>9. AgreementHolds(a)'
    BY <2>1, <2>2 DEF AgreementHolds
  <2>. QED
    BY <2>1, <2>2, <2>4, <2>5, <2>6, <2>7, <2>8, <2>9, CorrectionStep
<1>7. ASSUME NEW d \in Registrar, ProfileRefuses(d)
      PROVE  EmailInv'
  <2>1. PICK c \in UnderWay, a \in Account :
        /\ c = correction[d] /\ a = c.account /\ Corrects(d, a) /\ CorrectionHolds(d)
        /\ c.old \in Address /\ c.new \in Address
        /\ profileEmail[a] # None /\ a \notin agreed
    BY <1>2, <1>7 DEF ProfileRefuses, NoCorrection
  <2>2. UNCHANGED <<primaryEmail, agreed>>
    BY <1>7 DEF ProfileRefuses
  <2>3. PICK no \in BOOLEAN : no = FALSE
    OBVIOUS
  <2>4. \/ /\ profileEmail' = profileEmail
           /\ correction' = [correction EXCEPT ![d] = [c EXCEPT !.step = "undo"]]
        \/ /\ profileEmail' = [profileEmail EXCEPT ![a] = c.new]
           /\ correction' = [correction EXCEPT ![d] = [c EXCEPT !.step = "undo", !.alone = no]]
    BY <1>1, <1>7, <2>1, <2>3 DEF ProfileRefuses, Continues
  <2>5. /\ LET x == [c EXCEPT !.step = "undo"] IN
             /\ x \in UnderWay /\ x.step = "undo" /\ x.account = c.account
             /\ x.old = c.old /\ x.new = c.new /\ x.alone = c.alone
        /\ LET x == [c EXCEPT !.step = "undo", !.alone = no] IN
             /\ x \in UnderWay /\ x.step = "undo" /\ x.account = c.account
             /\ x.old = c.old /\ x.new = c.new /\ x.alone = no
    <3>1. PICK y : y = [c EXCEPT !.step = "undo"]
      OBVIOUS
    <3>2. /\ y \in UnderWay /\ y.step = "undo" /\ y.account = c.account
          /\ y.old = c.old /\ y.new = c.new /\ y.alone = c.alone
      BY <2>1, <3>1, CorrectionGoes
    <3>3. LET x == [y EXCEPT !.alone = no] IN
          /\ x \in UnderWay /\ x.step = y.step /\ x.account = y.account
          /\ x.old = y.old /\ x.new = y.new /\ x.alone = no
      BY <2>3, <3>2, CorrectionIsMet
    <3>4. [c EXCEPT !.step = "undo", !.alone = no] = [y EXCEPT !.alone = no]
      BY <2>1, <3>1, <3>2 DEF UnderWay
    <3>. QED
      BY <3>1, <3>2, <3>3, <3>4
  <2>6. LET x == correction'[d] IN
        /\ x \in UnderWay /\ x.step = "undo" /\ x.account = a
        /\ x.old = c.old /\ x.new = c.new
        /\ x.alone => c.alone /\ profileEmail' = profileEmail
    BY <1>1, <2>1, <2>3, <2>4, <2>5
  <2>7. correction' = [correction EXCEPT ![d] = correction'[d]]
        /\ \A e \in Registrar \ {d} : Corrects(e, a)' <=> Corrects(e, a)
    BY <1>1, <2>4 DEF Corrects
  <2>8. /\ profileEmail' \in [Account -> Address \cup {None}] /\ profileEmail'[a] # None
        /\ \A b \in Account \ {a} : profileEmail'[b] = profileEmail[b]
    BY <1>1, <2>1, <2>4, EmailAssumption
  <2>9. EmailTypeOK'
    BY <1>1, <2>2, <2>6, <2>7, <2>8, NoneOrUnderWay DEF EmailTypeOK
  <2>10. CorrectionHolds(d)'
    BY <2>1, <2>2, <2>6, <2>7, <2>8 DEF CorrectionHolds
  <2>11. AgreementHolds(a)'
    BY <2>1, <2>2 DEF AgreementHolds
  <2>. QED
    BY <2>1, <2>2, <2>6, <2>7, <2>8, <2>9, <2>10, <2>11, CorrectionStep
<1>8. ASSUME NEW d \in Registrar, UpdateProfileEmail(d) \/ UndoEmail(d) \/ CorrectionFails(d)
      PROVE  EmailInv'
  <2>1. PICK c \in UnderWay, a \in Account :
        /\ c = correction[d] /\ a = c.account /\ Corrects(d, a) /\ CorrectionHolds(d)
        /\ c.old \in Address /\ c.new \in Address
        /\ profileEmail[a] # None /\ a \notin agreed
    <3>1. correction[d] # NoCorrection
      <4>1. NoCorrection.step = "none"
        BY DEF NoCorrection
      <4>. QED
        BY <1>8, <4>1 DEF UpdateProfileEmail, UndoEmail, CorrectionFails
    <3>. QED
      BY <1>2, <3>1
  <2>2. /\ correction' = [correction EXCEPT ![d] = NoCorrection]
        /\ agreed' \in {agreed, agreed \cup {a}}
    BY <1>8, <2>1 DEF UpdateProfileEmail, UndoEmail, CorrectionFails, Closes
  <2>3. /\ correction'[d] = NoCorrection
        /\ correction' = [correction EXCEPT ![d] = correction'[d]]
        /\ NoCorrection \in Correction
        /\ \A e \in Registrar \ {d} : Corrects(e, a)' <=> Corrects(e, a)
        /\ ~Corrects(d, a)'
    BY <1>1, <2>2, EmailAssumption DEF Corrects, Correction, NoCorrection
  <2>4. /\ primaryEmail' \in [Account -> Address \cup {None}]
        /\ \A b \in Account \ {a} : primaryEmail'[b] = primaryEmail[b]
        /\ \A b, e \in Account : primaryEmail'[b] = primaryEmail'[e] => b = e \/ primaryEmail'[b] = None
    <3>1. CASE UndoEmail(d)
      <4>1. UpdateUserEmail(a, c.old)
        BY <2>1, <3>1 DEF UndoEmail, UndoneTo
      <4>. QED
        BY <1>1, <2>1, <4>1, ProviderTold
    <3>2. CASE UpdateProfileEmail(d) \/ CorrectionFails(d)
      BY <1>1, <3>2 DEF EmailTypeOK, UpdateProfileEmail, CorrectionFails
    <3>. QED
      BY <1>8, <3>1, <3>2
  <2>5. /\ profileEmail' \in [Account -> Address \cup {None}] /\ profileEmail'[a] # None
        /\ \A b \in Account \ {a} : profileEmail'[b] = profileEmail[b]
    <3>1. profileEmail' = profileEmail \/ profileEmail' = [profileEmail EXCEPT ![a] = c.new]
      BY <1>8, <2>1, Zenon DEF UpdateProfileEmail, UndoEmail, CorrectionFails
    <3>2. profileEmail \in [Account -> Address \cup {None}]
      BY <1>1 DEF EmailTypeOK
    <3>. QED
      BY <2>1, <3>1, <3>2, EmailAssumption
  <2>6. EmailTypeOK'
    BY <1>1, <2>2, <2>3, <2>4, <2>5 DEF EmailTypeOK
  <2>7. AgreementHolds(a)'
    <3>1. SUFFICES ASSUME a \in agreed'
                   PROVE  /\ \A e \in Registrar : ~Corrects(e, a)'
                          /\ primaryEmail'[a] # None => primaryEmail'[a] = profileEmail'[a]
      BY DEF AgreementHolds
    <3>2. c.alone /\ (UpdateProfileEmail(d) \/ UndoEmail(d))
      <4>1. CASE CorrectionFails(d)
        <5>1. agreed' = agreed
          BY <4>1 DEF CorrectionFails, Closes
        <5>. QED
          BY <2>1, <3>1, <5>1
      <4>2. CASE UpdateProfileEmail(d) \/ UndoEmail(d)
        <5>1. Closes(d, TRUE)
          BY <4>2 DEF UpdateProfileEmail, UndoEmail
        <5>2. c.alone
          BY <2>1, <3>1, <5>1 DEF Closes
        <5>. QED
          BY <4>2, <5>2
      <4>. QED
        BY <1>8, <4>1, <4>2
    <3>3. /\ profileEmail[a] = c.old /\ \A e \in Registrar \ {d} : ~Corrects(e, a)
          /\ c.step = "profile" => primaryEmail[a] \in {None, c.new}
      BY <2>1, <3>2 DEF CorrectionHolds
    <3>4. CASE UpdateProfileEmail(d)
      <4>1. c.step = "profile" /\ profileEmail'[a] = c.new /\ primaryEmail'[a] = primaryEmail[a]
        BY <1>1, <2>1, <3>4 DEF UpdateProfileEmail
      <4>. QED
        BY <2>3, <3>3, <4>1
    <3>5. CASE UndoEmail(d)
      <4>1. primaryEmail'[a] = c.old /\ profileEmail'[a] = profileEmail[a]
        BY <1>1, <2>1, <3>5 DEF UndoEmail, UndoneTo, UpdateUserEmail
      <4>. QED
        BY <2>3, <3>3, <4>1
    <3>. QED
      BY <1>8, <3>2, <3>4, <3>5
  <2>. QED
    BY <2>1, <2>2, <2>3, <2>4, <2>5, <2>6, <2>7, CorrectionStep
<1>. QED
  BY <1>3, <1>4, <1>5, <1>6, <1>7, <1>8, CorrectionBegins DEF EmailNext

\* No correction has begun.
LEMMA EmailStart == EmailInit => EmailInv
BY EmailAssumption DEF EmailInit, EmailInv, EmailTypeOK, CorrectionHolds, AgreementHolds,
   Corrects, Correction, NoCorrection

\* The addresses keep their invariant.
LEMMA EmailInductive == EmailSpec => []EmailInv
BY EmailStart, EmailStep, PTL DEF EmailSpec

\* A correction that no other met, no answer of which was lost and no undoing
\* of which failed, leaves one address (correctStudentEmail).
THEOREM EmailsStayOne == EmailSpec => []EmailsAgree
<1>1. EmailInv => EmailsAgree
  BY DEF EmailInv, EmailTypeOK, AgreementHolds, EmailsAgree
<1>. QED
  BY <1>1, EmailInductive, PTL

-----------------------------------------------------------------------------
(***************************************************************************)
(* The gate.                                                               *)
(***************************************************************************)

\* What passed the gate by one schedule was called late by that schedule alone.
PassedIsPlain ==
  passed # None /\ passed.one =>
    (passed.late <=> passed.action = "check_in" /\ passed.hour > passed.times.end)

GateInv == GateTypeOK /\ PassedIsPlain

\* The submissions that may have passed, apart from none.
Passage == [action : {"check_in", "check_out"}, late : BOOLEAN, hour : 0 .. LastHour,
            times : Times, one : BOOLEAN]

\* A schedule a query may return is one there is.
LEMMA SchedulesAreRows ==
  /\ OwnSchedules \subseteq Rows(schedule)
  /\ GeneralSchedules \subseteq Rows(schedule)
BY DEF OwnSchedules, GeneralSchedules, Preferred

\* Whoever there is a schedule for finds one: of those a query matches one is
\* preferred.
LEMMA SomeScheduleIsFound ==
  Rows(schedule) # {} => OwnSchedules # {}
<1>1. \A x \in Rows(schedule) : Rank(x) \in 1 .. 5
  BY DEF Rank
<1> DEFINE matched == {x \in Rows(schedule) : Rank(x) < 5}
<1>2. ASSUME matched # {}
      PROVE  Preferred(matched) # {}
  <2> DEFINE at(r) == \E x \in matched : Rank(x) = r
  <2>1. PICK r \in 1 .. 4 : at(r) /\ \A q \in 1 .. 4 : q < r => ~at(q)
    <3>1. at(1) \/ at(2) \/ at(3) \/ at(4)
      BY <1>1, <1>2
    <3>. QED
      BY <3>1
  <2>2. PICK x \in matched : Rank(x) = r
    BY <2>1
  <2>3. \A y \in matched : Rank(y) \in 1 .. 4 /\ at(Rank(y))
    BY <1>1
  <2>4. x \in Preferred(matched)
    BY <2>1, <2>2, <2>3 DEF Preferred
  <2>. QED
    BY <2>4
<1>. QED
  BY <1>2 DEF OwnSchedules

\* The gate lets an action pass only by a schedule, on a clear working day, and
\* it is then the one that is open and that validation names.
LEMMA GateLetsPass ==
  ASSUME NEW x, NEW e, GateAnswer(x, e).action # None
  PROVE  /\ standing = "clear" /\ e # "holiday" /\ x # None
         /\ GateAnswer(x, e) = OpenAction(x)
         /\ ValidatedAction = OpenAction(x).action
BY DEF GateAnswer, Confirmed, Refuse, Healthy

\* The action that is open is a check-in or a check-out.
LEMMA OpenIsAnAction ==
  ASSUME NEW x
  PROVE  OpenAction(x).action \in {"check_in", "check_out", None}
BY DEF OpenAction, Refuse, Allow

\* On a clear working day with a schedule the dashboard offers what is open, and
\* what it offers is offered on no other.
LEMMA DashboardOffersTheOpen ==
  ASSUME NEW x, NEW e, standing \in Standings
  PROVE  /\ standing = "clear" /\ e # "holiday" /\ x # None => DashboardAnswer(x, e) = OpenAction(x)
         /\ DashboardAnswer(x, e).action # None =>
              standing = "clear" /\ e # "holiday" /\ x # None
BY DEF DashboardAnswer, PrimaryAction, Refuse, Healthy, Standings

\* If the rows mean what their actions say and the student is at school,
\* validation names the action that is open.
LEMMA ValidationNamesTheOpen ==
  ASSUME dayRows \subseteq DayRow, PlainRows, NEW l \in Place, place[l] = "near",
         DOMAIN place = Place, None # "near",
         NEW x, OpenAction(x).action # None
  PROVE  ValidatedAction = OpenAction(x).action
<1>1. ~\A k \in Rows(place) : place[k] = "far"
  BY DEF Rows
<1>2. \A r \in dayRows : /\ r.action \in {"check_in", "check_out"}
                         /\ r.action = "check_in" => r.status \in {"Hadir", "Terlambat"}
                         /\ r.action = "check_out" => r.status = "Pulang"
  BY DEF PlainRows, DayRow
<1>3. /\ "Alpha" \notin Statuses
      /\ RowsCheckedIn <=> {"Hadir", "Terlambat"} \cap Statuses # {}
      /\ RowsCheckedOut <=> "Pulang" \in Statuses
  BY <1>2 DEF Statuses, Actions, RowsCheckedIn, RowsCheckedOut
<1>4. (HasCheckedIn <=> RowsCheckedIn) /\ (HasCheckedOut <=> RowsCheckedOut)
  BY <1>3 DEF HasCheckedIn, HasCheckedOut
<1>5. /\ ~(HasCheckedIn /\ HasCheckedOut)
      /\ OpenAction(x).action = IF HasCheckedIn THEN "check_out" ELSE "check_in"
  BY DEF OpenAction, Refuse, Allow
<1>. QED
  BY <1>1, <1>3, <1>4, <1>5 DEF ValidatedAction

\* The agreement of the button and the gate is one of the tables and rows, in
\* whatever state they are.
LEMMA DecisionsAgree ==
  ASSUME GateTypeOK
  PROVE  ButtonMatchesGate
<1>1. /\ schedule \in [Slot -> ScheduleRow \cup {None}] /\ standing \in Standings
      /\ place \in [Place -> {"near", "far", None}] /\ dayRows \subseteq DayRow
      /\ exception \in [Exception -> {"holiday", "workday", None}]
  BY DEF GateTypeOK
<1> SUFFICES ASSUME NEW x \in OrNull(OwnSchedules), NEW e \in Exceptions
             PROVE  LET offer == DashboardAnswer(x, e).action
                        gate == GateAnswer(x, e).action
                    IN /\ gate # None => offer = gate
                       /\ offer # None /\ PlainRows /\ (\E l \in Place : place[l] = "near")
                            => gate = offer
                       /\ SchoolDayForClass => x # None /\ e # "holiday"
  BY DEF ButtonMatchesGate
<1>2. ASSUME GateAnswer(x, e).action # None
      PROVE  DashboardAnswer(x, e).action = GateAnswer(x, e).action
  BY <1>1, <1>2, GateLetsPass, DashboardOffersTheOpen
<1>3. ASSUME DashboardAnswer(x, e).action # None, PlainRows, NEW l \in Place, place[l] = "near"
      PROVE  GateAnswer(x, e).action = DashboardAnswer(x, e).action
  <2>1. /\ standing = "clear" /\ e # "holiday" /\ x # None
        /\ DashboardAnswer(x, e) = OpenAction(x)
    BY <1>1, <1>3, DashboardOffersTheOpen
  <2>2. ValidatedAction = OpenAction(x).action
    BY <1>1, <1>3, <2>1, ValidationNamesTheOpen, GateAssumption
  <2>. QED
    BY <2>1, <2>2 DEF GateAnswer, Confirmed, Healthy
<1>4. ASSUME SchoolDayForClass
      PROVE  x # None /\ e # "holiday"
  <2>1. Rows(schedule) # {}
    <3>1. Cardinality({}) = 0
      BY FS_EmptySet
    <3>. QED
      BY <1>4, <3>1 DEF SchoolDayForClass
  <2>2. x \in Slot
    BY <1>1, <2>1, SomeScheduleIsFound, SchedulesAreRows DEF OrNull, Rows
  <2>3. e # "holiday"
    BY <1>4 DEF SchoolDayForClass, Exceptions
  <2>. QED
    BY <2>2, <2>3, GateAssumption
<1>. QED
  BY <1>2, <1>3, <1>4

\* What a submission keeps of the decision.
LEMMA SubmitPasses ==
  ASSUME GateInv, Submit
  PROVE  GateInv'
<1>1. /\ hour \in 0 .. LastHour /\ schedule \in [Slot -> ScheduleRow \cup {None}]
      /\ GateTypeOK /\ UNCHANGED <<hour, policy, standing, dayRows>>
  BY DEF GateInv, GateTypeOK, Submit
<1>2. PICK x \in OrNull(OwnSchedules), e \in Exceptions, g \in GeneralSchedules :
        LET action == GateAnswer(x, e).action IN
        /\ action # None
        /\ passed' = [action |-> action, hour |-> hour,
                      times |-> schedule[x].times, one |-> x = g,
                      late |-> IsLate(schedule[x].times, action, hour)
                               \/ (action = "check_in" /\ hour > schedule[g].times.end)]
  BY DEF Submit
<1>3. x \in Slot /\ schedule[x] \in ScheduleRow /\ schedule[x].times \in Times
  <2>1. x # None
    BY <1>2, GateLetsPass
  <2>2. x \in Rows(schedule)
    BY <2>1, SchedulesAreRows DEF OrNull
  <2>. QED
    BY <1>1, <2>2 DEF Rows, ScheduleRow
<1>4. PICK action \in {"check_in", "check_out"} : action = GateAnswer(x, e).action
  BY <1>2, GateLetsPass, OpenIsAnAction
<1>5. PICK t \in Times : t = schedule[x].times
  BY <1>3
<1>6. PICK one \in BOOLEAN, late \in BOOLEAN :
        /\ one = (x = g)
        /\ late = (IsLate(t, action, hour) \/ (action = "check_in" /\ hour > schedule[g].times.end))
  BY Zenon DEF IsLate
<1>7. passed' = [action |-> action, hour |-> hour, times |-> t, one |-> one, late |-> late]
  BY <1>2, <1>4, <1>5, <1>6
<1>8. GateTypeOK'
  BY <1>1, <1>4, <1>5, <1>6, <1>7 DEF GateTypeOK, policy
<1>9. PassedIsPlain'
  <2>1. ASSUME one
        PROVE  late <=> action = "check_in" /\ hour > t.end
    BY <1>5, <1>6, <2>1 DEF IsLate
  <2>. QED
    BY <1>1, <1>7, <2>1 DEF PassedIsPlain
<1>. QED
  BY <1>8, <1>9 DEF GateInv

\* Every step keeps the invariant.
LEMMA GateStep ==
  ASSUME GateInv, [GateNext]_gateVars
  PROVE  GateInv'
<1>1. /\ hour \in 0 .. LastHour /\ schedule \in [Slot -> ScheduleRow \cup {None}]
      /\ place \in [Place -> {"near", "far", None}]
      /\ exception \in [Exception -> {"holiday", "workday", None}]
      /\ standing \in Standings /\ dayRows \subseteq DayRow
      /\ passed \in {None} \cup Passage /\ GateTypeOK /\ PassedIsPlain
  BY DEF GateInv, GateTypeOK, Passage
<1>2. CASE UNCHANGED gateVars
  BY <1>1, <1>2 DEF GateInv, GateTypeOK, PassedIsPlain, gateVars, policy
<1>3. ASSUME NEW x \in Slot, CreateSchedule(x) \/ UpdateSchedule(x) \/ DeleteSchedule(x)
      PROVE  GateInv'
  <2>1. \E s \in ScheduleRow \cup {None} : schedule' = [schedule EXCEPT ![x] = s]
    BY <1>3 DEF CreateSchedule, UpdateSchedule, DeleteSchedule
  <2>2. UNCHANGED <<hour, place, exception, standing, dayRows, passed>>
    BY <1>3 DEF CreateSchedule, UpdateSchedule, DeleteSchedule
  <2>. QED
    BY <1>1, <2>1, <2>2 DEF GateInv, GateTypeOK, PassedIsPlain
<1>4. ASSUME NEW l \in Place, EditLocation(l)
      PROVE  GateInv'
  BY <1>1, <1>4 DEF EditLocation, PutLocation, GateInv, GateTypeOK, PassedIsPlain
<1>5. ASSUME NEW e \in Exception, EditException(e)
      PROVE  GateInv'
  BY <1>1, <1>5 DEF EditException, PutException, GateInv, GateTypeOK, PassedIsPlain
<1>6. CASE HourPasses \/ StandingChanges
  BY <1>1, <1>6, GateAssumption
     DEF HourPasses, StandingChanges, policy, GateInv, GateTypeOK, PassedIsPlain
<1>7. CASE ManualAttendance \/ DeleteAttendance
  BY <1>1, <1>7 DEF ManualAttendance, DeleteAttendance, policy, GateInv, GateTypeOK, PassedIsPlain
<1>8. CASE SaveAttendance
  <2>1. PICK p \in Passage : p = passed
    BY <1>1, <1>8 DEF SaveAttendance
  <2>2. PICK saved \in {"Hadir", "Terlambat", "Pulang"} :
        dayRows' = dayRows \cup {[status |-> saved, action |-> p.action]}
    BY <1>8, <2>1 DEF SaveAttendance, SavedStatus, Label
  <2>3. dayRows' \subseteq DayRow
    BY <1>1, <2>1, <2>2 DEF DayRow, Passage
  <2>. QED
    BY <1>1, <1>8, <2>3 DEF SaveAttendance, policy, GateInv, GateTypeOK, PassedIsPlain
<1>9. CASE SubmissionFails
  BY <1>1, <1>9 DEF SubmissionFails, policy, GateInv, GateTypeOK, PassedIsPlain
<1>. QED
  BY <1>2, <1>3, <1>4, <1>5, <1>6, <1>7, <1>8, <1>9, SubmitPasses DEF GateNext

\* The tables are empty and nothing has passed.
LEMMA GateStart == GateInit => GateInv
BY GateAssumption DEF GateInit, GateInv, GateTypeOK, PassedIsPlain, Standings

\* The gate keeps its invariant.
LEMMA GateInductive == GateSpec => []GateInv
BY GateStart, GateStep, PTL DEF GateSpec

\* The dashboard's button and the gate of the submission agree in every state of
\* the tables, the rows and the surroundings, and Adiwiyata awaits no reports on
\* a day both refuse (computePrimaryAction, runGateChecks, schoolDayForClass).
THEOREM ButtonAndGateAgree == GateSpec => []ButtonMatchesGate
<1>1. GateInv => ButtonMatchesGate
  BY DecisionsAgree DEF GateInv
<1>. QED
  BY <1>1, GateInductive, PTL

\* Who submits under one schedule, unchanged when the row is saved, was told
\* what is saved (validateAttendanceAction, saveAttendanceRecord).
THEOREM SavedAsTold == GateSpec => []ToldWhatIsSaved
<1>1. ASSUME GateInv
      PROVE  ToldWhatIsSaved
  <2>1. SUFFICES ASSUME passed # None, NEW g \in GeneralSchedules, passed.one,
                        passed.hour = hour, schedule[g].times = passed.times
                 PROVE  Label(passed.action, passed.late) = SavedStatus(passed.action, g)
    BY DEF ToldWhatIsSaved
  <2>2. passed.late <=> passed.action = "check_in" /\ hour > schedule[g].times.end
    BY <1>1, <2>1 DEF GateInv, PassedIsPlain
  <2>3. passed.action \in {"check_in", "check_out"}
    BY <1>1, <2>1 DEF GateInv, GateTypeOK
  <2>. QED
    BY <2>2, <2>3 DEF Label, SavedStatus
<1>. QED
  BY <1>1, GateInductive, PTL

-----------------------------------------------------------------------------
(***************************************************************************)
(* All of them.  No part reads or writes another's state, so that what     *)
(* holds of each by itself holds of it beside the others.                  *)
(***************************************************************************)

\* Beside the others every part behaves as it does alone.
LEMMA PartsBehave ==
  AccessSpec => AccountsSpec /\ StaffSpec /\ EmailSpec /\ GateSpec
<1>1. AccessInit => AccountsInit /\ StaffInit /\ EmailInit /\ GateInit
  BY DEF AccessInit
<1>2. [AccessNext]_<<part, vars, staffVars, emailVars, gateVars>> =>
        /\ [Next]_vars /\ [StaffNext]_staffVars
        /\ [EmailNext]_emailVars /\ [GateNext]_gateVars
  BY DEF AccessNext
<1>. QED
  BY <1>1, <1>2, PTL DEF AccessSpec, AccountsSpec, StaffSpec, EmailSpec, GateSpec

\* The state of every part is always of its type.
THEOREM AccessTyped == AccessSpec => []AccessTypeOK
<1>1. AccountTypeOK /\ StaffTypeOK /\ EmailTypeOK /\ GateTypeOK => AccessTypeOK
  BY DEF AccessTypeOK
<1>2. EmailInv => EmailTypeOK
  BY DEF EmailInv
<1>3. GateInv => GateTypeOK
  BY DEF GateInv
<1>. QED
  BY <1>1, <1>2, <1>3, PartsBehave, AccountsTyped, StaffTyped, EmailInductive, GateInductive, PTL

\* What the provider and the database both hold of a person agrees once a change
\* that met no other is written: the roles of staff and the address of a student,
\* however the administrators' requests interleave and whichever of them fails
\* (updateStaff, correctStudentEmail).
THEOREM StoresStayOne == AccessSpec => []StoresAgree
<1>1. SettledRolesAgree /\ EmailsAgree => StoresAgree
  BY DEF StoresAgree
<1>. QED
  BY <1>1, PartsBehave, SettledRolesMatch, EmailsStayOne, PTL

\* Nobody is let in on what was taken away: no token from before an audited end of
\* an access, as long as no two administrators' calls about one student meet, and
\* no token of a staff member with roles other than those of the last change that
\* met no other.
THEOREM AccessEnds ==
  AccessSpec /\ []DecisionsApart => [](StaleTokensStayOut /\ SettledRolesAreInForce)
BY PartsBehave, StaleTokensAreOut, SettledRolesRule, PTL
=============================================================================
