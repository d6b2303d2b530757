----------------------- MODULE StudentAccounts_proofs -----------------------
(***************************************************************************)
(* Proofs about student accounts, for any number of students, addresses,   *)
(* codes and concurrent calls of the public handlers, and, where a theorem *)
(* does not say otherwise, of administrators.                              *)
(*                                                                         *)
(* Two invariants carry them.  A user id belongs to one student for good,  *)
(* whatever becomes of its user and its profile; AccountsInv says so with  *)
(* an owner for every id, and says what each call rests on at the step it  *)
(* is at.  DeskInv adds what a decision has already done at each of its    *)
(* steps, which nothing undoes while no other call decides on the student. *)
(***************************************************************************)
EXTENDS StudentAccounts, SequenceTheorems, TLAPS

-----------------------------------------------------------------------------
(***************************************************************************)
(* What is left of the steps of each handler's call.                       *)
(***************************************************************************)

BindRest == <<"bind", "student_signup">>
SignupRest ==
  {RegisterSteps,
   <<"assignRole", "createProfile", "bind", "student_signup">>,
   <<"createProfile", "bind", "student_signup">>, BindRest, <<"student_signup">>}

ResetRest ==
  {ResetSteps, <<"burn", "cutoff", "student_password_reset">>,
   <<"cutoff", "student_password_reset">>, <<"student_password_reset">>}

ActivateRest == <<"activate", "approved", "approve_student", "tellApproved">>
PublishRest == <<"approved", "approve_student", "tellApproved">>
ApproveRest ==
  {ApproveSteps, ActivateRest, PublishRest, <<"approve_student", "tellApproved">>, <<"tellApproved">>}

DisabledRest == {<<"cutoff", "disable_student">>, <<"disable_student">>}
DisableRest == {DisableSteps, <<"suspend", "cutoff", "disable_student">>} \cup DisabledRest

\* A rejection, until it has unbound a student and after.
UnbindRest ==
  {<<"rejected", "clearNis", "unbind", "suspend", "deleteUser", "cutoff", "reject_student",
     "tellRejected">>,
   <<"clearNis", "unbind", "suspend", "deleteUser", "cutoff", "reject_student", "tellRejected">>,
   <<"unbind", "suspend", "deleteUser", "cutoff", "reject_student", "tellRejected">>}
DeletedRest ==
  {<<"cutoff", "reject_student", "tellRejected">>, <<"reject_student", "tellRejected">>,
   <<"tellRejected">>}
RejectRest ==
  UnbindRest \cup DeletedRest \cup
  {<<"rejected", "clearNis", "suspend", "deleteUser", "cutoff", "reject_student", "tellRejected">>,
   <<"clearNis", "suspend", "deleteUser", "cutoff", "reject_student", "tellRejected">>,
   <<"suspend", "deleteUser", "cutoff", "reject_student", "tellRejected">>,
   <<"deleteUser", "cutoff", "reject_student", "tellRejected">>}

CodeRest == {CodeSteps, <<"generate_reset_code", "tellCode">>, <<"tellCode">>}

DecisionRest == ApproveRest \cup DisableRest \cup RejectRest \cup CodeRest

-----------------------------------------------------------------------------
(***************************************************************************)
(* The invariant.  A user id is one student's for good, whatever becomes   *)
(* of its user and its profile: that student is its owner.                 *)
(***************************************************************************)

CallRecord == [todo : Seq(Step), user : User \cup {None}, nis : Nis \cup {None},
               email : Email \cup {None}, code : Code \cup {None}]

Known(u) == identity[u] # None \/ profile[u] # None

SignupHolds(c, owner) ==
  /\ c.todo \in SignupRest /\ c.nis # None /\ c.email # None
  /\ c.todo # RegisterSteps => c.user # None /\ owner[c.user] = c.nis /\ Known(c.user)
  /\ c.todo \in {BindRest, <<"student_signup">>} => profile[c.user] # None

ResetHolds(c) ==
  /\ c.todo \in ResetRest /\ c.user # None /\ c.code # None
  /\ profile[c.user] # None /\ code[c.code] # None
  /\ c.todo # ResetSteps => code[c.code].resets > 0

DecisionHolds(c) ==
  /\ c.todo \in DecisionRest /\ c.user # None /\ profile[c.user] # None
  /\ c.todo \in UnbindRest => c.nis # None

CallHolds(h, owner) ==
  call[h] # NoCall =>
    /\ h \in Client => SignupHolds(call[h], owner) \/ ResetHolds(call[h])
    /\ h \in Desk => DecisionHolds(call[h])

OwnerHolds(owner) ==
  \A u \in User :
    /\ identity[u] # None => identity[u].nis = owner[u]
    /\ profile[u] # None => profile[u].nis \in {owner[u], None}
    /\ \A n \in Nis : binding[n] = u => profile[u] # None /\ owner[u] = n

AccountsHold(owner) ==
  /\ AccountTypeOK /\ call \in [Handler -> CallRecord]
  /\ CodesBurnOnlyAfterUse
  /\ OwnerHolds(owner) /\ \A h \in Handler : CallHolds(h, owner)

AccountsInv == \E owner \in [User -> Nis \cup {None}] : AccountsHold(owner)

-----------------------------------------------------------------------------
(***************************************************************************)
(* What the calls of administrators have established.                      *)
(***************************************************************************)

\* The provider opens sessions for the user.
SignsIn(u) == identity[u] # None /\ ~identity[u].suspended

\* Every token of the user is revoked.
AllRevoked(u) == \A t \in Second : <<u, t>> \in token => Revoked(u, t)

DeskHolds(d) ==
  LET c == call[d]
      u == c.user
  IN  /\ c.todo \in {ActivateRest, PublishRest} => identity[u] # None /\ identity[u].student
      /\ c.todo = PublishRest => SignsIn(u)
      /\ c.todo \in (DisableRest \ {DisableSteps}) \cup RejectRest /\ Head(c.todo) # "rejected" =>
           ~Lives(u, "approved")
      /\ c.todo \in DisabledRest \cup DeletedRest => ~SignsIn(u)
      /\ c.todo \in {<<"disable_student">>, <<"reject_student", "tellRejected">>} => AllRevoked(u)

\* No token is of the future, and an access that ended ended for those issued
\* before.
TokensHold ==
  /\ \A u \in User, t \in Second : <<u, t>> \in token => t <= now
  /\ \A a \in {"disable_student", "reject_student"}, u \in User, s \in Second :
       <<a, u, s>> \in log =>
         s <= now /\ \A t \in Second : t < s /\ <<u, t>> \in token => Revoked(u, t)

DeskInv ==
  /\ AccountsInv /\ ApprovedIdentityServes /\ TokensHold
  /\ \A d \in Desk : DeskHolds(d)

-----------------------------------------------------------------------------
(***************************************************************************)
(* Lists of steps.                                                         *)
(***************************************************************************)

\* What is left of a signup, by its first step.
LEMMA SignupGoes ==
  ASSUME NEW t \in SignupRest
  PROVE  /\ t # <<>> /\ t \in Seq(Step) /\ Head(t) \in Step
         /\ Head(t) \in {"createIdentity", "assignRole", "createProfile", "bind", "student_signup"}
         /\ Len(t) # 1 => /\ Tail(t) \in SignupRest \ {RegisterSteps}
                          /\ Tail(t) # <<>> /\ Tail(t) \in Seq(Step)
         /\ Head(t) = "createIdentity" <=> t = RegisterSteps
         /\ Head(t) = "createProfile" => t \notin {BindRest, <<"student_signup">>}
         /\ Head(t) = "bind" => t = BindRest
         /\ Len(t) # 1 /\ Tail(t) \in {BindRest, <<"student_signup">>} =>
              t = BindRest \/ Head(t) = "createProfile"
<1>1. CASE t = RegisterSteps
  BY <1>1 DEF SignupRest, RegisterSteps, BindRest, Step, Happening
<1>2. CASE t = <<"assignRole", "createProfile", "bind", "student_signup">>
  BY <1>2 DEF SignupRest, RegisterSteps, BindRest, Step, Happening
<1>3. CASE t = <<"createProfile", "bind", "student_signup">>
  BY <1>3 DEF SignupRest, RegisterSteps, BindRest, Step, Happening
<1>4. CASE t = BindRest
  BY <1>4 DEF SignupRest, RegisterSteps, BindRest, Step, Happening
<1>5. CASE t = <<"student_signup">>
  BY <1>5 DEF SignupRest, RegisterSteps, BindRest, Step, Happening
<1>. QED
  BY <1>1, <1>2, <1>3, <1>4, <1>5 DEF SignupRest

\* What is left of a password reset.
LEMMA ResetGoes ==
  ASSUME NEW t \in ResetRest
  PROVE  /\ t # <<>> /\ t \in Seq(Step) /\ Head(t) \in Step
         /\ Head(t) \in {"password", "burn", "cutoff", "student_password_reset"}
         /\ Len(t) # 1 => /\ Tail(t) \in ResetRest \ {ResetSteps}
                          /\ Tail(t) # <<>> /\ Tail(t) \in Seq(Step)
         /\ Head(t) = "password" <=> t = ResetSteps
<1>1. CASE t = ResetSteps
  BY <1>1 DEF ResetRest, ResetSteps, Step, Happening
<1>2. CASE t = <<"burn", "cutoff", "student_password_reset">>
  BY <1>2 DEF ResetRest, ResetSteps, Step, Happening
<1>3. CASE t = <<"cutoff", "student_password_reset">>
  BY <1>3 DEF ResetRest, ResetSteps, Step, Happening
<1>4. CASE t = <<"student_password_reset">>
  BY <1>4 DEF ResetRest, ResetSteps, Step, Happening
<1>. QED
  BY <1>1, <1>2, <1>3, <1>4 DEF ResetRest

\* What is left of an approval.
LEMMA ApproveGoes ==
  ASSUME NEW t \in ApproveRest
  PROVE  /\ t # <<>> /\ t \in Seq(Step) /\ Head(t) \in Step
         /\ Head(t) \in {"assignRole", "activate", "approved", "approve_student", "tellApproved"}
         /\ Len(t) # 1 => /\ Tail(t) \in ApproveRest /\ Tail(t) # <<>> /\ Tail(t) \in Seq(Step)
         /\ Len(t) # 1 /\ Tail(t) = ActivateRest => t = ApproveSteps
         /\ Len(t) # 1 /\ Tail(t) = PublishRest => t = ActivateRest
         /\ Head(t) = "assignRole" => t = ApproveSteps
         /\ Head(t) = "activate" => t = ActivateRest
         /\ Head(t) = "approved" => t = PublishRest
<1>1. CASE t = ApproveSteps
  BY <1>1 DEF ApproveRest, ApproveSteps, ActivateRest, PublishRest, Step, Happening
<1>2. CASE t = ActivateRest
  BY <1>2 DEF ApproveRest, ApproveSteps, ActivateRest, PublishRest, Step, Happening
<1>3. CASE t = PublishRest
  BY <1>3 DEF ApproveRest, ApproveSteps, ActivateRest, PublishRest, Step, Happening
<1>4. CASE t = <<"approve_student", "tellApproved">>
  BY <1>4 DEF ApproveRest, ApproveSteps, ActivateRest, PublishRest, Step, Happening
<1>5. CASE t = <<"tellApproved">>
  BY <1>5 DEF ApproveRest, ApproveSteps, ActivateRest, PublishRest, Step, Happening
<1>. QED
  BY <1>1, <1>2, <1>3, <1>4, <1>5 DEF ApproveRest

\* What is left of a disabling.
LEMMA DisableGoes ==
  ASSUME NEW t \in DisableRest
  PROVE  /\ t # <<>> /\ t \in Seq(Step) /\ Head(t) \in Step
         /\ Head(t) \in {"disabled", "suspend", "cutoff", "disable_student"}
         /\ Len(t) # 1 => /\ Tail(t) \in DisableRest \ {DisableSteps}
                          /\ Tail(t) # <<>> /\ Tail(t) \in Seq(Step)
         /\ t \in DisabledRest <=> Head(t) \in {"cutoff", "disable_student"}
         /\ Len(t) # 1 /\ Tail(t) \in DisabledRest => Head(t) \in {"suspend", "cutoff"}
         /\ Head(t) = "disabled" <=> t = DisableSteps
         /\ Head(t) = "disable_student" <=> t = <<"disable_student">>
         /\ Len(t) # 1 /\ Tail(t) = <<"disable_student">> => Head(t) = "cutoff"
<1>1. CASE t = DisableSteps
  BY <1>1 DEF DisableRest, DisableSteps, DisabledRest, Step, Happening
<1>2. CASE t = <<"suspend", "cutoff", "disable_student">>
  BY <1>2 DEF DisableRest, DisableSteps, DisabledRest, Step, Happening
<1>3. CASE t = <<"cutoff", "disable_student">>
  BY <1>3 DEF DisableRest, DisableSteps, DisabledRest, Step, Happening
<1>4. CASE t = <<"disable_student">>
  BY <1>4 DEF DisableRest, DisableSteps, DisabledRest, Step, Happening
<1>. QED
  BY <1>1, <1>2, <1>3, <1>4 DEF DisableRest, DisabledRest

\* What is left of the making of a reset code.
LEMMA CodeGoes ==
  ASSUME NEW t \in CodeRest
  PROVE  /\ t # <<>> /\ t \in Seq(Step) /\ Head(t) \in Step
         /\ Head(t) \in {"createCode", "generate_reset_code", "tellCode"}
         /\ Len(t) # 1 => /\ Tail(t) \in CodeRest /\ Tail(t) # <<>> /\ Tail(t) \in Seq(Step)
<1>1. CASE t = CodeSteps
  BY <1>1 DEF CodeRest, CodeSteps, Step, Happening
<1>2. CASE t = <<"generate_reset_code", "tellCode">>
  BY <1>2 DEF CodeRest, CodeSteps, Step, Happening
<1>3. CASE t = <<"tellCode">>
  BY <1>3 DEF CodeRest, CodeSteps, Step, Happening
<1>. QED
  BY <1>1, <1>2, <1>3 DEF CodeRest

\* What is left of a rejection.
LEMMA RejectGoes ==
  ASSUME NEW t \in RejectRest
  PROVE  /\ t # <<>> /\ t \in Seq(Step) /\ Head(t) \in Step
         /\ Head(t) \in {"rejected", "clearNis", "unbind", "suspend", "deleteUser", "cutoff",
                         "reject_student", "tellRejected"}
         /\ Len(t) # 1 => /\ Tail(t) \in RejectRest /\ Tail(t) # <<>> /\ Tail(t) \in Seq(Step)
         /\ Len(t) # 1 /\ Tail(t) \in UnbindRest => t \in UnbindRest
         /\ Head(t) = "unbind" => t \in UnbindRest
         /\ t \in DeletedRest <=> Head(t) \in {"cutoff", "reject_student", "tellRejected"}
         /\ Len(t) # 1 /\ Tail(t) \in DeletedRest => Head(t) = "deleteUser" \/ t \in DeletedRest
         /\ Len(t) # 1 => Head(Tail(t)) # "rejected"
         /\ Head(t) = "reject_student" <=> t = <<"reject_student", "tellRejected">>
         /\ Len(t) # 1 /\ Tail(t) = <<"reject_student", "tellRejected">> => Head(t) = "cutoff"
<1> DEFINE L8 == <<"rejected", "clearNis", "unbind", "suspend", "deleteUser", "cutoff",
                   "reject_student", "tellRejected">>
<1> DEFINE L7 == <<"clearNis", "unbind", "suspend", "deleteUser", "cutoff",
                   "reject_student", "tellRejected">>
<1> DEFINE L6 == <<"unbind", "suspend", "deleteUser", "cutoff", "reject_student", "tellRejected">>
<1> DEFINE M7 == <<"rejected", "clearNis", "suspend", "deleteUser", "cutoff",
                   "reject_student", "tellRejected">>
<1> DEFINE M6 == <<"clearNis", "suspend", "deleteUser", "cutoff", "reject_student", "tellRejected">>
<1> DEFINE M5 == <<"suspend", "deleteUser", "cutoff", "reject_student", "tellRejected">>
<1> DEFINE M4 == <<"deleteUser", "cutoff", "reject_student", "tellRejected">>
<1>1. CASE t = L8
  BY <1>1 DEF RejectRest, UnbindRest, DeletedRest, Step, Happening
<1>2. CASE t = L7
  BY <1>2 DEF RejectRest, UnbindRest, DeletedRest, Step, Happening
<1>3. CASE t = L6
  BY <1>3 DEF RejectRest, UnbindRest, DeletedRest, Step, Happening
<1>4. CASE t = M7
  BY <1>4 DEF RejectRest, UnbindRest, DeletedRest, Step, Happening
<1>5. CASE t = M6
  BY <1>5 DEF RejectRest, UnbindRest, DeletedRest, Step, Happening
<1>6. CASE t = M5
  BY <1>6 DEF RejectRest, UnbindRest, DeletedRest, Step, Happening
<1>7. CASE t = M4
  BY <1>7 DEF RejectRest, UnbindRest, DeletedRest, Step, Happening
<1>8. CASE t \in DeletedRest
  <2>1. CASE t = <<"cutoff", "reject_student", "tellRejected">>
    BY <2>1 DEF RejectRest, UnbindRest, DeletedRest, Step, Happening
  <2>2. CASE t = <<"reject_student", "tellRejected">>
    BY <2>2 DEF RejectRest, UnbindRest, DeletedRest, Step, Happening
  <2>3. CASE t = <<"tellRejected">>
    BY <2>3 DEF RejectRest, UnbindRest, DeletedRest, Step, Happening
  <2>. QED
    BY <1>8, <2>1, <2>2, <2>3 DEF DeletedRest
<1>. QED
  BY <1>1, <1>2, <1>3, <1>4, <1>5, <1>6, <1>7, <1>8 DEF RejectRest, UnbindRest

\* The steps a rejection begins with.
LEMMA RejectBegins ==
  ASSUME NEW nis
  PROVE  /\ RejectSteps(nis) \in RejectRest
         /\ RejectSteps(nis) \in UnbindRest => nis # None
         /\ Head(RejectSteps(nis)) = "rejected"
<1> DEFINE s == RejectSteps(nis)
<1>1. CASE nis = None
  <2> DEFINE t == <<"rejected", "clearNis", "suspend", "deleteUser", "cutoff", "reject_student",
                    "tellRejected">>
  <2>1. s \in Seq(Step) /\ Len(s) = 7 /\ t \in Seq(Step) /\ Len(t) = 7
    BY <1>1 DEF RejectSteps, Step, Happening
  <2>2. /\ s[1] = "rejected" /\ s[2] = "clearNis" /\ s[3] = "suspend" /\ s[4] = "deleteUser"
        /\ s[5] = "cutoff" /\ s[6] = "reject_student" /\ s[7] = "tellRejected"
    BY <1>1 DEF RejectSteps
  <2>3. /\ t[1] = "rejected" /\ t[2] = "clearNis" /\ t[3] = "suspend" /\ t[4] = "deleteUser"
        /\ t[5] = "cutoff" /\ t[6] = "reject_student" /\ t[7] = "tellRejected"
        /\ t \in RejectRest \ UnbindRest
    BY DEF RejectRest, UnbindRest
  <2> HIDE DEF s, t
  <2>4. \A i \in 1 .. 7 : s[i] = t[i]
    <3>1. \A i \in 1 .. 7 : i = 1 \/ i = 2 \/ i = 3 \/ i = 4 \/ i = 5 \/ i = 6 \/ i = 7
      OBVIOUS
    <3>. QED
      BY <2>2, <2>3, <3>1
  <2>5. s = t
    BY <2>1, <2>4, SeqEqual
  <2>. QED
    BY <2>1, <2>2, <2>3, <2>5 DEF s
<1>2. CASE nis # None
  <2> DEFINE t == <<"rejected", "clearNis", "unbind", "suspend", "deleteUser", "cutoff",
                    "reject_student", "tellRejected">>
  <2>1. s \in Seq(Step) /\ Len(s) = 8 /\ t \in Seq(Step) /\ Len(t) = 8
    BY <1>2 DEF RejectSteps, Step, Happening
  <2>2. /\ s[1] = "rejected" /\ s[2] = "clearNis" /\ s[3] = "unbind" /\ s[4] = "suspend"
        /\ s[5] = "deleteUser" /\ s[6] = "cutoff" /\ s[7] = "reject_student" /\ s[8] = "tellRejected"
    BY <1>2 DEF RejectSteps
  <2>3. /\ t[1] = "rejected" /\ t[2] = "clearNis" /\ t[3] = "unbind" /\ t[4] = "suspend"
        /\ t[5] = "deleteUser" /\ t[6] = "cutoff" /\ t[7] = "reject_student" /\ t[8] = "tellRejected"
        /\ t \in RejectRest
    BY DEF RejectRest, UnbindRest
  <2> HIDE DEF s, t
  <2>4. \A i \in 1 .. 8 : s[i] = t[i]
    <3>1. \A i \in 1 .. 8 : \/ i = 1 \/ i = 2 \/ i = 3 \/ i = 4
                            \/ i = 5 \/ i = 6 \/ i = 7 \/ i = 8
      OBVIOUS
    <3>. QED
      BY <2>2, <2>3, <3>1
  <2>5. s = t
    BY <2>1, <2>4, SeqEqual
  <2>. QED
    BY <1>2, <2>1, <2>2, <2>3, <2>5 DEF s
<1>. QED
  BY <1>1, <1>2

\* A list that has an unbinding ahead comes of a rejection that has.
LEMMA UnbindingIsRejecting ==
  ASSUME NEW t \in DecisionRest, Len(t) # 1, Tail(t) \in UnbindRest
  PROVE  t \in UnbindRest
<1>1. \A s \in UnbindRest : Head(s) \in {"rejected", "clearNis", "unbind"}
  BY DEF UnbindRest
<1>2. ASSUME t \in ApproveRest \cup DisableRest \cup CodeRest
      PROVE  FALSE
  <2>1. Tail(t) \in ApproveRest \cup DisableRest \cup CodeRest
    BY <1>2, ApproveGoes, DisableGoes, CodeGoes
  <2>2. Head(Tail(t)) \notin {"rejected", "clearNis", "unbind"}
    BY <2>1, ApproveGoes, DisableGoes, CodeGoes
  <2>. QED
    BY <1>1, <2>2
<1>. QED
  BY <1>2, RejectGoes DEF DecisionRest

-----------------------------------------------------------------------------
(***************************************************************************)
(* Calls.                                                                  *)
(***************************************************************************)

\* No call is no list of steps, and a call is a record of those.
LEMMA NoCallIsOne ==
  NoCall \in CallRecord /\ NoCall.todo = <<>>
BY DEF NoCall, CallRecord

\* A call under way has steps left, those of a handler of its kind.
LEMMA CallsHaveSteps ==
  ASSUME NEW owner, AccountsHold(owner), NEW h \in Handler, call[h] # NoCall
  PROVE  LET c == call[h] IN
         /\ c \in CallRecord /\ c.todo # <<>> /\ c.todo \in Seq(Step)
         /\ c.user \in User \cup {None} /\ c.nis \in Nis \cup {None}
         /\ c.email \in Email \cup {None} /\ c.code \in Code \cup {None}
         /\ \/ h \in Client /\ h \notin Desk /\ SignupHolds(c, owner)
            \/ h \in Client /\ h \notin Desk /\ ResetHolds(c)
            \/ h \in Desk /\ h \notin Client /\ DecisionHolds(c)
<1>1. call[h] \in CallRecord /\ call[h].todo # <<>>
  BY DEF AccountsHold, AccountTypeOK, CallRecord
<1>2. CallHolds(h, owner)
  BY DEF AccountsHold
<1>. QED
  BY <1>1, <1>2, AccountsAssumption DEF CallHolds, CallRecord, Handler

\* A call that goes on keeps what it knows and has its next step first.
LEMMA GoesOnSets ==
  ASSUME call \in [Handler -> CallRecord], NEW h \in Handler, NEW c \in CallRecord,
         c.todo # <<>>, GoesOnAs(h, c)
  PROVE  /\ call' \in [Handler -> CallRecord]
         /\ \A g \in Handler \ {h} : call'[g] = call[g]
         /\ LET x == call'[h] IN
            \/ x = NoCall
            \/ /\ Len(c.todo) # 1 /\ x.todo = Tail(c.todo) /\ x.todo # <<>>
               /\ x.user = c.user /\ x.nis = c.nis /\ x.email = c.email /\ x.code = c.code
<1>1. CASE Len(c.todo) = 1
  BY <1>1, NoCallIsOne DEF GoesOnAs
<1>2. CASE Len(c.todo) # 1
  <2>1. call' = [call EXCEPT ![h] = [c EXCEPT !.todo = Tail(c.todo)]]
    BY <1>2 DEF GoesOnAs
  <2>2. Tail(c.todo) \in Seq(Step) /\ Tail(c.todo) # <<>>
    <3>1. c.todo \in Seq(Step) /\ c.todo # <<>>
      BY DEF CallRecord
    <3>2. Tail(c.todo) \in Seq(Step) /\ Len(Tail(c.todo)) = Len(c.todo) - 1
      BY <3>1, HeadTailProperties
    <3>3. Len(c.todo) \in Nat /\ Len(c.todo) # 0
      BY <3>1, EmptySeq
    <3>4. Len(Tail(c.todo)) # 0
      BY <1>2, <3>2, <3>3
    <3>. QED
      BY <3>2, <3>4, EmptySeq
  <2> DEFINE x == [c EXCEPT !.todo = Tail(c.todo)]
  <2>3. /\ x \in CallRecord /\ x.todo = Tail(c.todo)
        /\ x.user = c.user /\ x.nis = c.nis /\ x.email = c.email /\ x.code = c.code
    BY <2>2 DEF CallRecord
  <2>4. call'[h] = x
    BY <2>1
  <2> HIDE DEF x
  <2>. QED
    BY <1>2, <2>1, <2>2, <2>3, <2>4
<1>. QED
  BY <1>1, <1>2

\* What a step does to the stores of a handler's call it does to those of every
\* other's: profiles, codes and known users stay, and uses are counted up.
Grows(owner, owner2) ==
  /\ \A u \in User : profile[u] # None => profile'[u] # None
  /\ \A u \in User : Known(u) => Known(u)' /\ owner2[u] = owner[u]
  /\ \A c \in Code : code[c] # None => code'[c] # None
  /\ \A c \in Code : code[c] # None /\ code[c].resets > 0 => code'[c].resets > 0

\* A call that takes no step holds as it did, whatever grows.
LEMMA CallKept ==
  ASSUME NEW owner, NEW owner2, AccountsHold(owner), NEW g \in Handler, call'[g] = call[g],
         Grows(owner, owner2)
  PROVE  CallHolds(g, owner2)'
<1>1. PICK c \in CallRecord : c = call[g] /\ c = call'[g]
  BY DEF AccountsHold
<1>2. c.user \in User \cup {None} /\ c.code \in Code \cup {None}
  BY DEF CallRecord
<1>3. c # NoCall => /\ g \in Client => SignupHolds(c, owner) \/ ResetHolds(c)
                    /\ g \in Desk => DecisionHolds(c)
  BY <1>1 DEF AccountsHold, CallHolds
<1>4. SignupHolds(c, owner) => SignupHolds(c, owner2)'
  <2>1. BindRest # RegisterSteps /\ <<"student_signup">> # RegisterSteps
    BY DEF BindRest, RegisterSteps
  <2>. QED
    BY <1>2, <2>1 DEF SignupHolds, Grows
<1>5. ResetHolds(c) => ResetHolds(c)'
  BY <1>2 DEF ResetHolds, Grows
<1>6. DecisionHolds(c) => DecisionHolds(c)'
  BY <1>2 DEF DecisionHolds, Grows
<1>. QED
  BY <1>1, <1>3, <1>4, <1>5, <1>6 DEF CallHolds

\* A step of the call of h keeps the invariant if it keeps it of the stores and
\* of that call.
LEMMA CallStep ==
  ASSUME NEW owner, NEW owner2, AccountsHold(owner), NEW h \in Handler,
         call' \in [Handler -> CallRecord], \A g \in Handler \ {h} : call'[g] = call[g],
         call'[h].todo = <<>> => call'[h] = NoCall,
         profile' \in [User -> ProfileRow \cup {None}],
         binding' \in [Nis -> User \cup {None}],
         identity' \in [User -> IdentityRow \cup {None}],
         cutoff' \in [User -> SUBSET Second], token' \subseteq User \X Second,
         code' \in [Code -> CodeRow \cup {None}], log' \subseteq Kept \X User \X Second,
         now' \in Second, failures' \in 0 .. MaxFailures,
         CodesBurnOnlyAfterUse', OwnerHolds(owner2)', Grows(owner, owner2), CallHolds(h, owner2)'
  PROVE  AccountsHold(owner2)'
<1>1. \A g \in Handler : call'[g].todo = <<>> => call'[g] = NoCall
  BY DEF AccountsHold, AccountTypeOK
<1>2. AccountTypeOK'
  BY <1>1 DEF AccountTypeOK, CallRecord
<1>3. \A g \in Handler \ {h} : CallHolds(g, owner2)'
  BY CallKept
<1>. QED
  BY <1>2, <1>3 DEF AccountsHold

\* So does a step of the surroundings, which is no call's.
LEMMA OtherStep ==
  ASSUME NEW owner, AccountsHold(owner), UNCHANGED <<profile, binding, identity, log, call>>,
         cutoff' = cutoff, token' \subseteq User \X Second,
         code' \in [Code -> CodeRow \cup {None}], now' \in Second, failures' \in 0 .. MaxFailures,
         CodesBurnOnlyAfterUse', Grows(owner, owner)
  PROVE  AccountsHold(owner)'
<1>1. AccountTypeOK' /\ call' \in [Handler -> CallRecord]
  BY DEF AccountsHold, AccountTypeOK
<1>2. \A g \in Handler : CallHolds(g, owner)'
  BY CallKept
<1>3. OwnerHolds(owner)'
  BY DEF AccountsHold, OwnerHolds
<1>. QED
  BY <1>1, <1>2, <1>3 DEF AccountsHold

\* A call that goes on holds at its next step, if what that step rests on was
\* written by this one.
LEMMA CallGoesOn ==
  ASSUME NEW owner, AccountsHold(owner), NEW h \in Handler, call[h] # NoCall, GoesOn(h),
         Grows(owner, owner), Head(call[h].todo) # "createIdentity",
         Head(call[h].todo) = "createProfile" => profile'[call[h].user] # None,
         Head(call[h].todo) = "password" => code'[call[h].code].resets > 0
  PROVE  /\ call' \in [Handler -> CallRecord]
         /\ \A g \in Handler \ {h} : call'[g] = call[g]
         /\ call'[h].todo = <<>> => call'[h] = NoCall
         /\ CallHolds(h, owner)'
<1>1. PICK c \in CallRecord : c = call[h]
  BY CallsHaveSteps
<1>2. /\ c # NoCall /\ c.todo # <<>> /\ c.user \in User \cup {None} /\ c.code \in Code \cup {None}
      /\ \/ h \in Client /\ h \notin Desk /\ SignupHolds(c, owner)
         \/ h \in Client /\ h \notin Desk /\ ResetHolds(c)
         \/ h \in Desk /\ h \notin Client /\ DecisionHolds(c)
  BY <1>1, CallsHaveSteps
<1>3. /\ call' \in [Handler -> CallRecord]
      /\ \A g \in Handler \ {h} : call'[g] = call[g]
      /\ \/ call'[h] = NoCall
         \/ /\ Len(c.todo) # 1 /\ call'[h].todo = Tail(c.todo) /\ call'[h].todo # <<>>
            /\ call'[h].user = c.user /\ call'[h].nis = c.nis /\ call'[h].email = c.email
            /\ call'[h].code = c.code
  <2>1. call \in [Handler -> CallRecord] /\ GoesOnAs(h, c)
    BY <1>1 DEF AccountsHold, GoesOn
  <2>. QED
    BY <1>2, <2>1, GoesOnSets
<1>4. CASE call'[h] = NoCall
  BY <1>3, <1>4, NoCallIsOne DEF CallHolds
<1>5. CASE call'[h] # NoCall
  <2>1. PICK x \in CallRecord : x = call'[h]
    BY <1>3
  <2>2. /\ Len(c.todo) # 1 /\ x.todo = Tail(c.todo)
        /\ x.user = c.user /\ x.nis = c.nis /\ x.email = c.email /\ x.code = c.code
    BY <1>3, <1>5, <2>1
  <2>3. ASSUME SignupHolds(c, owner)
        PROVE  SignupHolds(x, owner)'
    <3>1. /\ c.todo \in SignupRest /\ c.todo # RegisterSteps
          /\ Tail(c.todo) \in SignupRest \ {RegisterSteps}
          /\ Tail(c.todo) \in {BindRest, <<"student_signup">>} =>
               c.todo = BindRest \/ Head(c.todo) = "createProfile"
      BY <1>1, <2>2, <2>3, SignupGoes DEF SignupHolds
    <3>. QED
      BY <1>1, <1>2, <2>2, <2>3, <3>1 DEF SignupHolds, Grows
  <2>4. ASSUME ResetHolds(c)
        PROVE  ResetHolds(x)'
    <3>1. /\ c.todo \in ResetRest /\ Tail(c.todo) \in ResetRest
          /\ c.todo = ResetSteps => Head(c.todo) = "password"
      BY <2>2, <2>4, ResetGoes DEF ResetHolds
    <3>. QED
      BY <1>1, <1>2, <2>2, <2>4, <3>1 DEF ResetHolds, Grows
  <2>5. ASSUME DecisionHolds(c)
        PROVE  DecisionHolds(x)'
    <3>1. c.todo \in DecisionRest
      BY <2>5 DEF DecisionHolds
    <3>2. Tail(c.todo) \in DecisionRest
      BY <2>2, <3>1, ApproveGoes, DisableGoes, RejectGoes, CodeGoes DEF DecisionRest
    <3>3. Tail(c.todo) \in UnbindRest => c.todo \in UnbindRest
      BY <2>2, <3>1, UnbindingIsRejecting
    <3>. QED
      BY <1>1, <1>2, <2>2, <2>5, <3>2, <3>3 DEF DecisionHolds, Grows
  <2>. QED
    BY <1>2, <1>3, <2>1, <2>2, <2>3, <2>4, <2>5 DEF CallHolds
<1>. QED
  BY <1>3, <1>4, <1>5

\* The first step of a call tells what the call knows.
LEMMA HeadsTell ==
  ASSUME NEW owner, AccountsHold(owner), NEW h \in Handler, NEW step, At(h, step)
  PROVE  LET c == call[h] IN
         /\ c \in CallRecord /\ c # NoCall /\ c.todo # <<>> /\ Head(c.todo) = step
         /\ step # "createIdentity" => c.user \in User /\ Known(c.user)
         /\ step \in {"createIdentity", "createProfile", "bind"} =>
              /\ c.nis \in Nis /\ c.email \in Email /\ c.todo \in SignupRest
              /\ h \in Client /\ h \notin Desk
         /\ step \in {"createProfile", "bind"} => owner[c.user] = c.nis
         /\ step = "bind" => profile[c.user] # None
         /\ step \in {"approved", "rejected", "disabled", "clearNis", "unbind", "activate", "suspend",
                      "deleteUser", "createCode"} =>
              profile[c.user] # None /\ c.todo \in DecisionRest /\ h \in Desk /\ h \notin Client
         /\ step = "unbind" => c.nis \in Nis
         /\ step \in {"password", "burn"} =>
              c.code \in Code /\ code[c.code] # None /\ h \in Client /\ h \notin Desk
         /\ step = "burn" => code[c.code].resets > 0
<1>1. PICK c \in CallRecord : c = call[h]
  BY DEF AccountsHold
<1>2. c.todo # <<>> /\ c # NoCall /\ Head(c.todo) = step
  BY <1>1, NoCallIsOne DEF At
<1>3. /\ c.user \in User \cup {None} /\ c.nis \in Nis \cup {None}
      /\ c.email \in Email \cup {None} /\ c.code \in Code \cup {None}
      /\ \/ h \in Client /\ h \notin Desk /\ SignupHolds(c, owner)
         \/ h \in Client /\ h \notin Desk /\ ResetHolds(c)
         \/ h \in Desk /\ h \notin Client /\ DecisionHolds(c)
  BY <1>1, <1>2, CallsHaveSteps
<1>4. CASE h \in Client /\ h \notin Desk /\ SignupHolds(c, owner)
  <2>1. /\ step \in {"createIdentity", "assignRole", "createProfile", "bind", "student_signup"}
        /\ step = "createIdentity" <=> c.todo = RegisterSteps
        /\ step = "bind" => c.todo = BindRest
    BY <1>2, <1>4, SignupGoes DEF SignupHolds
  <2>. QED
    BY <1>1, <1>2, <1>3, <1>4, <2>1 DEF SignupHolds
<1>5. CASE h \in Client /\ h \notin Desk /\ ResetHolds(c)
  <2>1. /\ step \in {"password", "burn", "cutoff", "student_password_reset"}
        /\ step = "password" <=> c.todo = ResetSteps
    BY <1>2, <1>5, ResetGoes DEF ResetHolds
  <2>. QED
    BY <1>1, <1>2, <1>3, <1>5, <2>1 DEF ResetHolds, Known
<1>6. CASE h \in Desk /\ h \notin Client /\ DecisionHolds(c)
  <2>1. step \notin {"createIdentity", "createProfile", "bind", "password", "burn"}
    BY <1>2, <1>6, ApproveGoes, DisableGoes, RejectGoes, CodeGoes DEF DecisionHolds, DecisionRest
  <2>2. step = "unbind" => c.todo \in UnbindRest
    BY <1>2, <1>6, ApproveGoes, DisableGoes, RejectGoes, CodeGoes DEF DecisionHolds, DecisionRest
  <2>. QED
    BY <1>1, <1>2, <1>3, <1>6, <2>1, <2>2 DEF DecisionHolds, Known
<1>. QED
  BY <1>3, <1>4, <1>5, <1>6

\* The stores are of their types.
LEMMA StoresTyped ==
  ASSUME NEW owner, AccountsHold(owner)
  PROVE  /\ profile \in [User -> ProfileRow \cup {None}] /\ binding \in [Nis -> User \cup {None}]
         /\ identity \in [User -> IdentityRow \cup {None}]
         /\ cutoff \in [User -> SUBSET Second] /\ token \subseteq User \X Second
         /\ code \in [Code -> CodeRow \cup {None}] /\ log \subseteq Kept \X User \X Second
         /\ now \in Second /\ failures \in 0 .. MaxFailures
         /\ call \in [Handler -> CallRecord] /\ CodesBurnOnlyAfterUse /\ OwnerHolds(owner)
         /\ \A c \in Code : code[c] # None =>
              /\ code[c].user \in User /\ code[c].state \in {"active", "used", "expired"}
              /\ code[c].resets \in 0 .. 2
         /\ \A u \in User : identity[u] # None => identity[u] \in IdentityRow
         /\ \A u \in User : profile[u] # None => profile[u] \in ProfileRow
BY DEF AccountsHold, AccountTypeOK, CodeRow

\* A call that ends, or one that begins, leaves the stores alone.
LEMMA CallEnds ==
  ASSUME NEW owner, AccountsHold(owner), NEW h \in Handler, Ends(h),
         UNCHANGED <<store, identity, token, now>>, failures' \in 0 .. MaxFailures
  PROVE  AccountsHold(owner)'
<1>1. /\ call' \in [Handler -> CallRecord] /\ call'[h] = NoCall
      /\ \A g \in Handler \ {h} : call'[g] = call[g]
  BY NoCallIsOne, StoresTyped DEF Ends
<1>2. CallHolds(h, owner)' /\ Grows(owner, owner)
  BY <1>1 DEF CallHolds, Grows, Known, store
<1>3. CodesBurnOnlyAfterUse' /\ OwnerHolds(owner)'
  BY StoresTyped DEF CodesBurnOnlyAfterUse, OwnerHolds, store
<1>. QED
  BY <1>1, <1>2, <1>3, StoresTyped, CallStep DEF store

\* A call begins as its handler has it, on stores that it leaves alone.
LEMMA CallBegins ==
  ASSUME NEW owner, AccountsHold(owner), NEW h \in Handler, NEW c \in CallRecord, Starts(h, c),
         c.todo # <<>>,
         h \in Client => SignupHolds(c, owner) \/ ResetHolds(c), h \in Desk => DecisionHolds(c)
  PROVE  AccountsHold(owner)'
<1>1. /\ call' \in [Handler -> CallRecord] /\ call'[h] = c
      /\ \A g \in Handler \ {h} : call'[g] = call[g]
      /\ UNCHANGED <<store, identity, token, now, failures>>
  BY StoresTyped DEF Starts
<1>2. Grows(owner, owner) /\ CodesBurnOnlyAfterUse' /\ OwnerHolds(owner)'
  BY <1>1, StoresTyped DEF Grows, Known, store, CodesBurnOnlyAfterUse, OwnerHolds
<1>3. /\ SignupHolds(c, owner) => SignupHolds(c, owner)'
      /\ ResetHolds(c) => ResetHolds(c)'
      /\ DecisionHolds(c) => DecisionHolds(c)'
  BY <1>1 DEF SignupHolds, ResetHolds, DecisionHolds, Known, store
<1>4. CallHolds(h, owner)'
  BY <1>1, <1>3 DEF CallHolds
<1>. QED
  BY <1>1, <1>2, <1>4, StoresTyped, CallStep DEF store

\* The provider makes a user of an id that is new, and the applicant its owner,
\* or knows the user of the address to be the applicant.
LEMMA IdentityCreated ==
  ASSUME NEW owner \in [User -> Nis \cup {None}], AccountsHold(owner), NEW h \in Handler,
         NEW u \in User, CreateIdentity(h, u)
  PROVE  AccountsInv'
<1>1. PICK c \in CallRecord : c = call[h]
  BY StoresTyped
<1>2. /\ c.todo \in SignupRest /\ c.todo # <<>> /\ Head(c.todo) = "createIdentity"
      /\ c.nis \in Nis /\ c.email \in Email /\ h \in Client /\ h \notin Desk
      /\ UNCHANGED <<store, token, now, failures>>
  BY <1>1, HeadsTell DEF CreateIdentity
<1>3. CASE Ends(h) /\ UNCHANGED identity
  BY <1>2, <1>3, StoresTyped, CallEnds DEF AccountsInv
<1> DEFINE x == [c EXCEPT !.user = u]
<1>4. x \in CallRecord /\ x.todo = c.todo /\ x.user = u /\ x.nis = c.nis /\ x.email = c.email
  BY DEF CallRecord
<1> HIDE DEF x
<1>5. ASSUME GoesOnAs(h, x), NEW owner2, owner2[u] = c.nis, Known(u)'
      PROVE  /\ call' \in [Handler -> CallRecord]
             /\ \A g \in Handler \ {h} : call'[g] = call[g]
             /\ call'[h].todo = <<>> => call'[h] = NoCall
             /\ CallHolds(h, owner2)'
  <2>1. /\ call' \in [Handler -> CallRecord]
        /\ \A g \in Handler \ {h} : call'[g] = call[g]
        /\ \/ call'[h] = NoCall
           \/ /\ Len(x.todo) # 1 /\ call'[h].todo = Tail(x.todo) /\ call'[h].todo # <<>>
              /\ call'[h].user = x.user /\ call'[h].nis = x.nis /\ call'[h].email = x.email
    BY <1>2, <1>4, <1>5, StoresTyped, GoesOnSets
  <2>2. CASE call'[h] = NoCall
    BY <2>1, <2>2 DEF CallHolds
  <2>3. CASE call'[h] # NoCall
    <3>1. PICK y \in CallRecord : y = call'[h]
      BY <2>1
    <3>2. Tail(c.todo) \in SignupRest \ {RegisterSteps, BindRest, <<"student_signup">>}
      <4>1. c.todo = RegisterSteps
        BY <1>2, SignupGoes
      <4>. QED
        BY <4>1 DEF RegisterSteps, SignupRest, BindRest
    <3>3. SignupHolds(y, owner2)'
      BY <1>2, <1>4, <1>5, <2>1, <2>3, <3>1, <3>2, AccountsAssumption DEF SignupHolds
    <3>. QED
      BY <1>2, <2>1, <3>1, <3>3 DEF CallHolds
  <2>. QED
    BY <2>1, <2>2, <2>3
<1>6. CASE /\ identity[u] = None /\ profile[u] = None
           /\ identity' = [identity EXCEPT ![u] =
                [email |-> c.email, nis |-> c.nis, suspended |-> TRUE, student |-> FALSE]]
           /\ GoesOnAs(h, x)
  <2> DEFINE owner2 == [owner EXCEPT ![u] = c.nis]
  <2>1. owner2 \in [User -> Nis \cup {None}] /\ owner2[u] = c.nis
        /\ \A v \in User \ {u} : owner2[v] = owner[v]
    BY <1>2
  <2> HIDE DEF owner2
  <2>2. PICK yes \in BOOLEAN, no \in BOOLEAN : yes = TRUE /\ no = FALSE
    OBVIOUS
  <2> DEFINE row == [email |-> c.email, nis |-> c.nis, suspended |-> yes, student |-> no]
  <2>3. row \in IdentityRow /\ row.nis = c.nis /\ identity' = [identity EXCEPT ![u] = row]
    BY <1>2, <1>6, <2>2 DEF IdentityRow
  <2> HIDE DEF row
  <2>4. /\ identity' \in [User -> IdentityRow \cup {None}]
        /\ identity'[u] = row /\ row # None
        /\ \A v \in User \ {u} : identity'[v] = identity[v]
    BY <2>3, StoresTyped, AccountsNullAssumption
  <2>5. Known(u)' /\ Grows(owner, owner2)
    BY <1>2, <1>6, <2>1, <2>4 DEF Known, Grows, store
  <2>6. OwnerHolds(owner2)'
    <3>1. ASSUME NEW v \in User \ {u}
          PROVE  /\ identity'[v] # None => identity'[v].nis = owner2[v]
                 /\ profile'[v] # None => profile'[v].nis \in {owner2[v], None}
                 /\ \A n \in Nis : binding'[n] = v => profile'[v] # None /\ owner2[v] = n
      BY <1>2, <2>1, <2>4, StoresTyped DEF OwnerHolds, store
    <3>2. /\ identity'[u] # None => identity'[u].nis = owner2[u]
          /\ profile'[u] # None => profile'[u].nis \in {owner2[u], None}
          /\ \A n \in Nis : binding'[n] = u => profile'[u] # None /\ owner2[u] = n
      BY <1>2, <1>6, <2>1, <2>3, <2>4, StoresTyped DEF OwnerHolds, store
    <3>. QED
      BY <3>1, <3>2 DEF OwnerHolds
  <2>7. CodesBurnOnlyAfterUse'
    BY <1>2, StoresTyped DEF CodesBurnOnlyAfterUse, store
  <2>8. /\ call' \in [Handler -> CallRecord]
        /\ \A g \in Handler \ {h} : call'[g] = call[g]
        /\ call'[h].todo = <<>> => call'[h] = NoCall
        /\ CallHolds(h, owner2)'
    BY <1>5, <1>6, <2>1, <2>5
  <2>9. AccountsHold(owner2)'
    BY <1>2, <2>4, <2>5, <2>6, <2>7, <2>8, StoresTyped, CallStep DEF store
  <2>. QED
    BY <2>1, <2>9 DEF AccountsInv
<1>7. CASE /\ identity[u] # None /\ identity[u].nis = c.nis /\ UNCHANGED identity
           /\ GoesOnAs(h, x)
  <2>1. owner[u] = c.nis /\ Known(u)' /\ Grows(owner, owner)
    BY <1>2, <1>7, StoresTyped DEF OwnerHolds, Known, Grows, store
  <2>2. OwnerHolds(owner)' /\ CodesBurnOnlyAfterUse'
    BY <1>2, <1>7, StoresTyped DEF OwnerHolds, CodesBurnOnlyAfterUse, store
  <2>3. AccountsHold(owner)'
    BY <1>2, <1>5, <1>7, <2>1, <2>2, StoresTyped, CallStep DEF store
  <2>. QED
    BY <2>3 DEF AccountsInv
<1>. QED
  BY <1>1, <1>3, <1>6, <1>7 DEF CreateIdentity, SameStudent, x

\* A user is changed, never its student, or is deleted when it has a profile.
LEMMA IdentityChanged ==
  ASSUME NEW owner \in [User -> Nis \cup {None}], AccountsHold(owner), NEW h \in Handler,
         ChangeIdentity(h) \/ DeleteUser(h)
  PROVE  AccountsHold(owner)'
<1>1. PICK u : u = call[h].user
  OBVIOUS
<1>2. UNCHANGED <<store, token, now, failures>>
  BY DEF ChangeIdentity, DeleteUser
<1>3. CASE Ends(h) /\ UNCHANGED identity
  BY <1>2, <1>3, StoresTyped, CallEnds
<1>4. ASSUME NEW step \in {"assignRole", "activate", "suspend", "deleteUser"},
             At(h, step), GoesOn(h), NEW row \in IdentityRow \cup {None},
             row = None => step = "deleteUser", row # None => row.nis = identity[u].nis,
             row # None => identity[u] # None,
             identity' = [identity EXCEPT ![u] = row]
      PROVE  AccountsHold(owner)'
  <2>1. /\ u \in User /\ Known(u) /\ call[h] # NoCall /\ Head(call[h].todo) = step
        /\ step = "deleteUser" => profile[u] # None
    BY <1>1, <1>4, HeadsTell
  <2>2. /\ identity' \in [User -> IdentityRow \cup {None}] /\ identity'[u] = row
        /\ \A v \in User \ {u} : identity'[v] = identity[v]
    BY <1>4, <2>1, StoresTyped
  <2>3. Grows(owner, owner)
    BY <1>2, <1>4, <2>1, <2>2 DEF Grows, Known, store
  <2>4. OwnerHolds(owner)' /\ CodesBurnOnlyAfterUse'
    BY <1>2, <1>4, <2>1, <2>2, StoresTyped DEF OwnerHolds, CodesBurnOnlyAfterUse, store
  <2>5. /\ call' \in [Handler -> CallRecord]
        /\ \A g \in Handler \ {h} : call'[g] = call[g]
        /\ call'[h].todo = <<>> => call'[h] = NoCall
        /\ CallHolds(h, owner)'
    BY <1>4, <2>1, <2>3, CallGoesOn
  <2>. QED
    BY <1>2, <2>2, <2>3, <2>4, <2>5, StoresTyped, CallStep DEF store
<1>5. CASE DeleteUser(h)
  BY <1>1, <1>4, <1>5 DEF DeleteUser
<1>6. CASE ChangeIdentity(h) /\ ~(Ends(h) /\ UNCHANGED identity)
  <2>1. PICK yes \in BOOLEAN, no \in BOOLEAN : yes = TRUE /\ no = FALSE
    OBVIOUS
  <2>2. PICK step \in {"assignRole", "activate", "suspend"} :
        /\ At(h, step) /\ GoesOn(h) /\ identity[u] # None
        /\ \/ identity' = [identity EXCEPT ![u].student = yes]
           \/ identity' = [identity EXCEPT ![u].suspended = no]
           \/ identity' = [identity EXCEPT ![u].suspended = yes]
    BY <1>1, <1>6, <2>1 DEF ChangeIdentity
  <2>3. u \in User
    BY <1>1, <2>2, HeadsTell
  <2>4. PICK r \in IdentityRow : r = identity[u]
    BY <2>2, <2>3, StoresTyped
  <2>5. PICK row \in IdentityRow : row.nis = r.nis /\ identity' = [identity EXCEPT ![u] = row]
    <3>1. /\ identity \in [User -> IdentityRow \cup {None}]
          /\ \/ identity' = [identity EXCEPT ![u] = [r EXCEPT !.student = yes]]
             \/ identity' = [identity EXCEPT ![u] = [r EXCEPT !.suspended = no]]
             \/ identity' = [identity EXCEPT ![u] = [r EXCEPT !.suspended = yes]]
      BY <2>2, <2>3, <2>4, StoresTyped
    <3>2. \A b \in BOOLEAN : /\ [r EXCEPT !.student = b] \in IdentityRow
                             /\ [r EXCEPT !.student = b].nis = r.nis
                             /\ [r EXCEPT !.suspended = b] \in IdentityRow
                             /\ [r EXCEPT !.suspended = b].nis = r.nis
      BY <2>4 DEF IdentityRow
    <3>. QED
      BY <2>1, <3>1, <3>2
  <2>6. row # None
    BY <2>5, AccountsNullAssumption
  <2>. QED
    BY <1>4, <2>2, <2>4, <2>5, <2>6
<1>. QED
  BY <1>3, <1>5, <1>6

\* A profile appears for the user of an applicant, who is its owner.
LEMMA ProfileCreated ==
  ASSUME NEW owner \in [User -> Nis \cup {None}], AccountsHold(owner), NEW h \in Handler,
         CreateProfile(h)
  PROVE  AccountsHold(owner)'
<1>1. PICK c \in CallRecord : c = call[h]
  BY StoresTyped
<1>2. PICK u \in User :
      /\ u = c.user /\ Known(u) /\ owner[u] = c.nis /\ c.nis \in Nis /\ c.email \in Email
      /\ call[h] # NoCall /\ Head(call[h].todo) = "createProfile"
  BY <1>1, HeadsTell DEF CreateProfile
<1>3. UNCHANGED <<binding, cutoff, code, log, identity, token, now, failures>>
  BY DEF CreateProfile
<1>4. CASE Ends(h) /\ UNCHANGED profile
  BY <1>3, <1>4, StoresTyped, CallEnds DEF store
<1>5. CASE GoesOn(h) /\ profile' = [profile EXCEPT ![u] =
             [life |-> "pending", nis |-> c.nis, email |-> c.email]]
  <2> DEFINE row == [life |-> "pending", nis |-> c.nis, email |-> c.email]
  <2>1. row \in ProfileRow /\ row.nis = c.nis
    BY <1>2 DEF ProfileRow
  <2>2. profile' = [profile EXCEPT ![u] = row]
    BY <1>5
  <2> HIDE DEF row
  <2>3. /\ profile' \in [User -> ProfileRow \cup {None}] /\ profile'[u] = row /\ row # None
        /\ \A v \in User \ {u} : profile'[v] = profile[v]
    BY <2>1, <2>2, StoresTyped, AccountsNullAssumption
  <2>4. Grows(owner, owner)
    BY <1>3, <2>3 DEF Grows, Known
  <2>5. OwnerHolds(owner)' /\ CodesBurnOnlyAfterUse'
    BY <1>2, <1>3, <2>1, <2>3, StoresTyped DEF OwnerHolds, CodesBurnOnlyAfterUse
  <2>6. /\ call' \in [Handler -> CallRecord]
        /\ \A g \in Handler \ {h} : call'[g] = call[g]
        /\ call'[h].todo = <<>> => call'[h] = NoCall
        /\ CallHolds(h, owner)'
    BY <1>1, <1>2, <1>5, <2>3, <2>4, CallGoesOn
  <2>. QED
    BY <1>3, <2>3, <2>4, <2>5, <2>6, StoresTyped, CallStep
<1>. QED
  BY <1>1, <1>2, <1>4, <1>5 DEF CreateProfile

\* A profile that there is gets another lifecycle or loses its NIS.
LEMMA ProfileUpdated ==
  ASSUME NEW owner \in [User -> Nis \cup {None}], AccountsHold(owner), NEW h \in Handler,
         UpdateProfile(h)
  PROVE  AccountsHold(owner)'
<1>1. UNCHANGED <<binding, cutoff, code, log, identity, token, now, failures>> /\ GoesOn(h)
  BY DEF UpdateProfile
<1>2. PICK step \in {"approved", "rejected", "disabled", "clearNis"} :
        /\ At(h, step)
        /\ \/ /\ step # "clearNis"
              /\ profile' = [profile EXCEPT ![call[h].user].life = step]
           \/ profile' = [profile EXCEPT ![call[h].user].nis = None]
  BY DEF UpdateProfile
<1>3. PICK u \in User : u = call[h].user /\ profile[u] # None
  BY <1>2, HeadsTell
<1>4. PICK r \in ProfileRow : r = profile[u]
  BY <1>3, StoresTyped
<1>5. PICK row \in ProfileRow : row.nis \in {r.nis, None} /\ profile' = [profile EXCEPT ![u] = row]
  <2>1. \/ /\ step # "clearNis"
           /\ profile' = [profile EXCEPT ![u] = [r EXCEPT !.life = step]]
        \/ profile' = [profile EXCEPT ![u] = [r EXCEPT !.nis = None]]
    BY <1>2, <1>3, <1>4, StoresTyped
  <2>2. /\ step # "clearNis" => /\ [r EXCEPT !.life = step] \in ProfileRow
                                /\ [r EXCEPT !.life = step].nis = r.nis
        /\ [r EXCEPT !.nis = None] \in ProfileRow /\ [r EXCEPT !.nis = None].nis = None
    BY <1>2, <1>4 DEF ProfileRow
  <2>. QED
    BY <2>1, <2>2
<1>6. /\ profile' \in [User -> ProfileRow \cup {None}] /\ profile'[u] = row /\ row # None
      /\ \A v \in User \ {u} : profile'[v] = profile[v]
  BY <1>5, StoresTyped, AccountsNullAssumption
<1>7. Grows(owner, owner)
  BY <1>1, <1>6 DEF Grows, Known
<1>8. OwnerHolds(owner)' /\ CodesBurnOnlyAfterUse'
  BY <1>1, <1>3, <1>4, <1>5, <1>6, StoresTyped DEF OwnerHolds, CodesBurnOnlyAfterUse
<1>9. call[h] # NoCall /\ Head(call[h].todo) \notin {"createIdentity", "createProfile", "password"}
  BY <1>2, HeadsTell
<1>10. /\ call' \in [Handler -> CallRecord]
       /\ \A g \in Handler \ {h} : call'[g] = call[g]
       /\ call'[h].todo = <<>> => call'[h] = NoCall
       /\ CallHolds(h, owner)'
  BY <1>1, <1>7, <1>9, CallGoesOn
<1>. QED
  BY <1>1, <1>6, <1>7, <1>8, <1>10, StoresTyped, CallStep

\* A student is bound to the user its call made, which has a profile; or unbound.
LEMMA BindingChanged ==
  ASSUME NEW owner \in [User -> Nis \cup {None}], AccountsHold(owner), NEW h \in Handler,
         Bind(h) \/ Unbind(h)
  PROVE  AccountsHold(owner)'
<1>1. UNCHANGED <<profile, cutoff, code, log, identity, token, now, failures>>
  BY DEF Bind, Unbind
<1>2. CASE Ends(h) /\ UNCHANGED binding
  BY <1>1, <1>2, StoresTyped, CallEnds DEF store
<1>3. ASSUME NEW step \in {"bind", "unbind"}, At(h, step), GoesOn(h),
             NEW n \in Nis, NEW u \in User \cup {None},
             u # None => profile[u] # None /\ owner[u] = n, binding' = [binding EXCEPT ![n] = u]
      PROVE  AccountsHold(owner)'
  <2>1. binding' \in [Nis -> User \cup {None}] /\ binding'[n] = u
        /\ \A m \in Nis \ {n} : binding'[m] = binding[m]
    BY <1>3, StoresTyped
  <2>2. Grows(owner, owner) /\ CodesBurnOnlyAfterUse'
    BY <1>1, StoresTyped DEF Grows, Known, CodesBurnOnlyAfterUse
  <2>3. OwnerHolds(owner)'
    BY <1>1, <1>3, <2>1, StoresTyped, AccountsAssumption DEF OwnerHolds
  <2>4. call[h] # NoCall /\ Head(call[h].todo) \notin {"createIdentity", "createProfile", "password"}
    BY <1>3, HeadsTell
  <2>5. /\ call' \in [Handler -> CallRecord]
        /\ \A g \in Handler \ {h} : call'[g] = call[g]
        /\ call'[h].todo = <<>> => call'[h] = NoCall
        /\ CallHolds(h, owner)'
    BY <1>3, <2>2, <2>4, CallGoesOn
  <2>. QED
    BY <1>1, <2>1, <2>2, <2>3, <2>5, StoresTyped, CallStep
<1>4. CASE Bind(h) /\ ~(Ends(h) /\ UNCHANGED binding)
  <2>1. /\ At(h, "bind") /\ GoesOn(h)
        /\ binding' = [binding EXCEPT ![call[h].nis] = call[h].user]
    BY <1>4 DEF Bind
  <2>2. /\ call[h].nis \in Nis /\ call[h].user \in User /\ profile[call[h].user] # None
        /\ owner[call[h].user] = call[h].nis
    BY <2>1, HeadsTell
  <2>. QED
    BY <1>3, <2>1, <2>2
<1>5. CASE Unbind(h)
  <2>1. At(h, "unbind") /\ GoesOn(h) /\ binding' = [binding EXCEPT ![call[h].nis] = None]
    BY <1>5 DEF Unbind
  <2>2. call[h].nis \in Nis
    BY <2>1, HeadsTell
  <2>. QED
    BY <1>3, <2>1, <2>2
<1>. QED
  BY <1>2, <1>4, <1>5

\* Sessions are revoked, a happening is audited, somebody is told: no call rests
\* on any of it.
LEMMA NothingRestsOn ==
  ASSUME NEW owner \in [User -> Nis \cup {None}], AccountsHold(owner), NEW h \in Handler,
         RevokeSessions(h) \/ WriteAudit(h) \/ Tell(h)
  PROVE  AccountsHold(owner)'
<1>1. UNCHANGED <<profile, binding, code, identity, token, now, failures>> /\ GoesOn(h)
  BY DEF RevokeSessions, WriteAudit, Tell, store
<1>2. PICK step \in {"cutoff", "tellApproved", "tellRejected", "tellCode"} \cup Happening : At(h, step)
  BY DEF RevokeSessions, WriteAudit, Tell
<1>3. /\ call[h] # NoCall /\ call[h].user \in User
      /\ Head(call[h].todo) \notin {"createIdentity", "createProfile", "password"}
  BY <1>2, HeadsTell DEF Happening
<1>4. cutoff' \in [User -> SUBSET Second] /\ log' \subseteq Kept \X User \X Second
  <2>1. CASE RevokeSessions(h)
    <3>1. log' = log /\ cutoff' = [cutoff EXCEPT ![call[h].user] = @ \cup {now}]
      BY <2>1 DEF RevokeSessions
    <3>2. cutoff[call[h].user] \cup {now} \in SUBSET Second
      BY <1>3, StoresTyped
    <3>. QED
      BY <1>3, <3>1, <3>2, StoresTyped
  <2>2. CASE WriteAudit(h)
    BY <2>2, StoresTyped DEF WriteAudit
  <2>3. CASE Tell(h)
    BY <2>3, StoresTyped DEF Tell, store
  <2>. QED
    BY <2>1, <2>2, <2>3
<1>5. Grows(owner, owner) /\ CodesBurnOnlyAfterUse' /\ OwnerHolds(owner)'
  BY <1>1, StoresTyped DEF Grows, Known, CodesBurnOnlyAfterUse, OwnerHolds
<1>6. /\ call' \in [Handler -> CallRecord]
      /\ \A g \in Handler \ {h} : call'[g] = call[g]
      /\ call'[h].todo = <<>> => call'[h] = NoCall
      /\ CallHolds(h, owner)'
  BY <1>1, <1>3, <1>5, CallGoesOn
<1>. QED
  BY <1>1, <1>4, <1>5, <1>6, StoresTyped, CallStep

\* A code is made, counts a use and is burnt, in that order.
LEMMA CodeChanged ==
  ASSUME NEW owner \in [User -> Nis \cup {None}], AccountsHold(owner), NEW h \in Handler,
         (\E c \in Code : CreateCode(h, c)) \/ UpdatePassword(h) \/ MarkCodeUsed(h)
  PROVE  AccountsHold(owner)'
<1>1. UNCHANGED <<profile, binding, cutoff, log, identity, token, now, failures>>
  BY DEF CreateCode, UpdatePassword, MarkCodeUsed
<1>2. CASE Ends(h) /\ UNCHANGED code
  BY <1>1, <1>2, StoresTyped, CallEnds DEF store
<1>3. ASSUME NEW step \in {"createCode", "password", "burn"}, At(h, step), GoesOn(h),
             NEW c \in Code, NEW row \in CodeRow, code' = [code EXCEPT ![c] = row],
             code[c] # None => row.resets >= code[c].resets,
             row.state = "used" => row.resets > 0,
             step = "password" => c = call[h].code /\ row.resets > 0
      PROVE  AccountsHold(owner)'
  <2>1. /\ code' \in [Code -> CodeRow \cup {None}] /\ code'[c] = row /\ row # None
        /\ row.resets \in Nat
        /\ \A d \in Code \ {c} : code'[d] = code[d]
    BY <1>3, StoresTyped, AccountsNullAssumption DEF CodeRow
  <2>2. \A d \in Code : code[d] # None => code[d].resets \in Nat
    BY StoresTyped
  <2>3. Grows(owner, owner)
    BY <1>1, <1>3, <2>1, <2>2 DEF Grows, Known
  <2>4. CodesBurnOnlyAfterUse' /\ OwnerHolds(owner)'
    BY <1>1, <1>3, <2>1, StoresTyped DEF CodesBurnOnlyAfterUse, OwnerHolds
  <2>5. /\ call[h] # NoCall /\ Head(call[h].todo) = step
        /\ step # "createIdentity" /\ step # "createProfile"
    BY <1>3, HeadsTell
  <2>6. /\ call' \in [Handler -> CallRecord]
        /\ \A g \in Handler \ {h} : call'[g] = call[g]
        /\ call'[h].todo = <<>> => call'[h] = NoCall
        /\ CallHolds(h, owner)'
    BY <1>3, <2>1, <2>3, <2>5, CallGoesOn
  <2>. QED
    BY <1>1, <2>1, <2>3, <2>4, <2>6, StoresTyped, CallStep
<1>4. ASSUME NEW c \in Code, CreateCode(h, c)
      PROVE  AccountsHold(owner)'
  <2>1. /\ At(h, "createCode") /\ GoesOn(h) /\ code[c] = None
        /\ code' = [code EXCEPT ![c] = [user |-> call[h].user, state |-> "active", resets |-> 0]]
    BY <1>4 DEF CreateCode
  <2>2. call[h].user \in User
    BY <2>1, HeadsTell
  <2> DEFINE row == [user |-> call[h].user, state |-> "active", resets |-> 0]
  <2>3. row \in CodeRow /\ row.state = "active"
    BY <2>2 DEF CodeRow
  <2>. QED
    BY <1>3, <2>1, <2>3
<1>5. CASE UpdatePassword(h) /\ ~(Ends(h) /\ UNCHANGED code)
  <2>1. /\ At(h, "password") /\ GoesOn(h)
        /\ code' = [code EXCEPT ![call[h].code].resets = IF @ = 2 THEN 2 ELSE @ + 1]
    BY <1>5 DEF UpdatePassword
  <2>2. PICK c \in Code : c = call[h].code /\ code[c] # None
    BY <2>1, HeadsTell
  <2>3. PICK r \in CodeRow : r = code[c]
    BY <2>2, StoresTyped
  <2> DEFINE k == IF r.resets = 2 THEN 2 ELSE r.resets + 1
             row == [r EXCEPT !.resets = k]
  <2>4. k \in 0 .. 2 /\ k > 0 /\ k >= r.resets
    BY <2>3 DEF CodeRow
  <2>5. code' = [code EXCEPT ![c] = row]
    BY <2>1, <2>2, <2>3, StoresTyped
  <2> HIDE DEF k
  <2>6. row \in CodeRow /\ row.resets = k
    BY <2>3, <2>4 DEF CodeRow
  <2> HIDE DEF row
  <2>7. code[c] # None => row.resets >= code[c].resets
    BY <2>3, <2>4, <2>6
  <2>. QED
    BY <1>3, <2>1, <2>2, <2>4, <2>5, <2>6, <2>7
<1>6. CASE MarkCodeUsed(h)
  <2>1. /\ At(h, "burn") /\ GoesOn(h)
        /\ code' = [code EXCEPT ![call[h].code].state = "used"]
    BY <1>6 DEF MarkCodeUsed
  <2>2. PICK c \in Code : c = call[h].code /\ code[c] # None /\ code[c].resets > 0
    BY <2>1, HeadsTell
  <2>3. PICK r \in CodeRow : r = code[c]
    BY <2>2, StoresTyped
  <2> DEFINE row == [r EXCEPT !.state = "used"]
  <2>4. code' = [code EXCEPT ![c] = row]
    BY <2>1, <2>2, <2>3, StoresTyped
  <2>5. row \in CodeRow /\ row.resets = r.resets /\ r.resets \in Nat
    BY <2>3 DEF CodeRow
  <2> HIDE DEF row
  <2>6. (code[c] # None => row.resets >= code[c].resets) /\ row.resets > 0
    BY <2>2, <2>3, <2>5
  <2>. QED
    BY <1>3, <2>1, <2>2, <2>4, <2>5, <2>6
<1>. QED
  BY <1>2, <1>4, <1>5, <1>6

\* A call begins with what it read: the applicant whose user it is, a code that
\* there is, a student that has a profile.
LEMMA CallStarts ==
  ASSUME NEW owner \in [User -> Nis \cup {None}], AccountsHold(owner), NEW h \in Handler,
         (h \in Client /\ ClientStarts(h)) \/ (h \in Desk /\ DeskStarts(h))
  PROVE  AccountsHold(owner)'
<1> USE AccountsAssumption
<1>2. ASSUME NEW n \in Nis, NEW e \in Email, RegisterStudent(h, n, e), h \in Client
      PROVE  AccountsHold(owner)'
  <2>1. CASE Starts(h, [NoCall EXCEPT !.todo = RegisterSteps, !.nis = n, !.email = e])
    <3> DEFINE x == [NoCall EXCEPT !.todo = RegisterSteps, !.nis = n, !.email = e]
    <3>1. RegisterSteps \in SignupRest /\ RegisterSteps \in Seq(Step) /\ RegisterSteps # <<>>
          /\ RegisterSteps \notin {BindRest, <<"student_signup">>}
      BY DEF SignupRest, RegisterSteps, BindRest, Step, Happening
    <3>2. /\ x \in CallRecord /\ x.todo = RegisterSteps /\ x.nis = n /\ x.email = e
      BY <3>1 DEF CallRecord, NoCall
    <3> HIDE DEF x
    <3>3. SignupHolds(x, owner)
      BY <3>1, <3>2 DEF SignupHolds
    <3>4. Starts(h, x)
      BY <2>1 DEF x
    <3>. QED
      BY <1>2, <3>1, <3>2, <3>3, <3>4, CallBegins DEF Handler
  <2>2. ASSUME NEW u \in HoldersOf(n),
               Starts(h, [NoCall EXCEPT !.todo = <<"bind", "student_signup">>,
                                        !.user = u, !.nis = n, !.email = e])
        PROVE  AccountsHold(owner)'
    <3> DEFINE x == [NoCall EXCEPT !.todo = BindRest, !.user = u, !.nis = n, !.email = e]
    <3>1. BindRest \in SignupRest /\ BindRest \in Seq(Step) /\ BindRest # <<>>
      BY DEF SignupRest, BindRest, Step, Happening
    <3>2. /\ x \in CallRecord /\ x.todo = BindRest /\ x.user = u /\ x.nis = n /\ x.email = e
      BY <3>1 DEF CallRecord, NoCall, HoldersOf
    <3>3. Starts(h, x)
      BY <2>2 DEF BindRest
    <3> HIDE DEF x
    <3>4. u \in User /\ profile[u] # None /\ Known(u) /\ owner[u] = n
      BY StoresTyped DEF HoldersOf, Known, OwnerHolds
    <3>5. SignupHolds(x, owner)
      BY <3>1, <3>2, <3>4 DEF SignupHolds
    <3>. QED
      BY <1>2, <3>1, <3>2, <3>3, <3>5, CallBegins
  <2>. QED
    BY <1>2, <2>1, <2>2 DEF RegisterStudent
<1>3. ASSUME NEW c \in Code, ResetStudentPassword(h, c), h \in Client
      PROVE  AccountsHold(owner)'
  <2> DEFINE x == [NoCall EXCEPT !.todo = ResetSteps, !.user = code[c].user, !.code = c]
  <2>1. /\ code[c] # None /\ code[c].user \in User /\ profile[code[c].user] # None
        /\ Starts(h, x)
    BY <1>3, StoresTyped DEF ResetStudentPassword, Lives
  <2>2. ResetSteps \in ResetRest /\ ResetSteps \in Seq(Step) /\ ResetSteps # <<>>
    BY DEF ResetRest, ResetSteps, Step, Happening
  <2>3. x \in CallRecord /\ x.todo = ResetSteps /\ x.user = code[c].user /\ x.code = c
    BY <2>1, <2>2 DEF CallRecord, NoCall
  <2> HIDE DEF x
  <2>4. ResetHolds(x)
    BY <2>1, <2>2, <2>3 DEF ResetHolds
  <2>. QED
    BY <1>3, <2>1, <2>2, <2>3, <2>4, CallBegins
<1>4. ASSUME NEW x \in CallRecord, Starts(h, x), x.todo \in DecisionRest, x.todo # <<>>,
             x.user # None, profile[x.user] # None, x.todo \in UnbindRest => x.nis # None, h \in Desk
      PROVE  AccountsHold(owner)'
  <2>1. DecisionHolds(x)
    BY <1>4 DEF DecisionHolds
  <2>. QED
    BY <1>4, <2>1, CallBegins
<1>6. \A t \in {ApproveSteps, DisableSteps, CodeSteps} :
        t \in DecisionRest /\ t \in Seq(Step) /\ t # <<>> /\ t \notin UnbindRest
  <2>1. /\ ApproveSteps \in ApproveRest /\ DisableSteps \in DisableRest /\ CodeSteps \in CodeRest
    BY DEF ApproveRest, DisableRest, CodeRest
  <2>2. /\ Head(ApproveSteps) = "assignRole" /\ Head(DisableSteps) = "disabled"
        /\ Head(CodeSteps) = "createCode"
    BY DEF ApproveSteps, DisableSteps, CodeSteps
  <2>3. \A s \in UnbindRest : Head(s) \in {"rejected", "clearNis", "unbind"}
    BY DEF UnbindRest
  <2>4. ApproveSteps \in Seq(Step) /\ DisableSteps \in Seq(Step) /\ CodeSteps \in Seq(Step)
        /\ ApproveSteps # <<>> /\ DisableSteps # <<>> /\ CodeSteps # <<>>
    BY <2>1, ApproveGoes, DisableGoes, CodeGoes
  <2>. QED
    BY <2>1, <2>2, <2>3, <2>4 DEF DecisionRest
<1>7. ASSUME NEW u \in User, h \in Desk, DecideStudent(h, u) \/ GenerateResetCode(h, u)
      PROVE  AccountsHold(owner)'
  <2>1. profile[u] # None
    BY <1>7 DEF DecideStudent, GenerateResetCode, Lives
  <2>2. profile[u].nis \in Nis \cup {None}
    BY <2>1, StoresTyped DEF ProfileRow
  <2>3. /\ RejectSteps(profile[u].nis) \in DecisionRest
        /\ RejectSteps(profile[u].nis) \in Seq(Step) /\ RejectSteps(profile[u].nis) # <<>>
        /\ RejectSteps(profile[u].nis) \in UnbindRest => profile[u].nis # None
    BY RejectBegins, RejectGoes DEF DecisionRest
  <2>4. CASE Starts(h, [NoCall EXCEPT !.todo = RejectSteps(profile[u].nis),
                                      !.user = u, !.nis = profile[u].nis])
    <3> DEFINE x == [NoCall EXCEPT !.todo = RejectSteps(profile[u].nis),
                                   !.user = u, !.nis = profile[u].nis]
    <3>1. /\ x \in CallRecord /\ x.todo = RejectSteps(profile[u].nis) /\ x.user = u
          /\ x.nis = profile[u].nis /\ Starts(h, x)
      BY <2>2, <2>3, <2>4 DEF CallRecord, NoCall
    <3> HIDE DEF x
    <3>. QED
      BY <1>4, <1>7, <2>1, <2>3, <3>1
  <2>5. ASSUME NEW t \in {ApproveSteps, DisableSteps, CodeSteps},
               Starts(h, [NoCall EXCEPT !.todo = t, !.user = u])
        PROVE  AccountsHold(owner)'
    <3> DEFINE x == [NoCall EXCEPT !.todo = t, !.user = u]
    <3>1. x \in CallRecord /\ x.todo = t /\ x.user = u /\ Starts(h, x)
      BY <1>6, <2>5 DEF CallRecord, NoCall
    <3> HIDE DEF x
    <3>. QED
      BY <1>4, <1>6, <1>7, <2>1, <3>1
  <2>. QED
    BY <1>7, <2>4, <2>5 DEF DecideStudent, GenerateResetCode
<1>. QED
  BY <1>2, <1>3, <1>7 DEF ClientStarts, DeskStarts

\* The provider issues tokens, time passes and codes expire.
LEMMA SurroundingsStep ==
  ASSUME NEW owner \in [User -> Nis \cup {None}], AccountsHold(owner),
         (\E u \in User : SignIn(u)) \/ (\E c \in Code : CodeExpires(c)) \/ Tick
  PROVE  AccountsHold(owner)'
<1>1. CASE \E u \in User : SignIn(u)
  <2>1. UNCHANGED <<store, identity, now, call, failures>> /\ token' \subseteq User \X Second
    BY <1>1, StoresTyped DEF SignIn
  <2>2. Grows(owner, owner) /\ CodesBurnOnlyAfterUse'
    BY <2>1, StoresTyped DEF Grows, Known, store, CodesBurnOnlyAfterUse
  <2>. QED
    BY <2>1, <2>2, StoresTyped, OtherStep DEF store
<1>2. CASE Tick
  <2>1. UNCHANGED <<store, identity, token, call, failures>> /\ now' \in Second
    BY <1>2, StoresTyped, AccountsAssumption DEF Tick, Second
  <2>2. Grows(owner, owner) /\ CodesBurnOnlyAfterUse'
    BY <2>1, StoresTyped DEF Grows, Known, store, CodesBurnOnlyAfterUse
  <2>. QED
    BY <2>1, <2>2, StoresTyped, OtherStep DEF store
<1>3. ASSUME NEW c \in Code, CodeExpires(c)
      PROVE  AccountsHold(owner)'
  <2>1. /\ UNCHANGED <<profile, binding, cutoff, log, identity, token, now, call, failures>>
        /\ code[c] # None /\ code' = [code EXCEPT ![c].state = "expired"]
    BY <1>3 DEF CodeExpires
  <2>2. PICK r \in CodeRow : r = code[c]
    BY <2>1, StoresTyped
  <2> DEFINE row == [r EXCEPT !.state = "expired"]
  <2>3. /\ code' = [code EXCEPT ![c] = row] /\ row \in CodeRow /\ row.resets = r.resets
        /\ row.state = "expired"
    BY <2>1, <2>2, StoresTyped DEF CodeRow
  <2> HIDE DEF row
  <2>4. /\ code' \in [Code -> CodeRow \cup {None}] /\ code'[c] = row /\ row # None
        /\ \A d \in Code \ {c} : code'[d] = code[d]
    BY <2>3, StoresTyped, AccountsNullAssumption
  <2>5. Grows(owner, owner) /\ CodesBurnOnlyAfterUse'
    BY <2>1, <2>2, <2>3, <2>4, StoresTyped DEF Grows, Known, CodesBurnOnlyAfterUse
  <2>. QED
    BY <2>1, <2>4, <2>5, StoresTyped, OtherStep
<1>. QED
  BY <1>1, <1>2, <1>3

\* Every step keeps the invariant.
LEMMA AccountsStep ==
  ASSUME AccountsInv, [Next]_vars
  PROVE  AccountsInv'
<1>1. PICK owner \in [User -> Nis \cup {None}] : AccountsHold(owner)
  BY DEF AccountsInv
<1>2. CASE UNCHANGED vars
  <2>1. UNCHANGED <<profile, binding, cutoff, code, log, identity, token, now, call, failures>>
    BY <1>2 DEF vars, store
  <2>2. Grows(owner, owner) /\ CodesBurnOnlyAfterUse'
    BY <1>1, <2>1, StoresTyped DEF Grows, Known, CodesBurnOnlyAfterUse
  <2>3. AccountsHold(owner)'
    BY <1>1, <2>1, <2>2, StoresTyped, OtherStep
  <2>. QED
    BY <2>3 DEF AccountsInv
<1>3. ASSUME NEW h \in Handler, HandlerStep(h)
      PROVE  AccountsInv'
  <2>1. CASE \E u \in User : CreateIdentity(h, u)
    BY <1>1, <2>1, IdentityCreated
  <2>2. CASE ~\E u \in User : CreateIdentity(h, u)
    BY <1>1, <1>3, <2>2, IdentityChanged, ProfileCreated, ProfileUpdated, BindingChanged,
       NothingRestsOn, CodeChanged DEF HandlerStep, AccountsInv
  <2>. QED
    BY <2>1, <2>2
<1>4. ASSUME NEW h \in Handler, Fail(h)
      PROVE  AccountsInv'
  <2>1. /\ Ends(h) /\ UNCHANGED <<store, identity, token, now>>
        /\ failures < MaxFailures /\ failures' = failures + 1
    BY <1>4 DEF Fail
  <2>2. failures' \in 0 .. MaxFailures
    BY <1>1, <2>1, StoresTyped, AccountsAssumption
  <2>. QED
    BY <1>1, <2>1, <2>2, CallEnds DEF AccountsInv
<1>5. ASSUME NEW h \in Handler, (h \in Client /\ ClientStarts(h)) \/ (h \in Desk /\ DeskStarts(h))
      PROVE  AccountsInv'
  BY <1>1, <1>5, CallStarts DEF AccountsInv
<1>6. CASE (\E u \in User : SignIn(u)) \/ (\E c \in Code : CodeExpires(c)) \/ Tick
  BY <1>1, <1>6, SurroundingsStep DEF AccountsInv
<1>7. CASE Next
  <2>1. \/ \E h \in Handler : HandlerStep(h) \/ Fail(h)
        \/ \E h \in Client : ClientStarts(h)
        \/ \E h \in Desk : DeskStarts(h)
        \/ (\E u \in User : SignIn(u)) \/ (\E c \in Code : CodeExpires(c)) \/ Tick
    BY <1>7 DEF Next
  <2>2. ASSUME NEW h \in Client, ClientStarts(h)
        PROVE  AccountsInv'
    BY <1>5, <2>2 DEF Handler
  <2>3. ASSUME NEW h \in Desk, DeskStarts(h)
        PROVE  AccountsInv'
    BY <1>5, <2>3 DEF Handler
  <2>. QED
    BY <1>3, <1>4, <1>6, <2>1, <2>2, <2>3
<1>. QED
  BY <1>2, <1>7

\* No account is there, and no id is anybody's.
LEMMA AccountsStart ==
  ASSUME AccountsInit
  PROVE  AccountsInv
<1> DEFINE owner == [u \in User |-> None]
<1>1. owner \in [User -> Nis \cup {None}]
  OBVIOUS
<1>2. call \in [Handler -> CallRecord] /\ \A h \in Handler : call[h] = NoCall
  BY NoCallIsOne DEF AccountsInit
<1>3. AccountTypeOK
  BY <1>2, AccountsAssumption DEF AccountsInit, AccountTypeOK, CallRecord, Second
<1>4. CodesBurnOnlyAfterUse /\ \A h \in Handler : CallHolds(h, owner)
  BY <1>2 DEF AccountsInit, CodesBurnOnlyAfterUse, CallHolds
<1>5. OwnerHolds(owner)
  BY AccountsAssumption DEF AccountsInit, OwnerHolds
<1>. QED
  BY <1>1, <1>2, <1>3, <1>4, <1>5 DEF AccountsInv, AccountsHold

\* The accounts keep their invariant.
LEMMA AccountsInductive == AccountsSpec => []AccountsInv
BY AccountsStart, AccountsStep, PTL DEF AccountsSpec

\* The tables, the provider's users and the calls are always of their types.
THEOREM AccountsTyped == AccountsSpec => []AccountTypeOK
<1>1. AccountsInv => AccountTypeOK
  BY DEF AccountsInv, AccountsHold
<1>. QED
  BY <1>1, AccountsInductive, PTL

\* However many signups share an address or race for a NIS, and whichever
\* decisions break off in between, a student is only ever bound to an account of
\* that student (bindStudentToUser, registerStudent, rejectStudent).
THEOREM BindingsStayWithTheirStudent == AccountsSpec => []BindingsMatchAccounts
<1>1. ASSUME AccountsInv
      PROVE  BindingsMatchAccounts
  <2>1. PICK owner \in [User -> Nis \cup {None}] : AccountsHold(owner)
    BY <1>1 DEF AccountsInv
  <2>2. ASSUME NEW n \in Nis, binding[n] # None
        PROVE  profile[binding[n]] # None /\ profile[binding[n]].nis \in {n, None}
    <3>1. PICK u \in User : u = binding[n]
      BY <2>1, <2>2, StoresTyped
    <3>. QED
      BY <2>1, <3>1, StoresTyped DEF OwnerHolds
  <2>. QED
    BY <2>2 DEF BindingsMatchAccounts
<1>. QED
  BY <1>1, AccountsInductive, PTL

\* A reset code is used up only after the password was changed with it
\* (resetStudentPassword).
THEOREM CodesBurnAfterUse == AccountsSpec => []CodesBurnOnlyAfterUse
<1>1. AccountsInv => CodesBurnOnlyAfterUse
  BY DEF AccountsInv, AccountsHold
<1>. QED
  BY <1>1, AccountsInductive, PTL

\* A NIS is held by one account.
OneHolder ==
  \A n \in Nis : \A u, v \in HoldersOf(n) : u = v

\* Only a signup gives an account a NIS, and only where no other holds it.
LEMMA OneHolderStep == AccountsInv /\ OneHolder /\ [Next]_vars => OneHolder'
<1> SUFFICES ASSUME AccountsInv, OneHolder, [Next]_vars PROVE OneHolder'
  OBVIOUS
<1>1. PICK owner \in [User -> Nis \cup {None}] : AccountsHold(owner)
  BY DEF AccountsInv
<1>2. CASE UNCHANGED profile
  BY <1>2 DEF OneHolder, HoldersOf
<1>3. ASSUME NEW h \in Handler, CreateProfile(h) PROVE OneHolder'
  <2>1. PICK u \in User, n \in Nis : u = call[h].user /\ n = call[h].nis
    BY <1>1, <1>3, HeadsTell DEF CreateProfile
  <2>2. CASE UNCHANGED profile
    BY <1>2, <2>2
  <2>3. CASE ~UNCHANGED profile
    <3>1. PICK p : /\ HoldersOf(n) \subseteq {u}
                   /\ profile' = [profile EXCEPT ![u] = p] /\ p.nis = n
      <4>1. /\ HoldersOf(n) \subseteq {u}
            /\ profile' = [profile EXCEPT ![u] =
                 [life |-> "pending", nis |-> n, email |-> call[h].email]]
        BY <1>3, <2>1, <2>3 DEF CreateProfile
      <4>2. [life |-> "pending", nis |-> n, email |-> call[h].email].nis = n
        OBVIOUS
      <4>. QED
        BY <4>1, <4>2, Zenon
    <3>2. /\ profile'[u].nis = n /\ \A v \in User \ {u} : profile'[v] = profile[v]
      BY <1>1, <3>1, StoresTyped
    <3>3. \A v \in User \ {u}, m \in Nis : v \in HoldersOf(m)' <=> v \in HoldersOf(m)
      BY <3>2 DEF HoldersOf
    <3>4. \A m \in Nis : u \in HoldersOf(m)' => m = n
      BY <3>2 DEF HoldersOf
    <3>5. \A m \in Nis : HoldersOf(m)' \subseteq User
      BY DEF HoldersOf
    <3>. QED
      BY <3>1, <3>3, <3>4, <3>5 DEF OneHolder
  <2>. QED
    BY <2>2, <2>3
<1>4. ASSUME NEW h \in Handler, UpdateProfile(h) PROVE OneHolder'
  <2>1. PICK u \in User : u = call[h].user /\ profile[u] # None
    BY <1>1, <1>4, HeadsTell DEF UpdateProfile
  <2>2. PICK r \in ProfileRow : r = profile[u]
    BY <1>1, <2>1, StoresTyped
  <2>3. PICK p \in ProfileRow : profile' = [profile EXCEPT ![u] = p] /\ p.nis \in {r.nis, None}
    <3>1. \/ \E life \in {"approved", "rejected", "disabled"} :
               profile' = [profile EXCEPT ![u] = [r EXCEPT !.life = life]]
          \/ profile' = [profile EXCEPT ![u] = [r EXCEPT !.nis = None]]
      BY <1>1, <1>4, <2>1, <2>2, StoresTyped DEF UpdateProfile
    <3>2. /\ \A life \in {"approved", "rejected", "disabled"} :
               [r EXCEPT !.life = life] \in ProfileRow /\ [r EXCEPT !.life = life].nis = r.nis
          /\ [r EXCEPT !.nis = None] \in ProfileRow /\ [r EXCEPT !.nis = None].nis = None
      BY <2>2 DEF ProfileRow
    <3>. QED
      BY <3>1, <3>2
  <2>4. \A n \in Nis : HoldersOf(n)' \subseteq HoldersOf(n)
    <3>1. \A n \in Nis : n # None
      BY AccountsAssumption
    <3>2. profile'[u].nis \in {profile[u].nis, None} /\ \A v \in User \ {u} : profile'[v] = profile[v]
      BY <1>1, <2>2, <2>3, StoresTyped
    <3>. QED
      BY <2>1, <3>1, <3>2 DEF HoldersOf
  <2>. QED
    BY <2>4 DEF OneHolder
<1>5. CASE UNCHANGED vars
  BY <1>2, <1>5 DEF vars, store
<1>6. ASSUME NEW h \in Handler, HandlerStep(h), ~CreateProfile(h), ~UpdateProfile(h)
      PROVE  UNCHANGED profile
  BY <1>6, Zenon DEF HandlerStep, CreateIdentity, ChangeIdentity, DeleteUser, Bind, Unbind,
     RevokeSessions, CreateCode, UpdatePassword, MarkCodeUsed, WriteAudit, Tell, store
<1>7. ASSUME NEW h, Fail(h) \/ ClientStarts(h) \/ DeskStarts(h)
      PROVE  UNCHANGED profile
  BY <1>7, Zenon DEF Fail, ClientStarts, DeskStarts, RegisterStudent, ResetStudentPassword,
     DecideStudent, GenerateResetCode, Starts, store
<1>8. CASE (\E u \in User : SignIn(u)) \/ (\E c \in Code : CodeExpires(c)) \/ Tick
  BY <1>2, <1>8 DEF SignIn, CodeExpires, Tick, store
<1>. QED
  BY <1>2, <1>3, <1>4, <1>5, <1>6, <1>7, <1>8, Zenon DEF Next

\* What RegisterStudent finds when a signup is submitted again.  The account that
\* holds the NIS is the only one, is bound to no other student, and can be bound to
\* this one, unless the student is still bound to an account that a rejection
\* has taken the NIS from.
SignupsCanBeCompleted ==
  \A n \in Nis : \A u \in HoldersOf(n) :
    /\ HoldersOf(n) = {u} /\ \A m \in Nis \ {n} : binding[m] # u
    /\ binding[n] \notin {None, u} => profile[binding[n]] # None /\ profile[binding[n]].nis = None

\* A signup that broke off can be completed by submitting it again, whoever signed
\* up for that NIS or with that address meanwhile: that is the part of
\* RegistrationRecovers that is not about time (registerStudent,
\* createPendingStudentProfile, bindStudentToUser).
THEOREM SignupsStayOpen == AccountsSpec => []SignupsCanBeCompleted
<1>1. AccountsInit => OneHolder
  BY DEF AccountsInit, OneHolder, HoldersOf
<1>2. AccountsSpec => []OneHolder
  BY <1>1, OneHolderStep, AccountsInductive, PTL DEF AccountsSpec
<1>3. ASSUME AccountsInv, OneHolder
      PROVE  SignupsCanBeCompleted
  <2>1. PICK owner \in [User -> Nis \cup {None}] : AccountsHold(owner)
    BY <1>3 DEF AccountsInv
  <2> SUFFICES ASSUME NEW n \in Nis, NEW u \in HoldersOf(n)
               PROVE  /\ HoldersOf(n) = {u} /\ \A m \in Nis \ {n} : binding[m] # u
                      /\ binding[n] \notin {None, u} =>
                            profile[binding[n]] # None /\ profile[binding[n]].nis = None
    BY DEF SignupsCanBeCompleted
  <2>2. HoldersOf(n) = {u}
    BY <1>3 DEF OneHolder
  <2>3. u \in User /\ profile[u] # None /\ profile[u].nis = n /\ n # None
    BY AccountsAssumption DEF HoldersOf
  <2>4. owner[u] = n
    BY <2>1, <2>3, StoresTyped DEF OwnerHolds
  <2>5. \A m \in Nis \ {n} : binding[m] # u
    BY <2>1, <2>3, <2>4, StoresTyped DEF OwnerHolds
  <2>6. ASSUME binding[n] \notin {None, u}
        PROVE  profile[binding[n]] # None /\ profile[binding[n]].nis = None
    <3>1. PICK v \in User : v = binding[n] /\ v # u
      BY <2>1, <2>6, StoresTyped
    <3>2. profile[v] # None /\ profile[v].nis \in {n, None}
      BY <2>1, <3>1, StoresTyped DEF OwnerHolds
    <3>3. v \notin HoldersOf(n)
      BY <2>2, <3>1
    <3>. QED
      BY <3>1, <3>2, <3>3 DEF HoldersOf
  <2>. QED
    BY <2>2, <2>5, <2>6
<1>. QED
  BY <1>2, <1>3, AccountsInductive, PTL

-----------------------------------------------------------------------------
(***************************************************************************)
(* What holds of the access of students while decisions stay apart.        *)
(***************************************************************************)

\* What is left of a decision, by its first step.
LEMMA DecisionHeads ==
  ASSUME NEW t \in DecisionRest
  PROVE  /\ t # <<>>
         /\ Head(t) = "assignRole" => t = ApproveSteps
         /\ Head(t) = "activate" => t = ActivateRest
         /\ Head(t) = "approved" => t = PublishRest
         /\ Head(t) = "suspend" => t \in (DisableRest \ {DisableSteps}) \cup RejectRest
         /\ Head(t) = "deleteUser" => t \in RejectRest
         /\ Head(t) = "disable_student" => t = <<"disable_student">>
         /\ Head(t) = "reject_student" => t = <<"reject_student", "tellRejected">>
         /\ Head(t) \notin {"createIdentity", "createProfile", "bind", "password", "burn"}
<1>1. \A s \in DisableRest : Head(s) = "suspend" => s # DisableSteps
  BY DisableGoes
<1>. QED
  BY <1>1, ApproveGoes, DisableGoes, RejectGoes, CodeGoes DEF DecisionRest

\* The lists that the invariant names are what is left after the steps that make
\* it hold.
LEMMA DecisionGoes ==
  ASSUME NEW t \in DecisionRest, Len(t) # 1
  PROVE  /\ Tail(t) = ActivateRest => Head(t) = "assignRole"
         /\ Tail(t) = PublishRest => t = ActivateRest /\ Head(t) = "activate"
         /\ Tail(t) \in (DisableRest \ {DisableSteps}) \cup RejectRest =>
              \/ Head(t) \in {"rejected", "disabled"}
              \/ /\ t \in (DisableRest \ {DisableSteps}) \cup RejectRest
                 /\ Head(t) \notin {"rejected", "approved", "activate"}
         /\ Tail(t) \in DisabledRest \cup DeletedRest =>
              Head(t) \in {"suspend", "deleteUser"}
                \/ (t \in DisabledRest \cup DeletedRest /\ Head(t) # "activate")
         /\ Tail(t) \in {<<"disable_student">>, <<"reject_student", "tellRejected">>} =>
              Head(t) = "cutoff"
<1> DEFINE Withdrawn == (DisableRest \ {DisableSteps}) \cup RejectRest
<1>1. /\ \A s \in ApproveRest \cup CodeRest :
           Head(s) \in {"assignRole", "activate", "approved", "approve_student", "tellApproved",
                        "createCode", "generate_reset_code", "tellCode"}
      /\ \A s \in DisableRest : Head(s) \in {"disabled", "suspend", "cutoff", "disable_student"}
      /\ \A s \in RejectRest : Head(s) \in {"rejected", "clearNis", "unbind", "suspend", "deleteUser",
                                            "cutoff", "reject_student", "tellRejected"}
  BY ApproveGoes, DisableGoes, RejectGoes, CodeGoes
<1>2. DisabledRest \subseteq DisableRest /\ DeletedRest \subseteq RejectRest
      /\ ActivateRest \in ApproveRest /\ PublishRest \in ApproveRest
      /\ <<"disable_student">> \in DisableRest /\ <<"reject_student", "tellRejected">> \in RejectRest
  BY DEF DisableRest, RejectRest, DisabledRest, DeletedRest, ApproveRest
<1>3. CASE t \in ApproveRest
  <2>1. Tail(t) \in ApproveRest
    BY <1>3, ApproveGoes
  <2>2. Head(Tail(t)) \in {"assignRole", "activate", "approved", "approve_student", "tellApproved"}
    BY <2>1, ApproveGoes
  <2>3. Tail(t) \notin DisableRest \cup RejectRest
    BY <1>1, <2>2
  <2>4. Head(ApproveSteps) = "assignRole" /\ Head(ActivateRest) = "activate"
    BY DEF ApproveSteps, ActivateRest
  <2>. QED
    BY <1>2, <1>3, <2>3, <2>4, ApproveGoes
<1>4. CASE t \in CodeRest
  <2>1. Tail(t) \in CodeRest
    BY <1>4, CodeGoes
  <2>2. Head(Tail(t)) \in {"createCode", "generate_reset_code", "tellCode"}
    BY <2>1, CodeGoes
  <2>3. Tail(t) \notin ApproveRest \cup DisableRest \cup RejectRest
    BY <1>1, <2>2, ApproveGoes
  <2>. QED
    BY <1>2, <2>3
<1>5. CASE t \in DisableRest
  <2>1. Tail(t) \in DisableRest \ {DisableSteps}
    BY <1>5, DisableGoes
  <2>2. Head(Tail(t)) \in {"suspend", "cutoff", "disable_student"}
    BY <2>1, DisableGoes
  <2>3. Tail(t) \notin ApproveRest
    BY <2>2, ApproveGoes
  <2>4. Tail(t) \in DeletedRest => Tail(t) \in DisabledRest
    BY <2>1, <2>2, RejectGoes, DisableGoes, <1>2
  <2>5. Tail(t) # <<"reject_student", "tellRejected">>
    BY <2>2, RejectGoes, <1>2
  <2>. QED
    BY <1>1, <1>2, <1>5, <2>1, <2>3, <2>4, <2>5, DisableGoes
<1>6. CASE t \in RejectRest
  <2>1. Tail(t) \in RejectRest
    BY <1>6, RejectGoes
  <2>2. Tail(t) \notin ApproveRest
    BY <1>1, <2>1, ApproveGoes
  <2>3. Tail(t) \in DisabledRest => Tail(t) \in DeletedRest
    BY <2>1, RejectGoes, DisableGoes, <1>2
  <2>4. Tail(t) # <<"disable_student">>
    BY <2>1, RejectGoes, DisableGoes, <1>2
  <2>. QED
    BY <1>1, <1>2, <1>6, <2>1, <2>2, <2>3, <2>4, RejectGoes
<1>. QED
  BY <1>3, <1>4, <1>5, <1>6 DEF DecisionRest

\* A decision about a student whom the step does not touch.
LEMMA DeskSpared ==
  ASSUME DeskInv, NEW d \in Desk, call'[d] = call[d],
         call[d] # NoCall =>
           LET u == call[d].user IN
             /\ Lives(u, "approved")' => Lives(u, "approved")
             /\ SignsIn(u)' <=> SignsIn(u)
             /\ identity[u] # None => identity'[u] # None
             /\ identity[u] # None /\ identity[u].student => identity'[u].student
             /\ AllRevoked(u) => AllRevoked(u)'
  PROVE  DeskHolds(d)'
<1>1. PICK owner \in [User -> Nis \cup {None}] : AccountsHold(owner)
  BY DEF DeskInv, AccountsInv
<1>2. PICK c \in CallRecord : c = call[d] /\ c = call'[d]
  BY <1>1, StoresTyped DEF Handler
<1>3. CASE c = NoCall
  <2>1. c.todo \notin DecisionRest
    BY <1>3, NoCallIsOne, DecisionHeads
  <2>2. /\ ActivateRest \in DecisionRest /\ PublishRest \in DecisionRest
        /\ DisableRest \subseteq DecisionRest /\ RejectRest \subseteq DecisionRest
        /\ DisabledRest \subseteq DecisionRest /\ DeletedRest \subseteq DecisionRest
        /\ <<"disable_student">> \in DecisionRest
        /\ <<"reject_student", "tellRejected">> \in DecisionRest
    BY DEF DecisionRest, ApproveRest, DisableRest, RejectRest, DisabledRest, DeletedRest
  <2>. QED
    BY <1>2, <2>1, <2>2 DEF DeskHolds
<1>4. CASE c # NoCall
  <2>1. DeskHolds(d)
    BY DEF DeskInv
  <2>2. /\ Lives(c.user, "approved")' => Lives(c.user, "approved")
        /\ SignsIn(c.user)' <=> SignsIn(c.user)
        /\ identity[c.user] # None => identity'[c.user] # None
        /\ identity[c.user] # None /\ identity[c.user].student => identity'[c.user].student
        /\ AllRevoked(c.user) => AllRevoked(c.user)'
    BY <1>2, <1>4
  <2>. QED
    BY <1>2, <2>1, <2>2 DEF DeskHolds
<1>. QED
  BY <1>3, <1>4

\* A call that an administrator has under way is about a user.
LEMMA DeskHasUser ==
  ASSUME DeskInv, NEW d \in Desk, call[d] # NoCall
  PROVE  call[d].user \in User
<1>1. PICK owner \in [User -> Nis \cup {None}] : AccountsHold(owner)
  BY DEF DeskInv, AccountsInv
<1>2. PICK c \in CallRecord : c = call[d]
  BY <1>1, StoresTyped DEF Handler
<1>3. DecisionHolds(c) /\ c.user \in User \cup {None}
  BY <1>1, <1>2, CallsHaveSteps, AccountsAssumption, ZenonT(60) DEF Handler
<1>. QED
  BY <1>2, <1>3 DEF DecisionHolds

\* Nobody is approved, let in or given a token by the step, and no end of an
\* access is audited.
Quiet ==
  /\ \A u \in User : Lives(u, "approved")' => Lives(u, "approved")
  /\ \A u \in User : SignsIn(u)' <=> SignsIn(u)
  /\ \A u \in User : identity[u] # None =>
       identity'[u] # None /\ (identity[u].student => identity'[u].student)
  /\ token' = token /\ now' \in Second /\ now <= now'
  /\ \A u \in User : cutoff[u] \subseteq cutoff'[u]
  /\ \A a \in {"disable_student", "reject_student"}, u \in User, s \in Second :
       <<a, u, s>> \in log' => <<a, u, s>> \in log

\* A quiet step keeps the invariant if it keeps it of the decision it is of.
LEMMA QuietStep ==
  ASSUME DeskInv, AccountsInv', Quiet,
         \A d \in Desk : call'[d] = call[d] \/ DeskHolds(d)'
  PROVE  DeskInv'
<1>1. PICK owner \in [User -> Nis \cup {None}] : AccountsHold(owner)
  BY DEF DeskInv, AccountsInv
<1>2. Second \subseteq Nat /\ now \in Second
  BY <1>1, StoresTyped, AccountsAssumption DEF Second
<1>3. ApprovedIdentityServes'
  <2>1. ASSUME NEW u \in User, Lives(u, "approved")'
        PROVE  identity'[u] # None /\ ~identity'[u].suspended /\ identity'[u].student
    <3>1. identity[u] # None /\ ~identity[u].suspended /\ identity[u].student
      BY <2>1 DEF Quiet, DeskInv, ApprovedIdentityServes
    <3>2. SignsIn(u)'
      BY <3>1 DEF Quiet, SignsIn
    <3>. QED
      BY <3>1, <3>2 DEF Quiet, SignsIn
  <2>. QED
    BY <2>1 DEF ApprovedIdentityServes
<1>4. \A u \in User, t \in Second : Revoked(u, t) => Revoked(u, t)'
  BY DEF Quiet, Revoked
<1>5. TokensHold'
  <2>1. \A u \in User, t \in Second : <<u, t>> \in token' => t <= now'
    <3>1. \A u \in User, t \in Second : <<u, t>> \in token => t <= now
      BY DEF DeskInv, TokensHold
    <3>. QED
      BY <1>2, <3>1 DEF Quiet
  <2>2. ASSUME NEW a \in {"disable_student", "reject_student"}, NEW u \in User, NEW s \in Second,
               <<a, u, s>> \in log'
        PROVE  s <= now' /\ \A t \in Second : t < s /\ <<u, t>> \in token' => Revoked(u, t)'
    <3>1. <<a, u, s>> \in log
      BY <2>2 DEF Quiet
    <3>2. s <= now /\ \A t \in Second : t < s /\ <<u, t>> \in token => Revoked(u, t)
      BY <3>1 DEF DeskInv, TokensHold
    <3>. QED
      BY <1>2, <1>4, <3>2 DEF Quiet
  <2>. QED
    BY <2>1, <2>2 DEF TokensHold
<1>6. ASSUME NEW d \in Desk, call'[d] = call[d]
      PROVE  DeskHolds(d)'
  <2>1. ASSUME call[d] # NoCall, NEW u, u = call[d].user
        PROVE  /\ Lives(u, "approved")' => Lives(u, "approved")
               /\ SignsIn(u)' <=> SignsIn(u)
               /\ identity[u] # None => identity'[u] # None
               /\ identity[u] # None /\ identity[u].student => identity'[u].student
               /\ AllRevoked(u) => AllRevoked(u)'
    <3>1. u \in User
      BY <2>1, DeskHasUser
    <3>2. AllRevoked(u) => AllRevoked(u)'
      BY <1>4, <3>1 DEF AllRevoked, Quiet
    <3>. QED
      BY <3>1, <3>2 DEF Quiet
  <2>. QED
    BY <1>6, <2>1, DeskSpared
<1>. QED
  BY <1>3, <1>5, <1>6 DEF DeskInv

\* Nothing rests on a decision that is over.
LEMMA DeskRests ==
  ASSUME NEW d \in Desk, call'[d] = NoCall
  PROVE  DeskHolds(d)'
<1>1. NoCall.todo \notin DecisionRest
  BY NoCallIsOne, DecisionHeads
<1>2. /\ ActivateRest \in DecisionRest /\ PublishRest \in DecisionRest
      /\ DisableRest \subseteq DecisionRest /\ RejectRest \subseteq DecisionRest
      /\ DisabledRest \subseteq DecisionRest /\ DeletedRest \subseteq DecisionRest
      /\ <<"disable_student">> \in DecisionRest
      /\ <<"reject_student", "tellRejected">> \in DecisionRest
  BY DEF DecisionRest, ApproveRest, DisableRest, RejectRest, DisabledRest, DeletedRest
<1>. QED
  BY <1>1, <1>2 DEF DeskHolds

\* A decision that goes on holds at its next step, if its own step did what that
\* one rests on.
LEMMA DeskGoesOn ==
  ASSUME DeskInv, NEW h \in Desk, call[h] # NoCall, GoesOn(h),
         NEW u \in User, u = call[h].user, NEW step, step = Head(call[h].todo),
         Lives(u, "approved")' => Lives(u, "approved") \/ step = "approved",
         step \in {"rejected", "disabled"} => ~Lives(u, "approved")',
         step = "assignRole" => identity'[u] # None /\ identity'[u].student,
         step = "activate" => SignsIn(u)' /\ identity'[u].student,
         step \in {"suspend", "deleteUser"} => ~SignsIn(u)',
         SignsIn(u)' => SignsIn(u) \/ step = "activate",
         step = "cutoff" => AllRevoked(u)'
  PROVE  DeskHolds(h)'
<1>1. PICK owner \in [User -> Nis \cup {None}] : AccountsHold(owner)
  BY DEF DeskInv, AccountsInv
<1>2. PICK c \in CallRecord : c = call[h]
  BY <1>1, StoresTyped DEF Handler
<1>3. c.todo \in DecisionRest /\ c.todo # <<>>
  BY <1>1, <1>2, CallsHaveSteps, AccountsAssumption DEF Handler, DecisionHolds
<1>4. \/ call'[h] = NoCall
      \/ /\ Len(c.todo) # 1 /\ call'[h].todo = Tail(c.todo) /\ call'[h].user = u
  <2>1. call \in [Handler -> CallRecord] /\ GoesOnAs(h, c)
    BY <1>1, <1>2, StoresTyped DEF GoesOn
  <2>. QED
    BY <1>2, <1>3, <2>1, GoesOnSets DEF Handler
<1>5. CASE call'[h] = NoCall
  BY <1>5, DeskRests
<1>6. CASE call'[h] # NoCall
  <2>1. PICK t \in DecisionRest : t = c.todo /\ Len(t) # 1 /\ step = Head(t)
    BY <1>2, <1>3, <1>4, <1>6
  <2>2. /\ t \in (DisableRest \ {DisableSteps}) \cup RejectRest /\ step # "rejected" =>
             ~Lives(u, "approved")
        /\ t \in DisabledRest \cup DeletedRest => ~SignsIn(u)
    BY <1>2, <2>1 DEF DeskInv, DeskHolds
  <2>3. Tail(t) \in {ActivateRest, PublishRest} => identity'[u] # None /\ identity'[u].student
    BY <2>1, DecisionGoes DEF SignsIn
  <2>4. Tail(t) = PublishRest => SignsIn(u)'
    BY <2>1, DecisionGoes
  <2>5. Tail(t) \in (DisableRest \ {DisableSteps}) \cup RejectRest => ~Lives(u, "approved")'
    BY <2>1, <2>2, DecisionGoes
  <2>6. Tail(t) \in DisabledRest \cup DeletedRest => ~SignsIn(u)'
    BY <2>1, <2>2, DecisionGoes
  <2>7. Tail(t) \in {<<"disable_student">>, <<"reject_student", "tellRejected">>} => AllRevoked(u)'
    BY <2>1, DecisionGoes
  <2>. QED
    BY <1>4, <1>6, <2>1, <2>3, <2>4, <2>5, <2>6, <2>7 DEF DeskHolds
<1>. QED
  BY <1>5, <1>6

\* No two calls of administrators that are under way are about one student.
DecisionsApart ==
  \A d, e \in Desk :
    call[d] # NoCall /\ call[e] # NoCall /\ call[d].user = call[e].user => d = e

\* A step of one such call that changes the profile and the user of its own
\* student only, and the tokens and cutoffs of none.
LEMMA OthersSpared ==
  ASSUME DeskInv, DecisionsApart, NEW h \in Desk, call[h] # NoCall, GoesOn(h), DeskHolds(h)',
         \A v \in User \ {call[h].user} :
           /\ Lives(v, "approved")' <=> Lives(v, "approved")
           /\ identity'[v] = identity[v],
         UNCHANGED <<token, cutoff>>
  PROVE  \A d \in Desk : DeskHolds(d)'
<1> SUFFICES ASSUME NEW d \in Desk, d # h PROVE DeskHolds(d)'
  OBVIOUS
<1>1. PICK owner \in [User -> Nis \cup {None}] : AccountsHold(owner)
  BY DEF DeskInv, AccountsInv
<1>2. call'[d] = call[d]
  BY <1>1, StoresTyped DEF GoesOn, GoesOnAs, Handler
<1>3. ASSUME call[d] # NoCall, NEW u, u = call[d].user
      PROVE  /\ Lives(u, "approved")' => Lives(u, "approved")
             /\ SignsIn(u)' <=> SignsIn(u)
             /\ identity'[u] = identity[u]
             /\ AllRevoked(u) => AllRevoked(u)'
  <2>1. u \in User \ {call[h].user}
    BY <1>3, DeskHasUser DEF DecisionsApart
  <2>. QED
    BY <2>1 DEF SignsIn, AllRevoked, Revoked
<1>. QED
  BY <1>2, <1>3, DeskSpared

\* A decision that is refused or breaks off changes nothing.
LEMMA DeskEnds ==
  ASSUME DeskInv, AccountsInv', NEW h \in Handler, Ends(h), UNCHANGED <<store, identity, token, now>>
  PROVE  DeskInv'
<1>1. PICK owner \in [User -> Nis \cup {None}] : AccountsHold(owner)
  BY DEF DeskInv, AccountsInv
<1>2. Quiet
  <2>1. now \in Second /\ now <= now
    BY <1>1, StoresTyped, AccountsAssumption DEF Second
  <2>. QED
    BY <2>1 DEF Quiet, Lives, SignsIn, store
<1>3. /\ \A d \in Desk \ {h} : call'[d] = call[d]
      /\ h \in Desk => call'[h] = NoCall
  BY <1>1, StoresTyped DEF Ends, Handler
<1>4. \A d \in Desk : call'[d] = call[d] \/ DeskHolds(d)'
  BY <1>3, DeskRests
<1>. QED
  BY <1>2, <1>4, QuietStep

\* The steps of the public handlers approve nobody, and let nobody in.
LEMMA ClientMoves ==
  ASSUME DeskInv, AccountsInv', NEW h \in Client, HandlerStep(h)
  PROVE  DeskInv'
<1>1. PICK owner \in [User -> Nis \cup {None}] : AccountsHold(owner)
  BY DEF DeskInv, AccountsInv
<1>2. h \in Handler /\ h \notin Desk /\ call \in [Handler -> CallRecord]
  BY <1>1, StoresTyped, AccountsAssumption DEF Handler
<1>3. \A d \in Desk : call'[d] = call[d]
  BY <1>2 DEF HandlerStep, CreateIdentity, ChangeIdentity, DeleteUser, CreateProfile, UpdateProfile,
     Bind, Unbind, RevokeSessions, CreateCode, UpdatePassword, MarkCodeUsed, WriteAudit, Tell,
     Ends, GoesOn, GoesOnAs, Handler
<1>4. now \in Second /\ now <= now
  BY <1>1, StoresTyped, AccountsAssumption DEF Second
<1> SUFFICES Quiet
  BY <1>3, QuietStep
<1>5. ASSUME NEW step \in {"approved", "rejected", "disabled", "clearNis", "unbind", "activate",
                           "suspend", "deleteUser", "createCode"}
      PROVE  ~At(h, step)
  BY <1>1, <1>2, HeadsTell
<1>6. ASSUME NEW a \in Happening, At(h, a)
      PROVE  a \notin {"disable_student", "reject_student"}
  <2>1. /\ SignupHolds(call[h], owner) \/ ResetHolds(call[h])
        /\ Head(call[h].todo) = a
    BY <1>1, <1>2, <1>6, HeadsTell, CallsHaveSteps
  <2>. QED
    BY <2>1, SignupGoes, ResetGoes DEF SignupHolds, ResetHolds
<1>7. ASSUME NEW u \in User, CreateIdentity(h, u)
      PROVE  Quiet
  <2>1. UNCHANGED <<store, token, now, failures>>
    BY <1>7 DEF CreateIdentity
  <2>2. \/ UNCHANGED identity
        \/ \E row : /\ identity[u] = None /\ identity' = [identity EXCEPT ![u] = row]
                    /\ row.suspended
    <3>1. PICK yes \in BOOLEAN, no \in BOOLEAN : yes = TRUE /\ no = FALSE
      OBVIOUS
    <3>2. \/ UNCHANGED identity
          \/ /\ identity[u] = None
             /\ identity' = [identity EXCEPT ![u] =
                  [email |-> call[h].email, nis |-> call[h].nis, suspended |-> yes, student |-> no]]
      BY <1>7, <3>1 DEF CreateIdentity
    <3>3. [email |-> call[h].email, nis |-> call[h].nis, suspended |-> yes, student |-> no].suspended
      BY <3>1
    <3>. QED
      BY <3>2, <3>3
  <2>3. \A v \in User : SignsIn(v)' <=> SignsIn(v)
    BY <1>1, <2>2, StoresTyped DEF SignsIn
  <2>4. \A v \in User : identity[v] # None =>
          identity'[v] # None /\ (identity[v].student => identity'[v].student)
    BY <1>1, <2>2, StoresTyped
  <2>. QED
    BY <1>4, <2>1, <2>3, <2>4 DEF Quiet, Lives, store
<1>8. CASE ChangeIdentity(h)
  <2>1. UNCHANGED <<store, token, now, failures>>
    BY <1>8 DEF ChangeIdentity
  <2>2. \/ UNCHANGED identity
        \/ /\ identity[call[h].user] # None /\ At(h, "assignRole")
           /\ identity' = [identity EXCEPT ![call[h].user].student = TRUE]
    BY <1>5, <1>8 DEF ChangeIdentity
  <2>3. CASE UNCHANGED identity
    BY <1>4, <2>1, <2>3 DEF Quiet, Lives, SignsIn, store
  <2>4. CASE identity' # identity
    <3>1. PICK u \in User : u = call[h].user
      BY <1>1, <1>2, <2>2, <2>4, HeadsTell
    <3>2. PICK r \in IdentityRow : r = identity[u]
      BY <1>1, <2>2, <2>4, <3>1, StoresTyped
    <3>3. PICK row \in IdentityRow : /\ row.suspended <=> r.suspended
                                     /\ row.student
                                     /\ identity' = [identity EXCEPT ![u] = row]
      <4>1. PICK yes \in BOOLEAN : yes = TRUE
        OBVIOUS
      <4>2. identity' = [identity EXCEPT ![u] = [r EXCEPT !.student = yes]]
        BY <1>1, <2>2, <2>4, <3>1, <3>2, <4>1, StoresTyped
      <4>3. /\ [r EXCEPT !.student = yes] \in IdentityRow
            /\ [r EXCEPT !.student = yes].suspended = r.suspended
            /\ [r EXCEPT !.student = yes].student = yes
        BY <3>2, <4>1 DEF IdentityRow
      <4>. QED
        BY <4>1, <4>2, <4>3
    <3>4. row # None /\ identity'[u] = row /\ \A v \in User \ {u} : identity'[v] = identity[v]
      BY <1>1, <3>1, <3>3, StoresTyped, AccountsNullAssumption
    <3>5. \A v \in User : SignsIn(v)' <=> SignsIn(v)
      BY <2>2, <2>4, <3>1, <3>2, <3>3, <3>4 DEF SignsIn
    <3>. QED
      BY <1>4, <2>1, <3>3, <3>4, <3>5 DEF Quiet, Lives, store
  <2>. QED
    BY <2>3, <2>4
<1>9. CASE CreateProfile(h)
  <2>1. UNCHANGED <<binding, cutoff, code, log, identity, token, now, failures>>
    BY <1>9 DEF CreateProfile
  <2>2. \A u \in User : Lives(u, "approved")' => Lives(u, "approved")
    <3>1. \/ profile' = profile
          \/ profile' = [profile EXCEPT ![call[h].user] =
               [life |-> "pending", nis |-> call[h].nis, email |-> call[h].email]]
      BY <1>9 DEF CreateProfile
    <3>. QED
      BY <1>1, <3>1, StoresTyped DEF Lives
  <2>. QED
    BY <1>4, <2>1, <2>2 DEF Quiet, SignsIn
<1>10. CASE RevokeSessions(h)
  <2>1. /\ UNCHANGED <<profile, binding, code, log, identity, token, now, failures>>
        /\ cutoff' = [cutoff EXCEPT ![call[h].user] = @ \cup {now}]
    BY <1>10 DEF RevokeSessions
  <2>2. \A u \in User : cutoff[u] \subseteq cutoff'[u]
    BY <1>1, <2>1, StoresTyped
  <2>. QED
    BY <1>4, <2>1, <2>2 DEF Quiet, SignsIn, Lives
<1>11. CASE WriteAudit(h)
  <2>1. UNCHANGED <<profile, binding, cutoff, code, identity, token, now, failures>>
    BY <1>11 DEF WriteAudit
  <2>2. PICK a \in Happening : /\ At(h, a)
                               /\ log' \subseteq log \cup {<<a, call[h].user, now>>}
    BY <1>11 DEF WriteAudit
  <2>3. \A b \in {"disable_student", "reject_student"}, u \in User, s \in Second :
          <<b, u, s>> \in log' => <<b, u, s>> \in log
    BY <1>6, <2>2
  <2>. QED
    BY <1>4, <2>1, <2>3 DEF Quiet, SignsIn, Lives
<1>12. CASE Bind(h) \/ UpdatePassword(h) \/ MarkCodeUsed(h) \/ Tell(h)
  <2>1. UNCHANGED <<profile, cutoff, log, identity, token, now>>
    BY <1>12 DEF Bind, UpdatePassword, MarkCodeUsed, Tell, store
  <2>. QED
    BY <1>4, <2>1 DEF Quiet, SignsIn, Lives
<1>13. ~DeleteUser(h) /\ ~UpdateProfile(h) /\ ~Unbind(h) /\ \A c \in Code : ~CreateCode(h, c)
  BY <1>5 DEF DeleteUser, UpdateProfile, Unbind, CreateCode
<1>. QED
  BY <1>7, <1>8, <1>9, <1>10, <1>11, <1>12, <1>13 DEF HandlerStep

\* A user that is changed or deleted by a decision is the one decided about.
LEMMA DeskChangesUser ==
  ASSUME DecisionsApart, DeskInv, AccountsInv', NEW h \in Desk, ChangeIdentity(h) \/ DeleteUser(h)
  PROVE  DeskInv'
<1>1. PICK owner \in [User -> Nis \cup {None}] : AccountsHold(owner)
  BY DEF DeskInv, AccountsInv
<1>2. /\ h \in Handler /\ UNCHANGED <<store, token, now, failures>>
      /\ identity \in [User -> IdentityRow \cup {None}]
  BY <1>1, StoresTyped DEF Handler, ChangeIdentity, DeleteUser
<1>3. CASE Ends(h) /\ UNCHANGED identity
  BY <1>2, <1>3, DeskEnds
<1>4. CASE ~(Ends(h) /\ UNCHANGED identity)
  <2>1. PICK yes \in BOOLEAN, no \in BOOLEAN : yes = TRUE /\ no = FALSE
    OBVIOUS
  <2>2. PICK step \in {"assignRole", "activate", "suspend", "deleteUser"} :
        /\ At(h, step) /\ GoesOn(h)
        /\ step # "deleteUser" => identity[call[h].user] # None
        /\ step = "assignRole" => identity' = [identity EXCEPT ![call[h].user].student = yes]
        /\ step = "activate" => identity' = [identity EXCEPT ![call[h].user].suspended = no]
        /\ step = "suspend" => identity' = [identity EXCEPT ![call[h].user].suspended = yes]
        /\ step = "deleteUser" => identity' = [identity EXCEPT ![call[h].user] = None]
    BY <1>4, <2>1 DEF ChangeIdentity, DeleteUser
  <2>3. PICK u \in User : u = call[h].user
    BY <1>1, <1>2, <2>2, HeadsTell
  <2>4. /\ call[h] # NoCall /\ Head(call[h].todo) = step /\ call[h].todo \in DecisionRest
    BY <1>1, <1>2, <2>2, HeadsTell, CallsHaveSteps, AccountsAssumption DEF DecisionHolds
  <2>5. \A v \in User \ {u} : identity'[v] = identity[v]
    BY <1>2, <2>2, <2>3
  <2>6. \A v \in User : Lives(v, "approved")' <=> Lives(v, "approved")
    BY <1>2 DEF Lives, store
  <2>7. /\ step = "assignRole" => identity'[u] # None /\ identity'[u].student
        /\ step \in {"activate", "suspend"} =>
             identity'[u] # None /\ (identity'[u].student <=> identity[u].student)
        /\ step = "activate" => SignsIn(u)'
        /\ step \in {"suspend", "deleteUser"} => ~SignsIn(u)'
        /\ step = "assignRole" => (SignsIn(u)' <=> SignsIn(u))
    <3>1. CASE step = "deleteUser"
      BY <1>2, <2>2, <2>3, <3>1 DEF SignsIn
    <3>2. CASE step # "deleteUser"
      <4>1. PICK r \in IdentityRow : r = identity[u]
        BY <1>1, <2>2, <2>3, <3>2, StoresTyped
      <4>2. PICK row \in IdentityRow :
              /\ identity' = [identity EXCEPT ![u] = row]
              /\ step = "assignRole" => row.student = yes /\ row.suspended = r.suspended
              /\ step = "activate" => row.suspended = no /\ row.student = r.student
              /\ step = "suspend" => row.suspended = yes /\ row.student = r.student
        <5>1. \A b \in BOOLEAN : /\ [r EXCEPT !.student = b] \in IdentityRow
                                 /\ [r EXCEPT !.student = b].student = b
                                 /\ [r EXCEPT !.student = b].suspended = r.suspended
                                 /\ [r EXCEPT !.suspended = b] \in IdentityRow
                                 /\ [r EXCEPT !.suspended = b].suspended = b
                                 /\ [r EXCEPT !.suspended = b].student = r.student
          BY <4>1 DEF IdentityRow
        <5>2. /\ step = "assignRole" => identity' = [identity EXCEPT ![u] = [r EXCEPT !.student = yes]]
              /\ step = "activate" => identity' = [identity EXCEPT ![u] = [r EXCEPT !.suspended = no]]
              /\ step = "suspend" => identity' = [identity EXCEPT ![u] = [r EXCEPT !.suspended = yes]]
          BY <1>2, <2>2, <2>3, <4>1
        <5>. QED
          BY <2>1, <2>2, <3>2, <5>1, <5>2
      <4>3. row # None /\ r # None
        BY <4>1, <4>2, AccountsNullAssumption
      <4>4. identity'[u] = row
        BY <1>2, <2>3, <4>2
      <4>5. /\ step = "assignRole" => row.student /\ (row.suspended <=> r.suspended)
            /\ step = "activate" => ~row.suspended /\ (row.student <=> r.student)
            /\ step = "suspend" => row.suspended /\ (row.student <=> r.student)
        BY <2>1, <4>1, <4>2 DEF IdentityRow
      <4>. QED
        BY <2>2, <3>2, <4>1, <4>3, <4>4, <4>5 DEF SignsIn
    <3>. QED
      BY <3>1, <3>2
  <2>8. /\ step = "activate" => identity[u].student
        /\ step \in {"suspend", "deleteUser"} => ~Lives(u, "approved")
    <3>1. DeskHolds(h)
      BY DEF DeskInv
    <3>2. /\ step = "activate" => call[h].todo = ActivateRest
          /\ step \in {"suspend", "deleteUser"} =>
               call[h].todo \in (DisableRest \ {DisableSteps}) \cup RejectRest
      BY <2>4, DecisionHeads
    <3>. QED
      BY <2>3, <2>4, <3>1, <3>2 DEF DeskHolds
  <2>9. DeskHolds(h)'
    BY <2>2, <2>3, <2>4, <2>6, <2>7, <2>8, DeskGoesOn
  <2>10. ApprovedIdentityServes'
    <3>1. ASSUME NEW v \in User, Lives(v, "approved")'
          PROVE  identity'[v] # None /\ ~identity'[v].suspended /\ identity'[v].student
      <4>1. identity[v] # None /\ ~identity[v].suspended /\ identity[v].student
        BY <2>6, <3>1 DEF DeskInv, ApprovedIdentityServes
      <4>2. CASE v = u
        BY <2>2, <2>6, <2>7, <2>8, <3>1, <4>1, <4>2 DEF SignsIn
      <4>3. CASE v # u
        BY <2>5, <4>1, <4>3
      <4>. QED
        BY <4>2, <4>3
    <3>. QED
      BY <3>1 DEF ApprovedIdentityServes
  <2>11. TokensHold'
    BY <1>2 DEF DeskInv, TokensHold, Revoked, store
  <2>12. \A d \in Desk : DeskHolds(d)'
    <3>1. UNCHANGED <<token, cutoff>>
      BY <1>2 DEF store
    <3>. QED
      BY <2>2, <2>3, <2>4, <2>5, <2>6, <2>9, <3>1, OthersSpared
  <2>. QED
    BY <2>10, <2>11, <2>12 DEF DeskInv
<1>. QED
  BY <1>3, <1>4

\* A profile is approved when its user serves; the other lifecycles are quiet.
LEMMA DeskUpdatesProfile ==
  ASSUME DecisionsApart, DeskInv, AccountsInv', NEW h \in Desk, UpdateProfile(h)
  PROVE  DeskInv'
<1>1. PICK owner \in [User -> Nis \cup {None}] : AccountsHold(owner)
  BY DEF DeskInv, AccountsInv
<1>2. /\ h \in Handler /\ GoesOn(h)
      /\ UNCHANGED <<binding, cutoff, code, log, identity, token, now, failures>>
      /\ profile \in [User -> ProfileRow \cup {None}]
  BY <1>1, StoresTyped DEF Handler, UpdateProfile
<1>3. PICK step \in {"approved", "rejected", "disabled", "clearNis"} :
        /\ At(h, step)
        /\ step # "clearNis" => profile' = [profile EXCEPT ![call[h].user].life = step]
        /\ step = "clearNis" => profile' = [profile EXCEPT ![call[h].user].nis = None]
  <2>1. \/ \E life \in {"approved", "rejected", "disabled"} :
             At(h, life) /\ profile' = [profile EXCEPT ![call[h].user].life = life]
        \/ At(h, "clearNis") /\ profile' = [profile EXCEPT ![call[h].user].nis = None]
    BY DEF UpdateProfile
  <2>. QED
    BY <2>1
<1>4. PICK u \in User : u = call[h].user /\ profile[u] # None
  BY <1>1, <1>2, <1>3, HeadsTell
<1>5. call[h] # NoCall /\ Head(call[h].todo) = step /\ call[h].todo \in DecisionRest
  BY <1>1, <1>2, <1>3, HeadsTell
<1>6. PICK r \in ProfileRow : r = profile[u]
  BY <1>1, <1>4, StoresTyped
<1>7. /\ profile'[u] # None /\ \A v \in User \ {u} : profile'[v] = profile[v]
      /\ step # "clearNis" => profile'[u].life = step
      /\ step = "clearNis" => profile'[u].life = r.life
  <2>1. /\ step # "clearNis" => profile' = [profile EXCEPT ![u] = [r EXCEPT !.life = step]]
        /\ step = "clearNis" => profile' = [profile EXCEPT ![u] = [r EXCEPT !.nis = None]]
    BY <1>2, <1>3, <1>4, <1>6
  <2>2. /\ step # "clearNis" => /\ [r EXCEPT !.life = step] \in ProfileRow
                                /\ [r EXCEPT !.life = step].life = step
        /\ [r EXCEPT !.nis = None] \in ProfileRow /\ [r EXCEPT !.nis = None].life = r.life
    BY <1>3, <1>6 DEF ProfileRow
  <2>. QED
    BY <1>2, <2>1, <2>2, AccountsNullAssumption
<1>8. /\ \A v \in User \ {u} : Lives(v, "approved")' <=> Lives(v, "approved")
      /\ Lives(u, "approved")' => Lives(u, "approved") \/ step = "approved"
      /\ step \in {"rejected", "disabled"} => ~Lives(u, "approved")'
  BY <1>3, <1>4, <1>6, <1>7 DEF Lives
<1>9. \A v \in User : SignsIn(v)' <=> SignsIn(v)
  BY <1>2 DEF SignsIn
<1>10. DeskHolds(h)'
  BY <1>2, <1>3, <1>4, <1>5, <1>8, <1>9, DeskGoesOn
<1>11. step = "approved" => SignsIn(u) /\ identity[u].student
  <2>1. DeskHolds(h) /\ (step = "approved" => call[h].todo = PublishRest)
    BY <1>5, DecisionHeads DEF DeskInv
  <2>. QED
    BY <1>4, <2>1 DEF DeskHolds
<1>12. ApprovedIdentityServes'
  <2>1. ASSUME NEW v \in User, Lives(v, "approved")'
        PROVE  identity[v] # None /\ ~identity[v].suspended /\ identity[v].student
    <3>1. Lives(v, "approved") \/ (v = u /\ step = "approved")
      BY <1>8, <2>1
    <3>. QED
      BY <1>11, <3>1 DEF DeskInv, ApprovedIdentityServes, SignsIn
  <2>. QED
    BY <1>2, <2>1 DEF ApprovedIdentityServes
<1>13. TokensHold'
  BY <1>2 DEF DeskInv, TokensHold, Revoked
<1>14. \A d \in Desk : DeskHolds(d)'
  BY <1>2, <1>4, <1>5, <1>8, <1>10, OthersSpared
<1>. QED
  BY <1>12, <1>13, <1>14 DEF DeskInv

\* The other steps of a decision: they unbind, revoke, make a code, tell, or
\* audit what is done.
LEMMA DeskMovesOn ==
  ASSUME DecisionsApart, DeskInv, AccountsInv', NEW h \in Desk,
         \/ Unbind(h) \/ RevokeSessions(h) \/ WriteAudit(h) \/ Tell(h)
         \/ \E c \in Code : CreateCode(h, c)
  PROVE  DeskInv'
<1>1. PICK owner \in [User -> Nis \cup {None}] : AccountsHold(owner)
  BY DEF DeskInv, AccountsInv
<1>2. /\ h \in Handler /\ GoesOn(h) /\ UNCHANGED <<profile, identity, token, now>>
      /\ cutoff \in [User -> SUBSET Second] /\ token \subseteq User \X Second
  BY <1>1, StoresTyped DEF Handler, Unbind, RevokeSessions, WriteAudit, Tell, CreateCode, store
<1>3. PICK step : /\ At(h, step)
                  /\ step \in {"unbind", "cutoff", "createCode", "tellApproved", "tellRejected",
                               "tellCode"} \cup Happening
  BY DEF Unbind, RevokeSessions, WriteAudit, Tell, CreateCode
<1>4. /\ call[h] # NoCall /\ Head(call[h].todo) = step
      /\ step \notin {"approved", "activate", "rejected", "disabled", "assignRole", "suspend",
                      "deleteUser", "createIdentity"}
  BY <1>1, <1>2, <1>3, HeadsTell DEF Happening
<1>5. PICK u \in User : u = call[h].user
  BY <1>1, <1>2, <1>3, <1>4, HeadsTell
<1>6. call[h].todo \in DecisionRest
  BY <1>1, <1>2, <1>4, CallsHaveSteps, AccountsAssumption DEF DecisionHolds
<1>7. now \in Second /\ now <= now /\ \A t \in Second : <<u, t>> \in token => t <= now
  BY <1>1, StoresTyped, AccountsAssumption DEF Second, DeskInv, TokensHold
<1>8. \/ cutoff' = cutoff
      \/ step = "cutoff" /\ cutoff' = [cutoff EXCEPT ![u] = @ \cup {now}]
  BY <1>4, <1>5 DEF Unbind, RevokeSessions, WriteAudit, Tell, CreateCode, At, store
<1>9. \A v \in User : cutoff[v] \subseteq cutoff'[v]
  BY <1>2, <1>8
<1>10. step = "cutoff" => now \in cutoff'[u]
  BY <1>2, <1>4, <1>5, <1>8 DEF Unbind, RevokeSessions, WriteAudit, Tell, CreateCode, At, Happening
<1>11. step = "cutoff" => AllRevoked(u)'
  BY <1>2, <1>7, <1>10 DEF AllRevoked, Revoked
<1>12. \A v \in User : /\ Lives(v, "approved")' <=> Lives(v, "approved")
                       /\ SignsIn(v)' <=> SignsIn(v)
  BY <1>2 DEF Lives, SignsIn
<1>13. DeskHolds(h)'
  BY <1>2, <1>4, <1>5, <1>11, <1>12, DeskGoesOn
<1>14. CASE step \notin {"disable_student", "reject_student"}
  <2>1. \A a \in {"disable_student", "reject_student"}, v \in User, s \in Second :
          <<a, v, s>> \in log' => <<a, v, s>> \in log
    BY <1>4, <1>14 DEF Unbind, RevokeSessions, WriteAudit, Tell, CreateCode, At, store
  <2>2. Quiet
    BY <1>2, <1>7, <1>9, <1>12, <2>1 DEF Quiet
  <2>. QED
    <3>1. \A d \in Desk \ {h} : call'[d] = call[d]
      BY <1>1, <1>2, StoresTyped DEF GoesOn, GoesOnAs, Handler
    <3>. QED
      BY <1>13, <2>2, <3>1, QuietStep
<1>15. CASE step \in {"disable_student", "reject_student"}
  <2>1. call[h].todo \in {<<"disable_student">>, <<"reject_student", "tellRejected">>}
    BY <1>4, <1>6, <1>15, DecisionHeads
  <2>2. AllRevoked(u)
    BY <1>5, <2>1 DEF DeskInv, DeskHolds
  <2>3. cutoff' = cutoff
    BY <1>8, <1>15
  <2>4. log' \subseteq log \cup {<<step, u, now>>}
    BY <1>4, <1>5, <1>15 DEF Unbind, RevokeSessions, WriteAudit, Tell, CreateCode, At, store
  <2>5. ASSUME NEW a \in {"disable_student", "reject_student"}, NEW v \in User, NEW s \in Second,
               <<a, v, s>> \in log'
        PROVE  s <= now /\ \A t \in Second : t < s /\ <<v, t>> \in token => Revoked(v, t)
    <3>1. CASE <<a, v, s>> \in log
      BY <3>1 DEF DeskInv, TokensHold
    <3>2. CASE v = u /\ s = now
      BY <1>7, <2>2, <3>2 DEF AllRevoked
    <3>. QED
      BY <2>4, <2>5, <3>1, <3>2
  <2>6. TokensHold'
    <3>1. \A v \in User, t \in Second : <<v, t>> \in token => t <= now
      BY DEF DeskInv, TokensHold
    <3>2. \A v \in User, t \in Second : Revoked(v, t)' <=> Revoked(v, t)
      BY <2>3 DEF Revoked
    <3>. QED
      BY <1>2, <2>5, <3>1, <3>2 DEF TokensHold
  <2>7. ApprovedIdentityServes'
    BY <1>2 DEF DeskInv, ApprovedIdentityServes, Lives
  <2>8. \A d \in Desk : DeskHolds(d)'
    BY <1>2, <1>4, <1>12, <1>13, <2>3, OthersSpared
  <2>. QED
    BY <2>6, <2>7, <2>8 DEF DeskInv
<1>. QED
  BY <1>14, <1>15

\* A decision begins with nothing done, and so does whatever a client asks for.
LEMMA CallsBeginQuietly ==
  ASSUME DeskInv, AccountsInv', NEW h \in Handler,
         (h \in Client /\ ClientStarts(h)) \/ (h \in Desk /\ DeskStarts(h))
  PROVE  DeskInv'
<1>1. PICK owner \in [User -> Nis \cup {None}] : AccountsHold(owner)
  BY DEF DeskInv, AccountsInv
<1>2. PICK c : Starts(h, c)
  <2>1. ASSUME NEW n \in Nis, NEW e \in Email, RegisterStudent(h, n, e)
        PROVE  \E c : Starts(h, c)
    BY <2>1, Zenon DEF RegisterStudent
  <2>2. ASSUME NEW k \in Code, ResetStudentPassword(h, k)
        PROVE  \E c : Starts(h, c)
    BY <2>2, Zenon DEF ResetStudentPassword
  <2>3. ASSUME NEW u \in User, DecideStudent(h, u)
        PROVE  \E c : Starts(h, c)
    BY <2>3, Zenon DEF DecideStudent
  <2>4. ASSUME NEW u \in User, GenerateResetCode(h, u)
        PROVE  \E c : Starts(h, c)
    BY <2>4, Zenon DEF GenerateResetCode
  <2>. QED
    BY <2>1, <2>2, <2>3, <2>4, Zenon DEF ClientStarts, DeskStarts
<1>3. /\ UNCHANGED <<store, identity, token, now>>
      /\ \A g \in Handler \ {h} : call'[g] = call[g]
      /\ call \in [Handler -> CallRecord] /\ now \in Second /\ now <= now
  BY <1>1, <1>2, StoresTyped, AccountsAssumption DEF Starts, Second
<1>4. Quiet
  BY <1>3 DEF Quiet, Lives, SignsIn, store
<1>5. ASSUME h \in Desk
      PROVE  DeskHolds(h)'
  <2>1. PICK u \in User : DecideStudent(h, u) \/ GenerateResetCode(h, u)
    BY <1>5, AccountsAssumption DEF DeskStarts
  <2>2. PICK t : /\ t \in {ApproveSteps, DisableSteps, CodeSteps, RejectSteps(profile[u].nis)}
                 /\ call'[h].todo = t
    <3>1. ASSUME NEW t, NEW n, call' = [call EXCEPT ![h] = [NoCall EXCEPT !.todo = t, !.user = u,
                                                                         !.nis = n]]
          PROVE  call'[h].todo = t
      <4>1. [NoCall EXCEPT !.todo = t, !.user = u, !.nis = n].todo = t
        BY DEF NoCall
      <4>. QED
        BY <1>3, <3>1, <4>1
    <3>2. ASSUME NEW t, call' = [call EXCEPT ![h] = [NoCall EXCEPT !.todo = t, !.user = u]]
          PROVE  call'[h].todo = t
      <4>1. [NoCall EXCEPT !.todo = t, !.user = u].todo = t
        BY DEF NoCall
      <4>. QED
        BY <1>3, <3>2, <4>1
    <3>3. ASSUME DecideStudent(h, u)
          PROVE  \/ \E t \in {ApproveSteps, DisableSteps} :
                      call' = [call EXCEPT ![h] = [NoCall EXCEPT !.todo = t, !.user = u]]
                 \/ call' = [call EXCEPT ![h] = [NoCall EXCEPT !.todo = RejectSteps(profile[u].nis),
                                                 !.user = u, !.nis = profile[u].nis]]
      BY <3>3, Zenon DEF DecideStudent, Starts
    <3>4. ASSUME GenerateResetCode(h, u)
          PROVE  call' = [call EXCEPT ![h] = [NoCall EXCEPT !.todo = CodeSteps, !.user = u]]
      BY <3>4, Zenon DEF GenerateResetCode, Starts
    <3>. QED
      BY <2>1, <3>1, <3>2, <3>3, <3>4, Zenon
  <2>3. /\ t \notin {ActivateRest, PublishRest} /\ t \notin DisableRest \ {DisableSteps}
        /\ t \in RejectRest => Head(t) = "rejected"
    <3>1. Head(ApproveSteps) = "assignRole" /\ Head(DisableSteps) = "disabled"
          /\ Head(CodeSteps) = "createCode" /\ Head(ActivateRest) = "activate"
          /\ Head(PublishRest) = "approved" /\ Head(RejectSteps(profile[u].nis)) = "rejected"
      BY RejectBegins DEF ApproveSteps, DisableSteps, CodeSteps, ActivateRest, PublishRest
    <3>2. Head(t) \in {"assignRole", "createCode", "disabled", "rejected"}
      BY <2>2, <3>1
    <3>3. t \in DisableRest => Head(t) \notin {"assignRole", "createCode", "rejected"}
      BY DisableGoes
    <3>4. t \in DisableRest /\ Head(t) = "disabled" => t = DisableSteps
      BY DisableGoes
    <3>5. t \in RejectRest => Head(t) \notin {"assignRole", "createCode", "disabled"}
      BY RejectGoes
    <3>6. t \notin {ActivateRest, PublishRest}
      BY <3>1, <3>2
    <3>. QED
      BY <3>2, <3>3, <3>4, <3>5, <3>6
  <2>4. t \notin DisabledRest \cup DeletedRest
    <3>1. t \in DisabledRest => t \in DisableRest \ {DisableSteps}
      <4>1. DisableSteps \notin DisabledRest
        BY DEF DisableSteps, DisabledRest
      <4>. QED
        BY <4>1 DEF DisableRest
    <3>2. t \in DeletedRest => t \in RejectRest
      BY DEF RejectRest
    <3>3. t \in DeletedRest => Head(t) # "rejected"
      BY <3>2, RejectGoes
    <3>. QED
      BY <2>3, <3>1, <3>2, <3>3
  <2>5. t \notin {<<"disable_student">>, <<"reject_student", "tellRejected">>}
    <3>1. <<"disable_student">> \in DisabledRest
      BY DEF DisabledRest
    <3>2. <<"reject_student", "tellRejected">> \in DeletedRest
      BY DEF DeletedRest
    <3>. QED
      BY <2>4, <3>1, <3>2
  <2>. QED
    BY <2>2, <2>3, <2>4, <2>5 DEF DeskHolds
<1>. QED
  BY <1>3, <1>4, <1>5, QuietStep DEF Handler

\* The provider opens sessions only for whom it has not suspended, which no
\* decision that has withdrawn an access has left so.
LEMMA SurroundingsKeepDesk ==
  ASSUME DeskInv, AccountsInv',
         (\E u \in User : SignIn(u)) \/ (\E c \in Code : CodeExpires(c)) \/ Tick
  PROVE  DeskInv'
<1>1. PICK owner \in [User -> Nis \cup {None}] : AccountsHold(owner)
  BY DEF DeskInv, AccountsInv
<1>2. now \in Second /\ now <= now /\ Second \subseteq Nat
  BY <1>1, StoresTyped, AccountsAssumption DEF Second
<1>3. CASE (\E c \in Code : CodeExpires(c)) \/ Tick
  <2>1. UNCHANGED <<profile, cutoff, log, identity, token, call>>
    BY <1>3 DEF CodeExpires, Tick, store
  <2>2. now' \in Second /\ now <= now'
    BY <1>2, <1>3, AccountsAssumption DEF CodeExpires, Tick, Second
  <2>3. Quiet
    BY <2>1, <2>2 DEF Quiet, Lives, SignsIn
  <2>. QED
    BY <2>1, <2>3, QuietStep
<1>4. ASSUME NEW u \in User, SignIn(u)
      PROVE  DeskInv'
  <2>1. /\ SignsIn(u) /\ token' = token \cup {<<u, now>>}
        /\ UNCHANGED <<store, identity, now, call>>
    BY <1>4 DEF SignIn, SignsIn
  <2>2. \A v \in User : /\ SignsIn(v)' <=> SignsIn(v)
                        /\ Lives(v, "approved")' <=> Lives(v, "approved")
                        /\ \A t \in Second : Revoked(v, t)' <=> Revoked(v, t)
    BY <2>1 DEF SignsIn, Lives, Revoked, store
  <2>3. ApprovedIdentityServes'
    BY <2>1, <2>2 DEF DeskInv, ApprovedIdentityServes
  <2>4. TokensHold'
    <3>1. \A v \in User, t \in Second : <<v, t>> \in token' => <<v, t>> \in token \/ t = now
      BY <2>1
    <3>2. \A v \in User, t \in Second : <<v, t>> \in token => t <= now
      BY DEF DeskInv, TokensHold
    <3>3. \A v \in User, t \in Second : <<v, t>> \in token' => t <= now
      BY <1>2, <3>1, <3>2
    <3>4. ASSUME NEW a \in {"disable_student", "reject_student"}, NEW v \in User, NEW s \in Second,
                 <<a, v, s>> \in log
          PROVE  s <= now /\ \A t \in Second : t < s /\ <<v, t>> \in token' => Revoked(v, t)
      <4>1. s <= now /\ \A t \in Second : t < s /\ <<v, t>> \in token => Revoked(v, t)
        BY <3>4 DEF DeskInv, TokensHold
      <4>2. \A t \in Second : t < s => t # now
        BY <1>2, <4>1
      <4>. QED
        BY <3>1, <4>1, <4>2
    <3>. QED
      BY <2>1, <2>2, <3>3, <3>4 DEF TokensHold, store
  <2>5. ASSUME NEW d \in Desk
        PROVE  DeskHolds(d)'
    <3>1. PICK c \in CallRecord : c = call[d] /\ c = call'[d]
      BY <1>1, <2>1, StoresTyped DEF Handler
    <3>2. CASE c = NoCall
      BY <3>1, <3>2, DeskRests
    <3>3. CASE c # NoCall
      <4>1. c.user \in User
        <5>1. d \in Handler /\ call[d] # NoCall
          BY <3>1, <3>3 DEF Handler
        <5>2. DecisionHolds(c) /\ c.user \in User \cup {None}
          BY <1>1, <3>1, <5>1, CallsHaveSteps, AccountsAssumption
        <5>. QED
          BY <5>2 DEF DecisionHolds
      <4>2. DeskHolds(d)
        BY DEF DeskInv
      <4>3. c.todo \in DisabledRest \cup DeletedRest => c.user # u
        BY <2>1, <3>1, <4>2 DEF DeskHolds
      <4>4. /\ <<"disable_student">> \in DisabledRest
            /\ <<"reject_student", "tellRejected">> \in DeletedRest
        BY DEF DisabledRest, DeletedRest
      <4>5. c.user # u => (AllRevoked(c.user) => AllRevoked(c.user)')
        BY <2>1, <2>2, <4>1 DEF AllRevoked
      <4>. QED
        BY <2>1, <2>2, <3>1, <4>1, <4>2, <4>3, <4>4, <4>5 DEF DeskHolds
    <3>. QED
      BY <3>2, <3>3
  <2>. QED
    BY <2>3, <2>4, <2>5 DEF DeskInv
<1>. QED
  BY <1>3, <1>4

\* While no two decisions are about one student every step keeps the invariant.
LEMMA DeskStep ==
  ASSUME DecisionsApart, DeskInv, [Next]_vars
  PROVE  DeskInv'
<1>1. AccountsInv'
  BY AccountsStep DEF DeskInv
<1>2. PICK owner \in [User -> Nis \cup {None}] : AccountsHold(owner)
  BY DEF DeskInv, AccountsInv
<1>3. CASE UNCHANGED vars
  <2>1. now \in Second /\ now <= now
    BY <1>2, StoresTyped, AccountsAssumption DEF Second
  <2>2. UNCHANGED <<profile, cutoff, log, identity, token, now, call>>
    BY <1>3 DEF vars, store
  <2>3. Quiet
    BY <2>1, <2>2 DEF Quiet, Lives, SignsIn
  <2>. QED
    BY <1>1, <2>2, <2>3, QuietStep
<1>4. ASSUME NEW h \in Desk, HandlerStep(h)
      PROVE  DeskInv'
  <2>1. h \in Handler
    BY DEF Handler
  <2>2. ~CreateProfile(h) /\ ~Bind(h) /\ ~UpdatePassword(h) /\ ~MarkCodeUsed(h)
    BY <1>2, <2>1, HeadsTell DEF CreateProfile, Bind, UpdatePassword, MarkCodeUsed
  <2>3. \A u \in User : ~CreateIdentity(h, u)
    BY <1>2, <2>1, HeadsTell DEF CreateIdentity
  <2>. QED
    BY <1>1, <1>4, <2>2, <2>3, DeskChangesUser, DeskUpdatesProfile, DeskMovesOn DEF HandlerStep
<1>5. ASSUME NEW h \in Handler, Fail(h)
      PROVE  DeskInv'
  <2>1. Ends(h) /\ UNCHANGED <<store, identity, token, now>>
    BY <1>5 DEF Fail
  <2>. QED
    BY <1>1, <2>1, DeskEnds
<1>6. ASSUME NEW h \in Client, ClientStarts(h)
      PROVE  DeskInv'
  BY <1>1, <1>6, CallsBeginQuietly DEF Handler
<1>7. ASSUME NEW h \in Desk, DeskStarts(h)
      PROVE  DeskInv'
  BY <1>1, <1>7, CallsBeginQuietly DEF Handler
<1>8. CASE (\E u \in User : SignIn(u)) \/ (\E c \in Code : CodeExpires(c)) \/ Tick
  BY <1>1, <1>8, SurroundingsKeepDesk
<1>9. CASE \E h \in Handler : HandlerStep(h)
  BY <1>1, <1>4, <1>9, ClientMoves DEF Handler
<1>. QED
  BY <1>3, <1>5, <1>6, <1>7, <1>8, <1>9 DEF Next

\* Nobody is approved yet, no token is out and nothing was decided.
LEMMA DeskStart ==
  ASSUME AccountsInit
  PROVE  DeskInv
<1>1. AccountsInv
  BY AccountsStart
<1>2. ApprovedIdentityServes /\ TokensHold
  BY DEF AccountsInit, ApprovedIdentityServes, Lives, TokensHold
<1>3. ASSUME NEW d \in Desk
      PROVE  DeskHolds(d)
  <2>1. call[d] = NoCall /\ NoCall.todo \notin DecisionRest
    BY NoCallIsOne, DecisionHeads DEF AccountsInit, Handler
  <2>2. /\ ActivateRest \in DecisionRest /\ PublishRest \in DecisionRest
        /\ DisableRest \subseteq DecisionRest /\ RejectRest \subseteq DecisionRest
        /\ DisabledRest \subseteq DecisionRest /\ DeletedRest \subseteq DecisionRest
        /\ <<"disable_student">> \in DecisionRest
        /\ <<"reject_student", "tellRejected">> \in DecisionRest
    BY DEF DecisionRest, ApproveRest, DisableRest, RejectRest, DisabledRest, DeletedRest
  <2>. QED
    BY <2>1, <2>2 DEF DeskHolds
<1>. QED
  BY <1>1, <1>2, <1>3 DEF DeskInv

\* Decisions that stay apart keep the invariant of the access of students.
LEMMA DeskInductive == AccountsSpec /\ []DecisionsApart => []DeskInv
<1>1. AccountsInit => DeskInv
  BY DeskStart
<1>2. DeskInv /\ DecisionsApart /\ [Next]_vars => DeskInv'
  BY DeskStep
<1>. QED
  BY <1>1, <1>2, PTL DEF AccountsSpec

\* As long as no two administrators' calls about one student meet, an approved
\* student has a user that is active and has the role, and a code is used up only
\* after it served, whichever step of whichever decision, signup or reset breaks
\* off, and whatever is decided about other students at the same time
\* (approveStudent, disableStudent, rejectStudent, resetStudentPassword).
THEOREM ApprovedStudentsAreServed ==
  AccountsSpec /\ []DecisionsApart => []ApprovedAreServed
<1>1. DeskInv => ApprovedAreServed
  BY DEF DeskInv, AccountsInv, AccountsHold, ApprovedAreServed
<1>. QED
  BY <1>1, DeskInductive, PTL

\* As long as no two administrators' calls about one student meet, no token from
\* before an audited disabling or rejection is ever let through again, whatever is
\* decided later (revokeUserSessions, isSessionRevoked, the order of the steps).
THEOREM StaleTokensAreOut ==
  AccountsSpec /\ []DecisionsApart => []StaleTokensStayOut
<1>1. DeskInv => StaleTokensStayOut
  BY DEF DeskInv, TokensHold, StaleTokensStayOut, Admits
<1>. QED
  BY <1>1, DeskInductive, PTL
=============================================================================
