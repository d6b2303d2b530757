-------------------------- MODULE StudentAccounts --------------------------
(***************************************************************************)
(* Student accounts: signup, approval, rejection, disabling and password   *)
(* recovery, over the profile and binding tables of Astra and the          *)
(* identities of the provider (Logto).                                     *)
(*                                                                         *)
(* No handler is a transaction.  It reads what it needs, and then awaits   *)
(* one statement or one management request after the other; any of them    *)
(* may fail, which ends the handler and leaves what was done.  A call is   *)
(* therefore the list of steps it still has to take, and every step is an  *)
(* action.  A request whose effect is applied and whose answer is lost is  *)
(* that effect followed by a failure.                                      *)
(***************************************************************************)
EXTENDS Naturals, Sequences, FiniteSets, NoValue

CONSTANTS User,         \* user ids the identity provider can hand out
          Nis,          \* students of the accepted roster, by NIS
          Email,
          Code,         \* reset codes
          Client,       \* concurrent invocations of the public handlers
          Desk,         \* concurrent invocations of the administrators'
          Decision,     \* decisions in use: some of DecisionKind
          MaxFailures,  \* bound: steps that fail
          LastSecond    \* bound: the clock stops here

DecisionKind == {"approve", "reject", "disable", "code"}

\* Bounds are numbers, handlers and values are told apart.
ASSUME AccountsAssumption ==
  /\ MaxFailures \in Nat /\ LastSecond \in Nat
  /\ Decision \subseteq DecisionKind
  /\ Client \cap Desk = {}
  /\ None \notin User \cup Nis \cup Email \cup Code

VARIABLES
  profile,    \* profiles with role student, by user id
  binding,    \* student_bindings, by student
  identity,   \* the provider's users
  cutoff,     \* revoked_sessions, one set of seconds per user
  token,      \* access tokens the provider has issued: user and iat
  code,       \* password_reset_codes
  log,        \* audit_logs: action, user and second, of the Kept actions
  now,        \* the clock, in seconds
  call,       \* what each invocation still has to do
  failures

store == <<profile, binding, cutoff, code, log>>
vars == <<store, identity, token, now, call, failures>>

Second == 0 .. LastSecond

ProfileRow == [life : {"pending", "approved", "rejected", "disabled"},
               nis : Nis \cup {None}, email : Email]

IdentityRow == [email : Email, nis : Nis, suspended : BOOLEAN, student : BOOLEAN]

CodeRow == [user : User, state : {"active", "used", "expired"}, resets : 0 .. 2]

\* The null of the database, and of an answer, is no row.
ASSUME AccountsNullAssumption == \A row \in ProfileRow \cup IdentityRow \cup CodeRow : row # None

Happening == {"student_signup", "approve_student", "reject_student",
              "disable_student", "generate_reset_code", "student_password_reset"}

\* The audit rows that a signup looks for, or that end an access.  Of the others
\* nothing here depends: writing them is one more step that may fail.
Kept == {"student_signup", "disable_student", "reject_student"}

-----------------------------------------------------------------------------
\* The steps of each handler, in their order.  Deleting the provider's own
\* sessions of the user changes nothing these tables see and is left out.

\* Variant: the lifecycle is published first.
ApproveSteps_PublishFirst ==
  <<"approved", "assignRole", "activate", "approve_student", "tellApproved">>

ApproveSteps ==
  <<"assignRole", "activate", "approved", "approve_student", "tellApproved">>

DisableSteps == <<"disabled", "suspend", "cutoff", "disable_student">>

\* A profile that has lost its NIS is not unbound.
RejectSteps(nis) ==
  <<"rejected", "clearNis">>
    \o (IF nis = None THEN <<>> ELSE <<"unbind">>)
    \o <<"suspend", "deleteUser", "cutoff", "reject_student", "tellRejected">>

CodeSteps == <<"createCode", "generate_reset_code", "tellCode">>

RegisterSteps ==
  <<"createIdentity", "assignRole", "createProfile", "bind", "student_signup">>

ResetSteps == <<"password", "burn", "cutoff", "student_password_reset">>

Step == {"approved", "rejected", "disabled", "assignRole", "activate", "suspend",
         "clearNis", "unbind", "deleteUser", "cutoff", "createCode",
         "createIdentity", "createProfile", "bind", "password", "burn",
         "tellApproved", "tellRejected", "tellCode"} \cup Happening

Handler == Client \cup Desk

NoCall == [todo |-> <<>>, user |-> None, nis |-> None, email |-> None, code |-> None]

AccountTypeOK ==
  /\ profile \in [User -> ProfileRow \cup {None}]
  /\ binding \in [Nis -> User \cup {None}]
  /\ identity \in [User -> IdentityRow \cup {None}]
  /\ cutoff \in [User -> SUBSET Second]
  /\ token \subseteq User \X Second
  /\ code \in [Code -> CodeRow \cup {None}]
  /\ log \subseteq Kept \X User \X Second
  /\ now \in Second
  /\ \A h \in Handler :
       /\ call[h] \in [todo : Seq(Step), user : User \cup {None}, nis : Nis \cup {None},
                       email : Email \cup {None}, code : Code \cup {None}]
       /\ call[h].todo = <<>> => call[h] = NoCall
  /\ failures \in 0 .. MaxFailures

AccountsInit ==
  /\ profile = [u \in User |-> None] /\ binding = [n \in Nis |-> None]
  /\ identity = [u \in User |-> None] /\ cutoff = [u \in User |-> {}]
  /\ code = [c \in Code |-> None]
  /\ token = {} /\ log = {} /\ now = 0 /\ failures = 0
  /\ call = [h \in Handler |-> NoCall]

Lives(u, life) == profile[u] # None /\ profile[u].life = life

\* getProfileByNis; nis is unique among the profiles.
HoldersOf(n) == {u \in User : profile[u] # None /\ profile[u].nis = n}

Audited(a, u) == \E s \in Second : <<a, u, s>> \in log

\* Variant: only a later revocation counts.
Revoked_After(u, iat) == \E s \in cutoff[u] : s > iat

\* isSessionRevoked: iat has seconds only, so its own second counts too.
Revoked(u, iat) == \E s \in cutoff[u] : s >= iat

\* The authentication middleware lets the token through.
Admits(u, iat) ==
  <<u, iat>> \in token /\ ~Revoked(u, iat) /\ Lives(u, "approved")

-----------------------------------------------------------------------------
\* Steps of a call.

At(h, step) == call[h].todo # <<>> /\ Head(call[h].todo) = step

Ends(h) == call' = [call EXCEPT ![h] = NoCall]

\* The call goes on as c says, or is over when that was its last step.
GoesOnAs(h, c) ==
  call' = [call EXCEPT ![h] = IF Len(c.todo) = 1 THEN NoCall
                              ELSE [c EXCEPT !.todo = Tail(@)]]

GoesOn(h) == GoesOnAs(h, call[h])

\* Variant: whoever answers to the address is taken for the student.
SameStudent_ByEmail(u, n) == identity[u] # None

\* The existing identity the signup may continue with.
SameStudent(u, n) == identity[u].nis = n

\* POST /users with isSuspended; when the address is taken, the user of that
\* address and NIS, or nothing.
CreateIdentity(h, u) ==
  LET taken == {v \in User : identity[v] # None /\ identity[v].email = call[h].email} IN
    /\ At(h, "createIdentity")
    /\ \/ /\ taken = {} /\ identity[u] = None /\ profile[u] = None
          /\ identity' = [identity EXCEPT ![u] =
               [email |-> call[h].email, nis |-> call[h].nis,
                suspended |-> TRUE, student |-> FALSE]]
          /\ GoesOnAs(h, [call[h] EXCEPT !.user = u])
       \/ /\ u \in taken /\ SameStudent(u, call[h].nis)
          /\ GoesOnAs(h, [call[h] EXCEPT !.user = u])
          /\ UNCHANGED identity
       \/ /\ u \in taken /\ ~SameStudent(u, call[h].nis)
          /\ Ends(h)
          /\ UNCHANGED identity
    /\ UNCHANGED <<store, token, now, failures>>

\* PATCH is-suspended, POST or PUT roles; the provider answers 404, and the
\* handler fails, when it has no such user.
ChangeIdentity(h) ==
  LET u == call[h].user IN
    /\ \/ /\ At(h, "assignRole") /\ identity[u] # None
          /\ identity' = [identity EXCEPT ![u].student = TRUE]
          /\ GoesOn(h)
       \/ /\ At(h, "activate") /\ identity[u] # None
          /\ identity' = [identity EXCEPT ![u].suspended = FALSE]
          /\ GoesOn(h)
       \/ /\ At(h, "suspend") /\ identity[u] # None
          /\ identity' = [identity EXCEPT ![u].suspended = TRUE]
          /\ GoesOn(h)
       \/ /\ \E step \in {"assignRole", "activate", "suspend"} : At(h, step)
          /\ identity[u] = None
          /\ Ends(h)
          /\ UNCHANGED identity
    /\ UNCHANGED <<store, token, now, failures>>

\* A user that is already gone is deleted all the same.
DeleteUser(h) ==
  /\ At(h, "deleteUser")
  /\ identity' = [identity EXCEPT ![call[h].user] = None]
  /\ GoesOn(h)
  /\ UNCHANGED <<store, token, now, failures>>

\* createPendingStudentProfile: an upsert by user id under the unique NIS.
CreateProfile(h) ==
  LET c == call[h] IN
    /\ At(h, "createProfile")
    /\ \/ /\ HoldersOf(c.nis) \subseteq {c.user}
          /\ profile' = [profile EXCEPT ![c.user] =
               [life |-> "pending", nis |-> c.nis, email |-> c.email]]
          /\ GoesOn(h)
       \/ /\ ~ HoldersOf(c.nis) \subseteq {c.user}
          /\ Ends(h)
          /\ UNCHANGED profile
    /\ UNCHANGED <<binding, cutoff, code, log, identity, token, now, failures>>

\* Variant: a lifecycle nothing else knows.
UpdateProfile_Unknown(h) ==
  /\ At(h, "approved")
  /\ profile' = [profile EXCEPT ![call[h].user].life = "active"]
  /\ GoesOn(h)
  /\ UNCHANGED <<binding, cutoff, code, log, identity, token, now, failures>>

\* updateProfileLifecycle and updateUserProfile(nis: null), without a condition.
UpdateProfile(h) ==
  LET u == call[h].user IN
    /\ \/ \E life \in {"approved", "rejected", "disabled"} :
            /\ At(h, life)
            /\ profile' = [profile EXCEPT ![u].life = life]
       \/ /\ At(h, "clearNis")
          /\ profile' = [profile EXCEPT ![u].nis = None]
    /\ GoesOn(h)
    /\ UNCHANGED <<binding, cutoff, code, log, identity, token, now, failures>>

\* bindStudentToUser: one user per student and one student per user.  Its SELECT
\* and upsert are taken as one step (two at once could overwrite one another).
Bind(h) ==
  LET n == call[h].nis
      u == call[h].user
      free == binding[n] \in {None, u} /\ \A m \in Nis \ {n} : binding[m] # u IN
    /\ At(h, "bind")
    /\ \/ free /\ binding' = [binding EXCEPT ![n] = u] /\ GoesOn(h)
       \/ ~free /\ Ends(h) /\ UNCHANGED binding
    /\ UNCHANGED <<profile, cutoff, code, log, identity, token, now, failures>>

\* unbindStudentByNis: whoever the student is bound to.
Unbind(h) ==
  /\ At(h, "unbind")
  /\ binding' = [binding EXCEPT ![call[h].nis] = None]
  /\ GoesOn(h)
  /\ UNCHANGED <<profile, cutoff, code, log, identity, token, now, failures>>

\* revokeUserSessions: a row that is never removed.
RevokeSessions(h) ==
  /\ At(h, "cutoff")
  /\ cutoff' = [cutoff EXCEPT ![call[h].user] = @ \cup {now}]
  /\ GoesOn(h)
  /\ UNCHANGED <<profile, binding, code, log, identity, token, now, failures>>

\* createPasswordResetCode; updatePassword; markPasswordResetCodeUsed, which
\* asks nothing of the code's state.
CreateCode(h, c) ==
  /\ At(h, "createCode") /\ code[c] = None
  /\ code' = [code EXCEPT ![c] = [user |-> call[h].user, state |-> "active", resets |-> 0]]
  /\ GoesOn(h)
  /\ UNCHANGED <<profile, binding, cutoff, log, identity, token, now, failures>>

UpdatePassword(h) ==
  /\ At(h, "password")
  /\ \/ /\ identity[call[h].user] # None
        /\ code' = [code EXCEPT ![call[h].code].resets = IF @ = 2 THEN 2 ELSE @ + 1]
        /\ GoesOn(h)
     \/ /\ identity[call[h].user] = None
        /\ Ends(h)
        /\ UNCHANGED code
  /\ UNCHANGED <<profile, binding, cutoff, log, identity, token, now, failures>>

MarkCodeUsed(h) ==
  /\ At(h, "burn")
  /\ code' = [code EXCEPT ![call[h].code].state = "used"]
  /\ GoesOn(h)
  /\ UNCHANGED <<profile, binding, cutoff, log, identity, token, now, failures>>

\* insertAuditLog; a signup is only written when the user has none.  (Two
\* signups may both find none and write two rows, which a set does not tell.)
WriteAudit(h) ==
  LET u == call[h].user IN
    /\ \E a \in Happening :
         /\ At(h, a)
         /\ log' = IF a = "student_signup" /\ Audited(a, u) THEN log
                   ELSE log \cup ({<<a, u, now>>} \cap (Kept \X User \X Second))
    /\ GoesOn(h)
    /\ UNCHANGED <<profile, binding, cutoff, code, identity, token, now, failures>>

\* enqueueNotification: a row for the worker, which no account depends on
\* (NotificationOutbox has its life), and one more step that may fail.
Tell(h) ==
  /\ \E k \in {"tellApproved", "tellRejected", "tellCode"} : At(h, k)
  /\ GoesOn(h)
  /\ UNCHANGED <<store, identity, token, now, failures>>

-----------------------------------------------------------------------------
\* Calls begin with what they read.

Starts(h, c) ==
  /\ call[h] = NoCall
  /\ call' = [call EXCEPT ![h] = c]
  /\ UNCHANGED <<store, identity, token, now, failures>>

\* Variant: a pending account of the NIS refuses whoever asks.
RegisterStudent_NoRecovery(h, n, e) ==
  /\ HoldersOf(n) = {}
  /\ Starts(h, [NoCall EXCEPT !.todo = RegisterSteps, !.nis = n, !.email = e])

\* registerStudent: a new account, or the rest of one that was interrupted.
\* Any other profile of the NIS refuses.
RegisterStudent(h, n, e) ==
  \/ /\ HoldersOf(n) = {}
     /\ Starts(h, [NoCall EXCEPT !.todo = RegisterSteps, !.nis = n, !.email = e])
  \/ \E u \in HoldersOf(n) :
       /\ Lives(u, "pending") /\ profile[u].email = e
       /\ Starts(h, [NoCall EXCEPT !.todo = <<"bind", "student_signup">>,
                                   !.user = u, !.nis = n, !.email = e])

\* resetStudentPassword
ResetStudentPassword(h, c) ==
  /\ code[c] # None /\ code[c].state = "active"
  /\ Lives(code[c].user, "approved") /\ profile[code[c].user].nis # None
  /\ Starts(h, [NoCall EXCEPT !.todo = ResetSteps, !.user = code[c].user, !.code = c])

\* approveStudent, disableStudent, rejectStudent: any student, in any lifecycle.
DecideStudent(h, u) ==
  /\ profile[u] # None
  /\ \/ /\ "approve" \in Decision
        /\ Starts(h, [NoCall EXCEPT !.todo = ApproveSteps, !.user = u])
     \/ /\ "disable" \in Decision
        /\ Starts(h, [NoCall EXCEPT !.todo = DisableSteps, !.user = u])
     \/ /\ "reject" \in Decision
        /\ Starts(h, [NoCall EXCEPT !.todo = RejectSteps(profile[u].nis),
                                    !.user = u, !.nis = profile[u].nis])

\* generateStudentResetCode
GenerateResetCode(h, u) ==
  /\ "code" \in Decision
  /\ Lives(u, "approved")
  /\ \E c \in Code : code[c] = None
  /\ Starts(h, [NoCall EXCEPT !.todo = CodeSteps, !.user = u])

-----------------------------------------------------------------------------
\* The surroundings.

\* An await throws: the handler answers 500 and is gone.
Fail(h) ==
  /\ call[h] # NoCall /\ failures < MaxFailures
  /\ failures' = failures + 1
  /\ Ends(h)
  /\ UNCHANGED <<store, identity, token, now>>

\* The provider signs in, and renews, whoever it has not suspended.
SignIn(u) ==
  /\ identity[u] # None /\ ~identity[u].suspended
  /\ token' = token \cup {<<u, now>>}
  /\ UNCHANGED <<store, identity, now, call, failures>>

Tick ==
  /\ now < LastSecond
  /\ now' = now + 1
  /\ UNCHANGED <<store, identity, token, call, failures>>

\* expires_at passes.
CodeExpires(c) ==
  /\ code[c] # None /\ code[c].state = "active"
  /\ code' = [code EXCEPT ![c].state = "expired"]
  /\ UNCHANGED <<profile, binding, cutoff, log, identity, token, now, call, failures>>

HandlerStep(h) ==
  \/ ChangeIdentity(h) \/ DeleteUser(h) \/ CreateProfile(h) \/ UpdateProfile(h)
  \/ Bind(h) \/ Unbind(h) \/ RevokeSessions(h) \/ UpdatePassword(h)
  \/ MarkCodeUsed(h) \/ WriteAudit(h) \/ Tell(h)
  \/ \E u \in User : CreateIdentity(h, u)
  \/ \E c \in Code : CreateCode(h, c)

ClientStarts(h) ==
  \/ \E n \in Nis, e \in Email : RegisterStudent(h, n, e)
  \/ \E c \in Code : ResetStudentPassword(h, c)

DeskStarts(h) == \E u \in User : DecideStudent(h, u) \/ GenerateResetCode(h, u)

Next ==
  \/ \E h \in Handler : HandlerStep(h) \/ Fail(h)
  \/ \E h \in Client : ClientStarts(h)
  \/ \E h \in Desk : DeskStarts(h)
  \/ \E u \in User : SignIn(u)
  \/ \E c \in Code : CodeExpires(c)
  \/ Tick

AccountsSpec == AccountsInit /\ [][Next]_vars

\* A request that was accepted runs on, and an applicant whose signup was
\* refused or broke off submits it again.
RetriedSpec ==
  /\ AccountsSpec
  /\ \A h \in Handler : WF_vars(HandlerStep(h))
  /\ \A h \in Client, n \in Nis, e \in Email : WF_vars(RegisterStudent(h, n, e))

-----------------------------------------------------------------------------
\* Properties.  Those that need one administrator of a student at a time say so.

\* approveStudent publishes the approved lifecycle last and disableStudent and
\* rejectStudent withdraw it first, so that whichever step fails an approved
\* profile has an identity that is active and has the student's role.  (One
\* administrator of a student at a time: two can interleave.)
ApprovedIdentityServes ==
  \A u \in User : Lives(u, "approved") =>
    identity[u] # None /\ ~identity[u].suspended /\ identity[u].student

\* Once a disabling or rejection has been audited, no token of an earlier second is
\* ever let through again, not even after a later approval: sessions stay
\* revoked, to the second, and none can be opened between the cutoff and the
\* audit.  (One administrator of a student at a time.)
StaleTokensStayOut ==
  \A a \in {"disable_student", "reject_student"}, u \in User, s \in Second :
    <<a, u, s>> \in log => \A t \in Second : t < s => ~Admits(u, t)

\* A student is bound to an account of that student: signups that share an
\* address or race for a NIS, and rejections that break off, never bind a
\* student to the account of another.
BindingsMatchAccounts ==
  \A n \in Nis : binding[n] # None =>
    profile[binding[n]] # None /\ profile[binding[n]].nis \in {n, None}

\* resetStudentPassword uses a code up only after the password was changed with
\* it, so that a failing provider does not burn the student's code.
CodesBurnOnlyAfterUse ==
  \A c \in Code : (code[c] # None /\ code[c].state = "used") => code[c].resets > 0

\* An approved student can sign in and recover the password, whichever step of
\* whichever decision or reset failed.
ApprovedAreServed == ApprovedIdentityServes /\ CodesBurnOnlyAfterUse

Registered(n) ==
  \E u \in User : /\ HoldersOf(n) = {u} /\ binding[n] = u
                  /\ Audited("student_signup", u)

\* registerStudent can be retried after it broke off anywhere: once a student
\* has an identity, and while nobody decides about it, the student ends up with
\* one pending account, bound and audited.
RegistrationRecovers ==
  \A n \in Nis : (\E u \in User : identity[u] # None /\ identity[u].nis = n) ~> Registered(n)

\* What tests/integration/student-accounts.test.ts expects of a rejection: a
\* student whose account was rejected is no longer bound to it.
RejectionReleases ==
  [][\A u \in User : <<"reject_student", u, now>> \in log' \ log =>
        \A n \in Nis : binding'[n] # u]_vars
=============================================================================
