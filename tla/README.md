# Verification of Project Astra

Project Astra is the backend of a school: students check in and out of a school
day with their phone and a face recognition service (Robin), ask for leave, file
photo reports for the Adiwiyata programme, and are notified of what the school
decides; administrators approve accounts, keep rosters, classes, schedules and
staff, decide on leave, repair attendance, verify reports and watch the
notifications. It is one Node.js service (`src/`), a notification worker process
(`src/workers/`), a PostgreSQL database (`db/schema.sql`), an S3 object store, an
OIDC identity provider (Logto), Redis and Robin.

This directory models that program in TLA+, checks the models with TLC and
proves the most important properties with TLAPS. Paths below are relative to the
repository; `pg` is `src/providers/postgres/domain-store.ts` and `admin` is
`src/modules/admin/service.ts`.

Contents: [the system](#the-system) · [modules](#modules-and-how-they-correspond-to-the-code) ·
[runs](#runs) · [bounds](#bounds-and-why-they-are-enough) · [fairness](#fairness) ·
[proofs](#proofs) · [only model-checked](#what-is-only-model-checked) ·
[disagreements](#where-the-code-and-its-documents-disagree) ·
[not modelled](#what-is-not-modelled) · [plan](#plan)

## The system

Every HTTP handler is an async function in one event loop; several service
processes may run. A handler reads, awaits, and writes: what it read may be stale
by then. The only atomic units are single SQL statements and the transactions of
`pg`, which run under READ COMMITTED and lock as follows.

- Transactions whose condition ranges over several rows of a student (create and
  approve leave, force-finish, both attendance inserts) hold
  `pg_advisory_xact_lock` on the student; a report's submission and verification
  hold one on class, Site and date (`src/providers/adiwiyata-lock.ts`).
- Other leave and report transactions hold the row they change `FOR UPDATE`.
- Enrollment, period and staff transactions lock nothing they read: what holds
  them together is unique indexes, or nothing.
- Audit rows and outbox rows are inserted inside the transaction for leave
  decisions and manual attendance, and by statements of their own elsewhere.

| component | state | operations | talks to | what is hard |
|---|---|---|---|---|
| leave requests | `leave_requests`, `audit_logs`, `notification_outbox` | create (student, admin), approve, reject, reopen, force-finish, withdraw, remove | attendance (same lock), outbox, files | status read before an await and relied on after it; two approvals; long sequences of decisions |
| attendance | `attendances`, `attendance_attempts` | submit (gate, Robin, save), manual attendance, bulk deletion, calendar | leave, Robin, outbox | five awaits between the gate and the save; midnight; two devices; deletions audited one by one afterwards |
| attendance gate | reads calendar, schedules, locations, rows, standing | decide action, window, geofence, late label | attendance, Robin | one decision computed in several places from several lookups |
| schedules, locations, calendar | one table each | create, update, delete | gate | updates that cannot clear a column |
| notification outbox and worker | `notification_outbox`; a worker's batch | enqueue, claim under a lease, send, record, retry, delete, start, stop | push and email service | leases that lapse under a slow batch, crashes, lost answers, administrators |
| student accounts | `profiles`, `student_bindings`, `revoked_sessions`, `password_reset_codes`; the provider's users | signup, approve, reject, disable, reset code, reset password, correct email, authenticate | Logto, outbox | lists of awaited steps with no transaction, any of which may fail; retries; compensation |
| staff, roles, permissions | `profiles`, `user_roles`, `roles`; the provider's roles | create and update staff | Logto, middleware | three stores, order of writes, lost updates |
| classes, enrollments, roster | `classes`, `class_enrollments`, `students`, `roster_reports`, `student_bindings` | stage, accept, open signup, bind, enroll, transfer, promote, exit | accounts, gate, reports | one person counted by two ids; rows written by id after a read |
| periods and bootstrap | `schools`, `academic_periods` | bootstrap, create, update, activate | gate, enrollments | one active period without a constraint |
| Adiwiyata reports | `adiwiyata_reports`, `files`, Sites, eligibility; objects | submit, verify, Sites, grant, coverage | S3, enrollments | three stores without a common transaction; a commit whose answer is lost; three readers of the enrollments |
| files and attachments | `files`, `leave_requests.attachment_url`; objects | upload intent, confirm, attach (student, staff), withdraw, remove (administrator), delete | S3 | metadata and object change apart, upload URLs that live on, two routes that treat an attachment differently |
| face enrollment | `files`, `face_enrollments`; objects; embeddings | enroll, remove, reset, status | S3, Robin | three services, paths used again, rollback and retry |
| rate limiting | a window per client and route | increment | Redis | clocks that differ, equal milliseconds, expiry |
| backup audit, health, staff notification routes, profile, HTTP surface, in-memory provider | none of their own | | | |

What makes each component correct:

- **leave**: approved periods of a student are disjoint and well formed; decision,
  audit row and notification stand or fall together; the audit trail explains
  the row; an approved period is immutable except for an early end.
- **attendance**: one row per action and day; a check-out needs a check-in; every
  row has exactly one origin; nobody is present on a day of leave, and the
  calendar says so.
- **gate**: the dashboard's button, precheck, submission and save agree on the
  action and the label.
- **outbox**: delivered means received; no duplicate without a cause; failures
  count once; settled rows stay settled; everything settles.
- **accounts**: an approved account can be used; a disabled one cannot, by any old
  token; a student is bound to an account of that student; an interrupted signup
  can be completed; a reset code is not lost to a failing provider; provider and
  profile hold one address.
- **staff**: after a change the stores grant the same, and no token more.
- **enrollments**: a person has one class a period; an accepted roster is carried
  out whole; whoever is offered the programme can be granted it.
- **periods**: an activation leaves one active period.
- **reports**: a report keeps its photo; no object goes untracked; one report per
  student, Site and day; none after verification; the class is the enrolled one.
- **files**: an available file has its object; a rejected one stays rejected.
- **face enrollment**: a completed change leaves Robin, objects, records and state
  saying the same.
- **rate limiting**: no more than the limit in a window, and no refusal below it.

## Modules and how they correspond to the code

| module | models | code |
|---|---|---|
| `LeavePeriods` | dates of a period: overlap, effective end, the fields the store derives | pg, `src/providers/types.ts` |
| `StudentRecords` | the tables of a student's day and every transaction that writes them | pg 1055–1990, 3157–3210, 4095–4160 |
| `AttendanceService` | submission as a process of separate reads, Robin and save; manual attendance; deletion | `src/modules/attendance/service.ts`, `src/modules/dashboard/service.ts`, admin 1933–2145 |
| `LeaveService` | leave handlers: the read of the status, then the transaction | `src/modules/permits/service.ts`, admin 2180–2597 |
| `SchoolDay` | both services over the same tables; what calendar and lists show of them | |
| `DayBook` | abstract specification of a student's days: marks, presence, excuses | |
| `AttendanceGate` | the decision who may submit what now, three times computed; schedules, locations, calendar | `src/modules/dashboard/service.ts`, `src/modules/attendance/service.ts`, `src/modules/adiwiyata/service.ts` 63–111, pg |
| `NotificationOutbox` | outbox rows, leases, workers, administrators | pg 4095–4370, `src/workers/`, `src/modules/notifications/transport.ts`, admin 2598–2746 |
| `MessageDelivery` | abstract specification of the outbox: a message waits, is confirmed, given up or deleted | |
| `StudentAccounts` | signup, decisions and password recovery as lists of awaited steps | `src/modules/auth/service.ts`, admin 852–1132, `src/middleware/auth.ts`, `src/providers/identity/oidc-identity.ts`, pg |
| `EmailCorrection` | an address held by provider and profile, corrected and undone | admin 1134–1180, pg 3841–3858 |
| `StaffRoles` | staff over provider, profile and role table; tokens and cutoff | admin 596–795, pg 3427–3640 |
| `ClassEnrollments` | classes, roster reports, binding, enrollments | pg 758–930, 2300–2650, 2860–3160, admin |
| `AdiwiyataAccess` | what list, grant, dashboard, profile and coverage read from the enrollments | `src/modules/adiwiyata/service.ts`, pg, `src/modules/profile/` |
| `AcademicPeriods` | the school and its periods under READ COMMITTED | pg 2092–2310, admin 77–170 |
| `AdiwiyataReports` | submission over three stores, verification, what they race with | `src/modules/adiwiyata/service.ts`, pg 207–740, `src/providers/storage/s3-storage.ts` |
| `ReportBook` | abstract specification of a day's reports: who reported on which Site for which class | |
| `StoredFiles` | file records, objects, upload URLs, attachments | `src/modules/files/service.ts`, `src/modules/permits/service.ts`, admin 2180–2232, 2550–2582, S3, pg |
| `FaceEnrollment` | embeddings, images, records and state of one student | `src/modules/enrollment/service.ts`, `src/clients/robin/client.ts` |
| `RateLimit` | the sliding window in Redis or in the process | `src/middleware/rate-limit.ts` |
| `NoValue` | `None`, the value of a column that has none | |
| `*_proofs` | theorems | |

`SchoolDay` composes `AttendanceService` and `LeaveService`, which both extend
`StudentRecords`; `AdiwiyataAccess` extends `ClassEnrollments`. The others stand
alone: what they share with each other (the outbox insert, an audit row, the row of
`files` of a photo) is one statement whose effect both sides state. `PROJECT.json`
maps every definition to its lines.

The modules `MC*` are for TLC. `MCAccess` (accounts, staff, addresses,
gate), `MCAdministration` (enrollments, periods), `MCStorage` (reports, files, faces,
rate limit) and `MCProgress` (outbox, signups) put components that share no state
into one specification: a behaviour is one of one component, chosen at the start by
`part`, and the others keep still. That checks each component exactly as a run of its
own would; it only saves runs. `SignupsSpec` of `MCStudentAccounts` leaves out sign-ins and
password recovery, which write nothing that a binding depends on.

**StudentRecords.** A variable per table, indexed by the id a row draws. A row that
was never drawn is `"unused"`, a removed one `"deleted"`: properties can then speak
of the past. A transaction is one action, because the lock named above serialises
everything its condition looks at; one whose condition fails throws, writes
nothing, and is not enabled. Dates are numbers, `Hadir` stands for `Hadir` and
`Terlambat`. A whole day is one number: a submission and a decision differ in the
day they were made, never in the minute.

**AttendanceService.** `StartGate` fixes the date; the permits and the rows are read
in either order, as `Promise.all` lets them; `ValidateGate` reads the rows again
under a date of its own; Robin answers; `IdentifyMatch` computes the date of the
save; `SaveSubmission` is the transaction. Between any two, anything else may
happen, midnight included. What only refuses (holiday, window, geofence,
enrollment, Robin's readiness) is `EndSubmission`, which also stands for the death
of the process.

**LeaveService.** A handler reads the request (`ReadRequest`, with the service's
check) and later calls its transaction, which may find another status. `approve`
checks the status again under the lock; `reject` and `reopen` do not; withdrawing
deletes by id.

**AttendanceGate.** One student's day, hour by hour. `DashboardAnswer`, `GateAnswer`
(with `ValidatedAction`) and `SavedStatus` are the three computations, from
`OwnSchedules`, the lookup by class and period, and `GeneralSchedules`, the lookup
without. A lookup with `LIMIT 1` may return any of the rows that rank alike. The
administrators edit between any two steps of a submission.

**NotificationOutbox.** A worker is `down`, `running` or `stopping`; its batch is
`todo`, the row being sent is `now`, and `seen` holds the retry counts its claim
returned. `Holds` is the guard on the lease token in `updateNotificationStatus`.
The environment loses answers of the push service (an email is answered or failed),
crashes workers, fails database updates and lets leases lapse (`LeaseExpires`),
before the batch is done if `EarlyExpiry`. `received` and `suspect` are history
variables: how often the transport took the message, and whether something excuses
a second time.

**StudentAccounts.** A call is the list of steps it still has to take; each step is
an action and may fail instead (`Fail`), which ends the call. The lists
(`ApproveSteps`, `RejectSteps`, ...) are the order of awaits in the code. A request
that was applied while its answer was lost is the step followed by `Fail`.
Tokens, cutoffs and audit rows carry the second they were made in; of the audit rows only
those that a signup looks for or that end an access are kept.

**EmailCorrection.** Provider first, profile second, and the provider again when the
profile refused, or seemed to. `agreed` is the history of what the code can answer
for: corrections that met no other and lost no answer.

**StaffRoles.** `AssignRoles`, `CreateStaffProfile`, `ReadStaffProfile` and
`UpdateStaffProfile` are the awaits of `createStaff` and `updateStaff`. What a request
leaves out is written back as it was read (`Written`). `settled` records the last
change that met no other.

**ClassEnrollments.** `class_enrollments` is the sequence of its rows. Rows of the
roster name a student, rows created by account a user, and binding gives the former
the account as well. `Commits` is the three partial unique indexes
(`db/schema.sql:175`): a transaction that would break one is not enabled. Transfer,
promotion and acceptance select in one step and write in another.

**AdiwiyataAccess** has no variables. It states what five readers compute from the
tables of `ClassEnrollments`, for every set of active periods and of granted accounts.

**AcademicPeriods.** `Activate` is the statement that deactivates, with the rows its
snapshot sees; `CommitActivation` sets the period active. It waits for rows others
have locked, so activations over the same rows take turns in the database; only
those that insert can miss each other.

**AdiwiyataReports.** A submission's phase is what its handler awaits; its database
transaction (`open`) is an actor of its own: it holds the locks, and may commit or
abort after the handler has lost the connection. `unsure` is the handler that
cannot know and looks the report up; `refused`, `unstored` and `unmarked` are the
cleanup, which may fail at every step.

**StoredFiles, FaceEnrollment.** A handler is a request that takes one step for each
statement, S3 call or Robin call and may break off before any. `excused` names the
files that a known gap of the design has touched, `settled` the last change of an
enrollment that ran alone: the properties say what the code promises outside them.

A leave request's attachment belongs to the student or to whoever of the staff filed the
request (`owner`), and comes and goes by two routes each: `CreatePermit` looks at the
object of a pending file, `CreateAdminLeaveRequest` does not; `DeletePermit` is the
student's and for pending requests, `DeleteAdminLeaveRequest` for any. `Withdraws` is what
both removals do: the record is looked for among the student's files, and that of a file of
the staff is not found. Any number of requests may meet on one file; it is excused only
when one that verifies it (`Verifying`) meets one that removes it (`Removing`).

**RateLimit.** `Increment` is the Redis script, atomic in Redis, scored by the clock
of the calling instance, or the list of one process. `served` remembers every request.

Definitions named `X_Something` are variants of `X`: each has one defect that a
plausible change could introduce, and shows that a property notices it.
`PROJECT.json` lists which property notices which. They are part of no
specification.


## Runs

Each `MC<module>_<run>.cfg` is one question:
`tlc -config MC<module>_<run>.cfg MC<module>`.

| run | instance | asks | answer |
|---|---|---|---|
| `leave` | 1 student, 2 requests, 2 handlers, 2 days, periods of up to 2 days, 2 decisions each | are approved periods disjoint and well formed, does the audit trail explain each row, do audit and outbox agree, are the late audit rows true | yes |
| `attendance` | 1 student, 3 rows, 2 attempts, 2 submissions, 2 days | one row per action, no check-out first, every row with one origin, manual attendance only on a failed attempt, true deletion audits | yes |
| `day` | 1 student, 1 request, 1 row, 1 attempt, 1 submission, 1 handler, 2 days, 3 decisions | is presence on a day of leave excluded when submission, manual attendance and approval race; do calendar and list say what the gate goes by; a day book | yes |
| `workers` | 2 rows (a push, an email), 2 workers, batches of 2, 2 tries, leases that lapse early, 1 disturbance | are duplicates excused, do overtaken workers write nothing | yes |
| `settles` | outbox: 2 rows, 2 workers, batches of 1, 2 tries, 1 disturbance; signups: 1 student, 2 users, 2 addresses, 2 applicants, 2 failures; fairness | does every notification settle while a worker stays up, does a broken-off signup recover, is the outbox a delivery of messages | yes |
| `sessions` | accounts: 1 student, 1 applicant, 1 desk, all decisions, 2 seconds, 1 failure; staff: 1 member, 2 roles, 2 administrators, 2 seconds; addresses: 2 accounts, 2 addresses, 2 administrators; gate: 2 schedules, 1 place, 1 exception, 3 hours | are approved profiles served, do old tokens stay out, does a role change take effect everywhere, do the stores agree, one answer from dashboard, gate and save | yes |
| `signups` | 2 students, 2 users, 2 addresses, 2 applicants, rejections, 1 failure | is a student only ever bound to an account of that student | yes |
| `evidence` | reports: 2 submissions, students, classes, Sites, 2 verifications each; files: 1 intent, 2 permits, 2 clients; faces: 2 attempts of 2 images, 2 callers; rate: 2 hosts, 5 requests in 7 instants, window 3, limit 2, skew 1 | photos kept and objects tracked, consistent and closed reports, files that match objects, settled enrollments, an exact limit | yes |
| `policy` | classes: 1 student, 2 accounts, 2 classes, 2 periods, 2 reports, 2 desks, 2 rows; periods: 2 schools, 3 periods, 2 administrators | one class a person, accepted rosters carried out, offers that can be granted, activations that settle | yes |
| `immutable` | 1 request, 2 handlers, 3 decisions | is an approved leave immutable, as the invariants say | no, see below |
| `reopened` | 1 request, 1 handler, 4 decisions | does every reopening notify, as the flow says | no, see below |
| `release` | 1 student, 2 users, 1 failure | is a rejected account unbound from its student, as the tests expect | no, see below |

Some properties have parts:

- `LeavePeriodsSound` (`StudentRecords`): approved periods are well formed and those of
  one student disjoint.
- `RecordsAccountedFor` (`SchoolDay`): every attendance has one origin, manual
  attendance rests on a failed attempt, and the notes that handlers write afterwards
  are true.
- `CalendarMatchesGate`: the student's calendar and the administrators' list show a leave on
  exactly the days on which the gate refuses for one, once, and no presence with it.
- `ImplementsDayBook`: under the mapping of `SchoolDay` (live rows to marks, rows that
  say present to presence, approved periods to runs of excused days) every step of
  attendance and leave is a step of `DayBook`: a mark enters only on an unexcused day
  and in order, a run of days is excused as a whole and only if nobody was marked
  present in it, and only administrators remove anything. It is checked where marks
  meet leave (`day`).
- `LateWorkersAreHarmless`: no step of a worker, however late, counts a failure twice or
  moves a row that is settled or deleted.
- `ImplementsDelivery`: under the mapping of `NotificationOutbox` (pending and processing
  rows wait, the retry count is what was missed, `received` and `suspect` are the copies and
  their excuse) every step of the outbox is a step of `MessageDelivery`: nothing is confirmed
  that was not received, a failure counts as one miss, the last one gives up, a second copy
  goes out only with an excuse, none of what was confirmed or given up, and only
  administrators bring a message back or delete it.
- `DeliveriesEnd`: each notification settles if some worker is eventually up for good.
- `ApprovedAreServed`: an approved profile has a provider user with its role that is not
  suspended, and a code is used up only by a password change.
- `SettledRolesAgree`, `EmailsAgree` (`StoresAgree`): after a change that met no other the
  stores say the same. `SettledRolesAreInForce`: after such a change a token that is let
  in carries exactly the roles that the provider has.
- `OfferedIsGranted` (`AdiwiyataAccess`): whoever the list offers with a class has that class
  on the dashboard, in the profile and in the canonical record; coverage expects a class
  only if somebody who was granted can report for it.
- `ReportsConsistent`: one report per student, Site and day; verifications and
  withdrawals alternate and end in the state of the row.
- `FilesMatchObjects`: between requests an available file has its object, as declared, and a
  rejected or deleted one has left none; `RejectedIsFinal`: a rejected file stays rejected.
  Both speak of files that no gap of the code has touched (listed under the disagreements).
- `ChangesSettle`, `ActivationSettles`: what the code promises of a change that met no other.
- `LimitIsExact`: in any window no more requests are admitted than the limit, and none is
  refused unless there were more requests than that, up to `MaxSkew`.
- `ButtonMatchesGate`, `ToldWhatIsSaved`: the dashboard offers an action exactly if the
  gate lets it pass; the status a student is told is the status saved, where one schedule
  is in play.

The type invariants say more than types where that is cheap: an action `"done"`
never gets past the gate, a period's school exists, the provider has an address once.

## Bounds and why they are enough

- **Rows, requests, attempts, reports and codes are drawn from finite pools and
  never returned.** When they run out only reads remain, then nothing: every run
  therefore says `CHECK_DEADLOCK FALSE`. Three attendance rows let a duplicate, a
  deletion and a re-entry of one day meet; two requests let two approvals overlap.
- **`LastDay`** is 2: midnight can fall between any two steps of a submission, and a
  period of two days has an inner border. Periods of the code may have 30 days
  (`MaxDuration`); what is compared are ends of intervals, so two is enough to tell
  a first day, a last day and a day outside apart.
- **`MaxDecisions`** caps the audit trail of a request. Two decisions per request
  cover each pair with both requests live, four are needed to reject and reopen
  twice (`reopened`).
- **`MaxRetries`** is 2 (3 in the service) and **`BatchSize`** 1 or 2 (10): a first
  and a last failure, a batch with a row in hand and one to do.
- **The lease** (120 s) and the backoff are events. `EarlyExpiry` lets a lease lapse
  while its batch is in hand: ten sends of up to 5 s, each with updates of up to 5 s,
  or a process that stalls, can take that long.
- **`MaxDisturbances`, `MaxFailures`** bound crashes, database errors and
  administrators' retries. Each is the cause of one anomaly; combinations of two
  failures are left to `settles`, where they are cheap. The calls of `StaffRoles`,
  `EmailCorrection`, `StoredFiles` and `FaceEnrollment` may fail any number of times.
- **`LastSecond`** is 1 and **`LastTick`** 2: before, in the same second as, and after a
  cutoff.
- **`Lists`** holds one list of further roles, `{teacher}`; with the two primary roles
  every subset of names with a primary one occurs.
- **`MaxRows`** is 2: one person counted by student id and by account needs two rows, and
  so does every row moved; a third repeats one of the two. **`Absence`** is one number,
  so that two rows always compete for it.
- **Three periods, two schools**: an activation has one to deactivate, one to activate
  and one inserted meanwhile, and a period of another school to leave alone.
- **`OneMorning`**: on time, late, home. Three hours are every answer the window can give.
  Two schedules let an own and a general one differ.
- **`Images`** is 2: a first image and one after it, where an enrollment may break off.
- **`Window`, `Limit`, `MaxSkew`, `LastInstant`, `MaxRequests`**: two windows and a bit, and
  requests to fill the limit twice and one more; the skew is less than the window, as
  NTP keeps it.
- **`MaxVerifications`** 2: verify and withdraw.
- One student is enough for attendance and leave, since no condition or lock
  spans students (the theorems below hold for any number). Symmetry is used where
  the properties name no value and no liveness is checked.

## Fairness

`FairOutboxSpec` assumes weak fairness of each worker's own steps, which is what
the polling loop of `NotificationWorker.start` does, and of the two clocks (a backoff ends,
a lease ends). Starting, stopping, crashing, database errors and administrators are
not fair: nothing obliges them. `DeliveriesEnd` has one premise, that some worker is
eventually up for good; with every worker down, nothing is delivered. `EarlyExpiry`
is FALSE in that run: if every batch outlasted its lease, every outcome would be
refused and rows could be claimed for ever. Disturbances are finite, as crashing for
ever is a system that is down.

`RetriedSpec` assumes that accepted requests run on and that an applicant whose
signup broke off submits it again, which the signup form allows and
`src/modules/auth/service.ts:41` is written for. No decision of an administrator is
enabled in that run: a rejection ends the signup by intent.

`ProgressSpec` of `MCProgress` gives each of its two parts the fairness of these two.
No other component promises that something happens: what an administrator or a client
starts and breaks off, nobody resumes.

## Proofs

Every invariant and every action property that a passing run checks is the statement of
a theorem (table below); liveness is not. Eight modules hold the theorems, one for the
components of one run. A theorem holds for every value of the constants under the named
assumptions of the modules, which TLC evaluates in the runs:

- bounds are numbers, and there is a day, an image, a window (`DaysAssumption`,
  `OutboxAssumption`, `FacesAssumption`, `RateAssumption`, ...);
- `None` is no identity and no row (`AccountsNullAssumption`, `StaffNullAssumption`,
  `PeriodsNullAssumption`, `EnrollmentsNullAssumption`) and no name of a state or a reason
  (`FilesAssumption`, `GateAssumption`, `ReasonAssumption`): a null column differs from
  every value, which TLC has for free from model values;
- identities of two kinds that share a variable differ: clients and administrators
  (`AccountsAssumption`), the key of Redis and an instance, `"removed"` and an attempt;
- the roster is of finitely many students (`EnrollmentsAssumption`), as its report is.

Pools of rows, users, requests, workers and calls may be infinite.

**`StudentRecords_proofs`** proves `TablesInv` inductive for `RecordsSpec`, in which
*any* transaction may be called at any moment with any arguments. The safety
properties are not inductive alone:

- `NoLeaveOverlap` and `NoPresenceOnLeave` need that a period is where its columns
  say and only shrinks without an approval (`PeriodInv`: types, started requests,
  `PeriodsWellFormed`). `OnlyApprovalExtends` states it: every transaction but an
  approval leaves a period within what it was. The insert of a row and an approval
  are then the only steps to consider, and each looks at the other's table.
- `AuditExplainsLeave` needs that an id not yet drawn has no trail (`TrailInv`).
- `OutboxMatchesAudit` is carried by one kind of decision at a time.
- `AttendanceAccountedFor` compares cardinalities. `AccountsInv` adds that what was drawn
  of each student is finite, and that no unused row is audited; `AccountsBalance` then
  says that a step adds one element on both sides, or none.

**`SchoolDay_proofs`** proves that the handlers, with all they read too early,
implement that: `SchoolImplementsRecords == Spec => RecordsSpec`. Its lemma
`HandlersTransact` says each step of a handler is one transaction, midnight, or
invisible; it needs `SchoolInv` (types, and that an attempt has a date), because a
transaction must be called with arguments in range. The properties of the tables
then hold of `SchoolDay` without a second induction. The point of the argument: no
stale read in a service can break them, as long as the transactions check what they
check.

The properties of what handlers *say* need more. `NotesInv` (for `RecordsAccountedFor`)
carries that what a handler is about to report stays so until it does, because
transactions undo nothing (`NothingUndone`): a deleted row stays deleted, a failed
attempt stays one. `CalendarMatchesGate` follows from `TablesInv` in each state: disjoint
periods leave at most one request a day, so that first match (calendar), any match (gate)
and set (list) agree. `SchoolKeepsTheBook` is the refinement of `DayBook`: initial states map to
the empty book, and every transaction maps to a step of the book or to none. The mapping
needs `PeriodsInBook` beside `TablesInv`, since a leave of the book is a run of its days.

**`NotificationOutbox_proofs`**. `Leases` says what a lease is worth: a worker that still
holds a row has its retry count as the claim read it, and a row at work is below the
limit; `LateWorkersAreHarmless` follows, since every update is conditional on the lease.
`Receipts` relates the rows to what the push service received. Its core is `Unsuspected`: of a
row to which nothing happened that excuses a duplicate, at most one worker has a copy,
under a live lease, and the copy is sent only if nothing was received. Neither half is
inductive alone. `PendingStaysBelowLimit` shows that a row is never stuck at its
limit where a retry resets the count.

`OutboxKeepsDelivery` is the refinement of `MessageDelivery`. Each action maps to one step of one
message, or to a stutter: a claim changes a lease and a status that both map to waiting
(`RowsExist`: a worker has only rows that were enqueued), a send is `Transmit`, an update
under a live lease is `Confirm` or `Miss`, a crash or a lapsed lease loses track of a message.
`Leases` makes the miss count right, as the row is written from a copy; `Receipts` makes
`Confirm` and `Transmit` right.

**`StudentAccounts_proofs`**. A handler is a list of awaited steps, so the invariant speaks of
what is left of it (`SignupRest`, `RejectRest`, ...). `BindingsMatchAccounts` is true because a
user id belongs to one student for good; no table says that, as profile, provider
user and binding each come and go. `AccountsInv` therefore claims that an *owner* of each id
exists, with which tables, provider and calls under way agree (`OwnerHolds`, `CallHolds`); a step that
draws a new id extends the owner. The two properties that two administrators can break
(admin 927) are proved as long as `DecisionsApart` holds: no two calls of administrators that
are under way are about one student, however many there are. `DeskInv` is what each call has
established of its student and no signup, no reset and no call about another student
undoes (`OthersSpared`). `SignupsStayOpen` is the part of `RegistrationRecovers` that is not
about time: at every moment the account that holds a NIS is the only one, is bound to no
other student, and can be bound to this one, unless the student still is bound to an account
that a rejection took the NIS from (the disagreement of `release`).

**`Access_proofs`** adds staff, addresses and gate. `StaffInv` and `EmailInv` say what a change that
met no other has written and read and still finds (`ChangeHolds`, `CorrectionHolds`), and
that what is settled rests until the next change; meeting another clears `alone` on both
sides, which is why nothing need be said of changes that met. `GateInv` remembers
of a passed submission which schedule called it late.

**`Administration_proofs`**. `PeriodsInv`: an activation that is alone in its school has seen every
active period there, so that deactivating what it saw leaves one. `EnrollInv`: the two partial
indexes, one row of the roster for a student, and rows of a bound student that name the
account. `OfferedIsGranted` is not about steps: `ReadersAgree` shows that list, grant,
dashboard, profile and coverage compute the same class from any rows with those indexes.

**`Storage_proofs`** covers the stores beside the database.

- `FilesInv`: of a file that no gap touched the record and the object agree, but for what a
  request under way has left to do (`RecordTrue`); `KnowsFile` says what each request on it
  has established by the step it takes next, and `KeptApart` that no verification has met a
  removal, so that several requests on one file know compatible things. `FilesMatchObjects`
  alone is not inductive, as it says nothing while a request is under way.
  `RejectedIsFinal` follows: a request about to publish knows the object to be as declared,
  and no other one has rejected it.
- `FacesInv`: how far an enrollment or a removal that met no other call has come
  (`MadeUpTo` k images and their records, beside those it is to retire), and that a status
  call saves nothing after a removal is settled.
- `RateInv`: hits and requests correspond one to one within what any instance still counts
  (`HitsAreRequests`, `RequestsAreHits`), across expiry and its reset of the counter
  (`Base`). Two injections between the hits of a window and the requests within a
  window more or less the skew (`CountsBound`) give both halves of `LimitIsExact`; of a
  refused request, `AdmittedAreFew` carries the count over from the request before it.

The specifications for TLC that put such components side by side imply each component's own
(`PartsBehave`, `AdministrationParts`, `StorageParts`), so that the theorems hold of
what the runs check, too (`AdministrationSafe`, `StorageSafe`, `AccessEnds`).

**`AdiwiyataReports_proofs`** proves `ReportsInv`: `PhasesInv` says, phase by phase,
what is known of the file, the object, the transaction and the report (an open
transaction has a stored object and a pending file, and no handler is on its way to
delete them, which is why `unsure` may not clean up); `LocksInv` says what an open
transaction has checked and its locks keep true (enrollment, no verified report of
the pair, no duplicate); `OneReportPerSite` completes it. Two action properties
(`ClosedAfterVerification`, `FiledUnderEnrolledClass`) follow from `LocksInv`, as
only `Commit` files.

`ReportsKeepTheBook` is the refinement of `ReportBook`, an atomic book of entries without files,
objects, handlers or locks. A commit is the only `Report`, long after its handler read
anything, and `LocksInv` is why it is one; a verification accepts one entry and no other,
since no two reports have one (`EntriesDiffer`); a transfer, exit or enrollment is a `Move`.

| theorem | property a run checks |
|---|---|
| `SchoolTyped`, `OutboxTyped`, `ReportsTyped` | `SchoolTypeOK`, `OutboxTypeOK`, `ReportsTypeOK` |
| `AccessTyped`, `AdministrationTyped`, `StorageTyped` | `AccessTypeOK`, `AdministrationTypeOK`, `StorageTypeOK` |
| `LeavePeriodsHold` | `LeavePeriodsSound` |
| `PresenceExcludesLeave` | `NoPresenceOnLeave` |
| `AttendanceUnique`, `CheckOutNeedsCheckIn` | `OneRowPerAction`, `CheckOutFollowsCheckIn` |
| `AuditTrailExplains`, `OutboxMatchesTrail` | `AuditExplainsLeave`, `OutboxMatchesAudit` |
| `RecordsAccountForThemselves`, `CalendarIsTheGates` | `RecordsAccountedFor`, `CalendarMatchesGate` |
| `SchoolKeepsTheBook` | `ImplementsDayBook` |
| `OutboxKeepsDelivery`, `DuplicatesExcused` | `ImplementsDelivery`, `DuplicatesAreExcused` |
| `LateWorkersDoNoHarm` | `LateWorkersAreHarmless` |
| `BindingsStayWithTheirStudent` | `BindingsMatchAccounts` |
| `ApprovedStudentsAreServed`, `StaleTokensAreOut` (decisions apart) | `ApprovedAreServed`, `StaleTokensStayOut` |
| `SettledRolesRule`, `StoresStayOne` | `SettledRolesAreInForce`, `StoresAgree` |
| `ButtonAndGateAgree`, `SavedAsTold` | `ButtonMatchesGate`, `ToldWhatIsSaved` |
| `PersonsHaveOneClass`, `AcceptedReportsAreEnrolled` | `OneClassPerPerson`, `AcceptedMeansEnrolled` |
| `OffersAreGranted`, `ActivationLeavesOne` | `OfferedIsGranted`, `ActivationSettles` |
| `PhotosAreKept`, `ObjectsAreTracked` | `ReportHasPhoto`, `ObjectsStayTracked` |
| `ReportsStayConsistent` | `ReportsConsistent` |
| `VerifiedPairsAreClosed`, `ReportsFollowEnrollment` | `ClosedAfterVerification`, `FiledUnderEnrolledClass` |
| `FilesTellTheTruth`, `RejectedFilesStay` | `FilesMatchObjects`, `RejectedIsFinal` |
| `FaceChangesSettle`, `LimitHolds` | `ChangesSettle`, `LimitIsExact` |

The other listed theorems state what these rest on, for a reader who wants it by itself:
each component's types and safety (`RecordsTyped`, `RecordsSafe`, `OutboxInvariant`,
`AccountsTyped`, `StaffTyped`, `ReportsSafe`), the parts of a property (`LeavesDisjoint`,
`PeriodsStayWellFormed`, `RecordsAccounted`, `CodesBurnAfterUse`, `SettledRolesMatch`,
`EmailsStayOne`, `ReportsAreUnique`, `TrailsAlternate`, `DeliveredIsReceived`), the safety
that the liveness of `settles` rests on (`PendingStaysBelowLimit`, `SignupsStayOpen`), and the
refinements `SchoolImplementsRecords` and `ReportsKeepTheBook`.

## What is only model-checked

- Liveness: `DeliveriesEnd` and `RegistrationRecovers`, on the instances of `settles`. Fairness
  and `ENABLED` are beyond the prover.
- What TLC finds false when the calls of two administrators about one student meet
  (`ApprovedAreServed`, `StaleTokensStayOut`): the runs have one administrator, the theorems
  any number with decisions apart.
- The three disagreements that are runs: TLC's counterexample is the evidence.

## Where the code and its documents disagree

Three disagreements are runs:

- `immutable` — `updateLeaveRequestStatus` checks the current status for approvals
  only (pg 1366–1380); a rejection or reopening whose service check
  (admin 2459, 2514) ran before an approval committed turns the approved period
  back. `docs/codebase-map/invariants.md:105`: "An approved Leave Period is immutable
  and cannot be reopened or extended."
- `reopened` — the event key of a reopening is `leave_reopened:<id>`, and
  `insertNotificationOutboxRow` returns an existing row of the key (pg 4095): the
  second reopening of a request notifies nobody.
  `docs/codebase-map/flows/leave-reopen.md:6` says it enqueues a push notification.
- `release` — `rejectStudent` clears the NIS before it unbinds and unbinds only by
  NIS (admin 980), so that a signup's later binding, or a retry after a failure,
  leaves the student bound to the rejected account.
  `tests/integration/student-accounts.test.ts:584` expects the NIS to be released.

Four more are stated as definitions that no run checks, since TLC finds each violated:

- `ClassFollowsEnrollment` (`ClassEnrollments`): a transfer inserts a row that names the
  account and no student (pg 2534), and readers by student id go on showing the old
  class, or none; `docs/codebase-map/invariants.md:35` says that the latest active
  enrollment supplies it.
- `RejectedIsNotRevived` (`StoredFiles`): two confirmations of one upload each read
  `pending`; the one that found the object writes `available` over the other's
  `rejected`; `invariants.md:25` says that rejected files are never silently
  reactivated.
- `PublishedIsVerified` (`StoredFiles`): `createAdminLeaveRequest` sets a pending file
  `available` with no look at its object (admin 2218), and `createPermit` one whose object
  is not there (`src/modules/permits/service.ts:133`); rule A06 at
  `src/modules/files/service.ts:166` lets a file become available once its object is
  verified.
- `EnrolledHasSupport` (`FaceEnrollment`): a removal that meets an enrollment empties
  Robin before the enrollment saves its state; the comment at
  `src/modules/enrollment/service.ts:99` says that `enrolled` is never saved without
  Robin's support.

Further ones were met while modelling:

- a withdrawal deletes by id what it read as pending
  (`src/modules/permits/service.ts:205`), approved by then or not;
- both removals of a leave request look its file up under the student
  (`src/modules/permits/service.ts:210`, admin 2565): the record of a file that the staff
  attached is not found and stays `available` while its object is deleted;
- the audit row of an approval has no actor name and role (pg 1326), unlike
  rejection and reopening;
- a failed notification retried with `reset_count = false` is pending at its
  limit and never claimed (admin 2696), against `invariants.md:110`;
- a signup that did not find a profile upserts it as pending even if it was
  approved meanwhile (pg 3794);
- a reset code can be used twice by simultaneous requests
  (`src/modules/auth/service.ts:140`), against the comment at its line 152;
- the label a submission answers with comes from the schedule of the class, the
  stored status from a schedule looked up without one
  (`src/modules/attendance/service.ts:501`, pg 1688);
- a class without a schedule falls back to any schedule of the weekday, another class's
  included (pg 957);
- a transferred student is missing from the Adiwiyata list (`no_active_enrollment`) while
  the dashboard serves them (pg 2534);
- dates of a period or a calendar exception that an update changes are passed as the
  parameter value `'<date>::date'` (pg 2259, 2949), which PostgreSQL refuses to read as a
  date; updates by `COALESCE` cannot clear a class or period;
- `README.md:189` speaks of correcting an unverified email and synchronising it to
  Logto: any email can be corrected, and an undo that fails is passed over (admin 1159);
- two simultaneous bootstraps may each create a school (admin 77).

The properties are stated so as to hold beside these, and say so: `AuditExplainsLeave`
speaks of rows that still exist; `DeliveriesEnd` is checked without `KeepCount`;
`ApprovedAreServed` allows a code two uses and, like `StaleTokensStayOut`, is for one
administrator of a student at a time, since two may interleave (admin 927).
`ActivationSettles`, `SettledRolesAgree`, `EmailsAgree` and `ChangesSettle` speak of changes
that met no other of the same object (`alone`), `ToldWhatIsSaved` of submissions that the two
schedule lookups answer alike. `FilesMatchObjects` and `RejectedIsFinal` speak of files that
none of these has touched (`excused`):

- the upload URL was used after a handler looked at the object or the record left `pending_upload`;
- `createPermit` attached a file whose object is not there, or `createAdminLeaveRequest` a
  pending one whose object is missing or not as declared;
- a leave request with a file of the staff was removed;
- a request about to verify the file met one about to remove it: the updates are by id;
- the deletion of an object failed unnoticed, or the request broke off between object and record.

## What is not modelled

- *The catalogue of roles and its permissions, and the password reset of staff*: single
  transactions whose result no modelled handler relies on before it writes; `StaffRoles`
  therefore lets a request name any role, and any request be refused.
- *Profile, avatar and password change*: one call of one user at a time, and no document
  says what a failure in between owes.
- *Staff notification routes* (`src/modules/staff/`): nothing imports the service.
- *Backup audit, health*: an audit row, and probes.
- *The in-memory provider*: it runs within one event-loop turn what PostgreSQL runs
  in a transaction; the models follow PostgreSQL, which interleaves.
- *HTTP surface*: routing, validation and envelopes; of the middleware the session cutoff
  and lifecycle gate are in `StudentAccounts` and `StaffRoles`, the limiter in `RateLimit`.
- *A failed upload is applied before its answer or not at all.* An aborted request
  the storage carries out after the cleanup would leave an object nobody tracks.
- *Check of a report submission* reads eligibility, Site and enrollment at one
  moment; the transaction reads them one after the other under its locks, which
  hold the enrollment and the pair but not the grant.
- *Paths drawn in one millisecond*: two attachments a student uploads within the same one get
  one path (`src/providers/storage/s3-storage.ts:296`), which `files.object_path` does not
  forbid; `StoredFiles` gives each record a path of its own.
- *Face images uploaded through an intent*: `deleteFaceEnrollmentFiles` marks their records
  deleted and leaves the objects; `FaceEnrollment` has the images that enrollments make.
- *The two statements of a binding*: `bindStudentToUser` selects and then upserts (pg 827), so
  that two bindings of one student at once could overwrite one another; `Bind` is one step
  that refuses in `StudentAccounts` and `ClassEnrollments`.
- *Audit rows* of the notification desk, of enrollments, staff and corrections, which no
  handler reads, and the *provider's own sessions*.
- Formatting, wording, reasons, distances, dates of periods and snapshots of actors.

## Plan

Every component with state that interleaves has its module. What is left, in the order
of what it adds:

1. Theorems: a measure of each row that no step of a worker raises, as a further part of
   `DeliveriesEnd` that is not liveness; `SchoolKeepsTheBook` for submissions that the answer
   of the gate decides.
2. Abstract specifications: an account (registered, serving, stopped) implemented by
   `StudentAccounts`; an enrollment book implemented by `ClassEnrollments`.
3. Compositions: `AdiwiyataReports` over the enrollment actions of `ClassEnrollments`;
   `AttendanceService` with the answer of `AttendanceGate` where it now may refuse at will.
4. The catalogue of roles, with the staff tokens that name an archived role.

Runs to come keep to the sizes above: two actors of each kind, one failure, two of
each value that is compared.
