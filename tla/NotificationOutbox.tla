------------------------ MODULE NotificationOutbox ------------------------
(***************************************************************************)
(* notification_outbox and the processes that write it: the notification   *)
(* workers, which claim due rows under a lease, hand them to the transport *)
(* and record the outcome, and the administrators, who retry and delete    *)
(* rows.  Every SQL statement is one step; a worker awaits between the     *)
(* claim, each send and each update, so anything may happen in between.    *)
(*                                                                         *)
(* The lease is the row's updated_at: every write of the row changes it,   *)
(* and a worker's update asks for the value its claim set.  Here a row     *)
(* names the worker whose claim was the last write on it (holder), which   *)
(* is the same comparison.  Clock readings are the two facts they decide:  *)
(* a pending row is due, the lease of a processing row has expired.        *)
(*                                                                         *)
(* Which events get a row is the business of StudentRecords.  The audit    *)
(* row of an administrator's operation is left out: nothing here reads it. *)
(***************************************************************************)
EXTENDS Naturals, FiniteSets, NoValue

CONSTANTS
  Rows,             \* bound: how many notifications are ever created
  Push,             \* those that go by push; the others by email
  Worker,           \* notification worker processes
  BatchSize,        \* rows a claim takes at most, 10 in the service
  MaxRetries,       \* failed deliveries a row may have, 3 in the service
  EarlyExpiry,      \* a batch may outlast its lease (120 s in the service)
  KeepCount,        \* administrators retry with reset_count = false
  MaxDisturbances   \* bound: crashes, database errors, administrator retries

\* A claim takes at least one row, and a row may fail at least once.
ASSUME OutboxAssumption ==
  /\ Rows \in Nat /\ Push \subseteq Nat
  /\ BatchSize \in Nat \ {0}
  /\ MaxRetries \in Nat \ {0}
  /\ EarlyExpiry \in BOOLEAN /\ KeepCount \in BOOLEAN
  /\ MaxDisturbances \in Nat
  /\ None \notin Worker

VARIABLES
  row,          \* notification_outbox, by order of creation
  worker,       \* the worker processes
  desk,         \* a row and retry count an administrator's retry has read
  disturbances

outboxVars == <<row, worker, desk, disturbances>>

Notification == 1 .. Rows
NoRow == 0

Settled == {"delivered", "failed"}
Stored == {"pending", "processing"} \cup Settled

\* received: how often the transport took the message since the row was
\* created or last retried by an administrator (2: more than once).
\* suspect: something has happened that may deliver the message twice.
RowState ==
  [status : Stored \cup {"unused", "deleted"}, retry : 0 .. MaxRetries,
   due : BOOLEAN, holder : Worker \cup {None}, expired : BOOLEAN,
   received : 0 .. 2, suspect : BOOLEAN]

\* todo: claimed rows still to be sent; now: the row in flight; outcome: what
\* is to be recorded for it ("last": its failure, for the second time); seen:
\* the retry count the claim returned for each.
WorkerState ==
  [mode : {"down", "running", "stopping"}, todo : SUBSET Notification,
   now : Notification \cup {NoRow}, outcome : {"none", "ok", "failed", "last"},
   seen : [Notification -> 0 .. MaxRetries]]

OutboxTypeOK ==
  /\ row \in [Notification -> RowState]
  /\ worker \in [Worker -> WorkerState]
  /\ desk \in {None} \cup [id : Notification, retry : 0 .. MaxRetries]
  /\ disturbances \in 0 .. MaxDisturbances

NoneSeen == [n \in Notification |-> 0]

Idle(mode) == [mode |-> mode, todo |-> {}, now |-> NoRow, outcome |-> "none",
               seen |-> NoneSeen]

OutboxInit ==
  /\ row = [n \in Notification |->
              [status |-> "unused", retry |-> 0, due |-> FALSE, holder |-> None,
               expired |-> FALSE, received |-> 0, suspect |-> FALSE]]
  /\ worker = [w \in Worker |-> Idle("down")]
  /\ desk = None
  /\ disturbances = 0

Disturb == /\ disturbances < MaxDisturbances
           /\ disturbances' = disturbances + 1

InHand(w, n) == n = worker[w].now \/ n \in worker[w].todo
InSomeHand(n) == \E w \in Worker : InHand(w, n)

\* Variant: the update asks for the status alone.
Holds_StatusOnly(w, n) == row[n].status = "processing"

\* Variant: the update asks for nothing but the id.
Holds_IdOnly(w, n) == row[n].status \in Stored

\* status = 'processing' and updated_at as this worker's claim left it.
Holds(w, n) == row[n].status = "processing" /\ row[n].holder = w

-----------------------------------------------------------------------------
\* A row is inserted pending, due at once or at the next_retry_at it is given.
\* The decisions on leaves, attendances and accounts give none.
EnqueueNotification(n, due) ==
  /\ row[n].status = "unused"
  /\ \A m \in 1 .. n - 1 : row[m].status # "unused"
  /\ row' = [row EXCEPT ![n].status = "pending", ![n].due = due]
  /\ UNCHANGED <<worker, desk, disturbances>>

\* next_retry_at passes.
BackoffElapses(n) ==
  /\ row[n].status = "pending" /\ ~row[n].due
  /\ row' = [row EXCEPT ![n].due = TRUE]
  /\ UNCHANGED <<worker, desk, disturbances>>

\* leaseMs passes since the claim, while the worker still has the row in hand
\* only if the batch is slower than the lease.
LeaseExpires(n) ==
  /\ row[n].status = "processing" /\ ~row[n].expired
  /\ LET early == row[n].holder \in Worker /\ InHand(row[n].holder, n) IN
       /\ early => EarlyExpiry
       /\ row' = [row EXCEPT ![n].expired = TRUE, ![n].suspect = @ \/ early]
  /\ UNCHANGED <<worker, desk, disturbances>>

-----------------------------------------------------------------------------
\* The worker.

\* Variant: rows at the retry limit are taken as well.
Claimable_NoLimit ==
  {n \in Notification : \/ row[n].status = "pending" /\ row[n].due
                        \/ row[n].status = "processing" /\ row[n].expired}

\* Variant: the lease is not looked at.
Claimable_NoLease ==
  {n \in Notification :
     /\ row[n].status = "processing" \/ (row[n].status = "pending" /\ row[n].due)
     /\ row[n].retry < MaxRetries}

\* Variant: rows of a dead worker are never taken again.
Claimable_NoReclaim ==
  {n \in Notification :
     row[n].status = "pending" /\ row[n].due /\ row[n].retry < MaxRetries}

Claimable ==
  {n \in Notification :
     /\ \/ row[n].status = "pending" /\ row[n].due
        \/ row[n].status = "processing" /\ row[n].expired
     /\ row[n].retry < MaxRetries}

\* The oldest claimable rows, a batch of them at most.
NextBatch == {n \in Claimable : Cardinality({m \in Claimable : m < n}) < BatchSize}

ClaimPendingNotifications(w) ==
  /\ worker[w] = Idle("running")
  /\ NextBatch # {}
  /\ row' = [n \in Notification |->
               IF n \in NextBatch
               THEN [row[n] EXCEPT !.status = "processing", !.holder = w, !.expired = FALSE]
               ELSE row[n]]
  /\ worker' = [worker EXCEPT
       ![w].todo = NextBatch,
       ![w].seen = [n \in Notification |-> IF n \in NextBatch THEN row[n].retry ELSE 0]]
  /\ UNCHANGED <<desk, disturbances>>

\* What the transport answers, and whether it took the message.
Answer(outcome, got) == [outcome |-> outcome, got |-> got]

\* sendEmail takes every message, for the log, that has an address.
SendEmail == {Answer("ok", TRUE), Answer("failed", FALSE)}

\* sendPush: a message without a token goes nowhere, and of one that was taken
\* the answer may be an error, or lost, or come after the five-second timeout.
SendPush == SendEmail \cup {Answer("failed", TRUE)}

\* The worker does not look at the row again before it sends.
Send(w, n) ==
  /\ worker[w].now = NoRow
  /\ n \in worker[w].todo
  /\ \E answer \in IF n \in Push THEN SendPush ELSE SendEmail :
       /\ worker' = [worker EXCEPT ![w].todo = @ \ {n}, ![w].now = n,
                                   ![w].outcome = answer.outcome]
       /\ row' = IF answer.got
                 THEN [row EXCEPT ![n].received = IF @ < 2 THEN @ + 1 ELSE 2,
                                  ![n].suspect = @ \/ answer.outcome # "ok"]
                 ELSE row
  /\ UNCHANGED <<desk, disturbances>>

\* On to the next row of the batch.
Proceed(w) ==
  worker' = [worker EXCEPT ![w].now = NoRow, ![w].outcome = "none",
                           ![w].seen[worker[w].now] = 0]

RecordDelivered(w) ==
  LET n == worker[w].now IN
  /\ worker[w].outcome = "ok"
  /\ Holds(w, n)
  /\ row' = [row EXCEPT ![n].status = "delivered", ![n].due = TRUE,
                        ![n].holder = None, ![n].expired = FALSE]
  /\ Proceed(w)
  /\ UNCHANGED <<desk, disturbances>>

LimitReached(count) == count >= MaxRetries

\* handleDeliveryFailure, which counts from the retry count of the claim.
HandleDeliveryFailure(w) ==
  LET n == worker[w].now
      nextRetryCount == worker[w].seen[n] + 1
      final == LimitReached(nextRetryCount)
  IN  /\ worker[w].outcome \in {"failed", "last"}
      /\ Holds(w, n)
      /\ row' = [row EXCEPT ![n].status = IF final THEN "failed" ELSE "pending",
                            ![n].retry = nextRetryCount, ![n].due = final,
                            ![n].holder = None, ![n].expired = FALSE]
      /\ Proceed(w)
      /\ UNCHANGED <<desk, disturbances>>

\* 409: another write came after the claim.  The result is dropped.
LeaseLost(w) ==
  LET n == worker[w].now IN
  /\ n # NoRow
  /\ ~Holds(w, n) /\ row[n].status # "deleted"
  /\ Proceed(w)
  /\ UNCHANGED <<row, desk, disturbances>>

AbortBatch(w) == worker' = [worker EXCEPT ![w] = Idle(worker[w].mode)]

\* 404: the row was deleted.  The error leaves processBatch, and the rows not
\* yet sent stay processing until their lease expires.
RowGone(w) ==
  /\ worker[w].now # NoRow
  /\ row[worker[w].now].status = "deleted"
  /\ AbortBatch(w)
  /\ UNCHANGED <<row, desk, disturbances>>

\* The update fails in the database.  A delivered row is then handled as a
\* failed one, a failure is written once more, and a second error leaves
\* processBatch.
UpdateFails(w) ==
  LET n == worker[w].now IN
  /\ n # NoRow
  /\ Disturb
  /\ IF worker[w].outcome = "last"
     THEN AbortBatch(w)
     ELSE worker' = [worker EXCEPT ![w].outcome = "last"]
  /\ row' = [row EXCEPT ![n].suspect = @ \/ worker[w].outcome = "ok"]
  /\ UNCHANGED desk

Start(w) ==
  /\ worker[w].mode = "down"
  /\ worker' = [worker EXCEPT ![w] = Idle("running")]
  /\ UNCHANGED <<row, desk, disturbances>>

\* A signal: no further claim, and the batch at hand is finished first.
Stop(w) ==
  /\ worker[w].mode = "running"
  /\ worker' = [worker EXCEPT ![w].mode = "stopping"]
  /\ UNCHANGED <<row, desk, disturbances>>

Exit(w) ==
  /\ worker[w] = Idle("stopping")
  /\ worker' = [worker EXCEPT ![w] = Idle("down")]
  /\ UNCHANGED <<row, desk, disturbances>>

\* The process dies, or is forced out ten seconds after the signal.
Crash(w) ==
  /\ worker[w].mode # "down"
  /\ Disturb
  /\ worker' = [worker EXCEPT ![w] = Idle("down")]
  /\ row' = [n \in Notification |->
               IF n = worker[w].now /\ worker[w].outcome = "ok"
               THEN [row[n] EXCEPT !.suspect = TRUE] ELSE row[n]]
  /\ UNCHANGED desk

-----------------------------------------------------------------------------
\* Administrators.

\* enqueueAdminNotification may be given a next_retry_at.
EnqueueAdminNotification(n) == \E due \in BOOLEAN : EnqueueNotification(n, due)

\* The unguarded update of an administrator's retry: pending and due, whatever
\* the row was and whoever has it in hand.
MakePending(n, count) ==
  row' = [row EXCEPT ![n] = [@ EXCEPT !.status = "pending", !.retry = count, !.due = TRUE,
                                      !.holder = None, !.expired = FALSE, !.received = 0,
                                      !.suspect = InSomeHand(n)]]

\* getNotificationById, whose answer is null for a row that is gone.
Found(n) == row[n].status \in Stored

\* retryAdminNotification
RetryNotification(n) ==
  /\ Found(n)
  /\ Disturb
  /\ MakePending(n, 0)
  /\ UNCHANGED <<worker, desk>>

\* The same with reset_count = false, which writes back the count it read ...
ReadRetryCount(n) ==
  /\ KeepCount
  /\ desk = None
  /\ Found(n)
  /\ Disturb
  /\ desk' = [id |-> n, retry |-> row[n].retry]
  /\ UNCHANGED <<row, worker>>

\* ... in a later statement, unless the row is gone by then.
RetryKeepingCount ==
  /\ desk # None
  /\ IF row[desk.id].status = "deleted" THEN UNCHANGED row
                                        ELSE MakePending(desk.id, desk.retry)
  /\ desk' = None
  /\ UNCHANGED <<worker, disturbances>>

\* deleteNotification of the store.
Delete(n) ==
  row' = [row EXCEPT ![n].status = "deleted", ![n].due = FALSE,
                     ![n].holder = None, ![n].expired = FALSE]

\* deleteAdminNotification
DeleteNotification(n) ==
  /\ Found(n)
  /\ Delete(n)
  /\ UNCHANGED <<worker, desk, disturbances>>

-----------------------------------------------------------------------------
\* The part of a worker that is not the environment's doing.
WorkerStep(w) ==
  \/ ClaimPendingNotifications(w)
  \/ \E n \in Notification : Send(w, n)
  \/ RecordDelivered(w)
  \/ HandleDeliveryFailure(w)
  \/ LeaseLost(w)
  \/ RowGone(w)
  \/ Exit(w)

AdminStep(n) ==
  \/ EnqueueAdminNotification(n)
  \/ RetryNotification(n)
  \/ ReadRetryCount(n)
  \/ DeleteNotification(n)

OutboxNext ==
  \/ \E n \in Notification :
       \/ EnqueueNotification(n, TRUE)
       \/ BackoffElapses(n)
       \/ LeaseExpires(n)
       \/ AdminStep(n)
  \/ RetryKeepingCount
  \/ \E w \in Worker :
       \/ WorkerStep(w)
       \/ UpdateFails(w)
       \/ Start(w)
       \/ Stop(w)
       \/ Crash(w)

OutboxSpec == OutboxInit /\ [][OutboxNext]_outboxVars

\* A worker that runs keeps polling and working; clocks move on.
OutboxFairness ==
  /\ \A w \in Worker : WF_outboxVars(WorkerStep(w))
  /\ \A n \in Notification : WF_outboxVars(BackoffElapses(n)) /\ WF_outboxVars(LeaseExpires(n))

FairOutboxSpec == OutboxSpec /\ OutboxFairness

-----------------------------------------------------------------------------
\* "Only a successful transport result becomes delivered" (INV-ASTRA-006),
\* although the worker that records it may have lost its lease, crashed,
\* failed to write or been overtaken by an administrator's retry meanwhile.
DeliveredWasReceived ==
  \A n \in Notification : row[n].status = "delivered" => row[n].received > 0

\* A row that waits or is being worked on is below the retry limit, where a
\* claim can still take it; a failed row is one that has reached the limit.
\* "A failed notification delivery remains pending [...] until the retry
\* limit, then becomes failed" (INV-ASTRA-006).
PendingBelowLimit ==
  \A n \in Notification :
    /\ row[n].status \in {"pending", "processing"} => row[n].retry < MaxRetries
    /\ row[n].status = "failed" => row[n].retry = MaxRetries

\* A message is handed to the transport successfully twice only if something
\* made that unavoidable: an answer lost on the way, a crash or a database
\* error between sending and recording, a batch slower than its lease, or an
\* administrator's retry of a row in flight.  Two workers polling the same
\* table are no reason.
DuplicatesAreExcused ==
  \A n \in Notification : row[n].received = 2 => row[n].suspect

\* Workers that were overtaken do no harm.  A worker writes the retry count
\* from the copy its claim returned, yet the count in the row never moves but
\* one up by that: no failure is lost or counted twice.  And a row that was
\* delivered, failed or deleted is out of the workers' reach: no late answer,
\* retry or second claim changes it.
LateWorkersAreHarmless ==
  [][\A w \in Worker : worker'[w] # worker[w] =>
       \A n \in Notification :
         /\ row'[n].retry \in {row[n].retry, row[n].retry + 1}
         /\ row[n].status \in Settled \cup {"deleted"} => row'[n].status = row[n].status]_<<row, worker>>

\* A row as the message it stands for: who is at work on it, under which lease,
\* is nobody else's business.
StateOf(n) ==
  CASE row[n].status = "unused" -> "absent"
    [] row[n].status \in {"pending", "processing"} -> "waiting"
    [] OTHER -> row[n].status

Delivery == INSTANCE MessageDelivery WITH
              Message <- Notification, Tries <- MaxRetries,
              state   <- [n \in Notification |-> StateOf(n)],
              missed  <- [n \in Notification |-> row[n].retry],
              copies  <- [n \in Notification |-> row[n].received],
              excused <- [n \in Notification |-> row[n].suspect]

\* Claims, leases and retries implement that: each step of a worker, an
\* administrator, a clock or a crash is one of one message, or of none.
ImplementsDelivery == Delivery!DeliverySpec

Runs(w) == worker[w].mode = "running"

\* As long as one worker stays up, every notification is eventually delivered,
\* failed for good, or deleted: claims of dead workers lapse, lost batches are
\* taken again and backoffs end.
EveryNotificationSettles ==
  (\E w \in Worker : <>[]Runs(w))
    => \A n \in Notification :
         row[n].status \in {"pending", "processing"} ~> row[n].status \in Settled \cup {"deleted"}

\* Deliveries come to an end, and give up at the limit and not before.
DeliveriesEnd == []PendingBelowLimit /\ EveryNotificationSettles
=============================================================================
