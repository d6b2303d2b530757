--------------------- MODULE NotificationOutbox_proofs ---------------------
(***************************************************************************)
(* Proofs about the outbox, for any number of notifications, workers,      *)
(* retries and disturbances and for every batch size.                      *)
(***************************************************************************)
EXTENDS NotificationOutbox, TLAPS

-----------------------------------------------------------------------------
(***************************************************************************)
(* What the workers have in hand, and what their leases are worth.         *)
(***************************************************************************)

\* A row in flight has an outcome and is no longer to be sent, and a process
\* that is down has nothing in hand.
WorkInOrder ==
  \A w \in Worker :
    /\ worker[w].now \notin worker[w].todo
    /\ worker[w].now = NoRow <=> worker[w].outcome = "none"
    /\ worker[w].mode = "down" => worker[w] = Idle("down")

\* A row is claimed below the retry limit, and nobody counts a failure of it
\* without letting go of it.
ClaimedBelowLimit ==
  \A n \in Notification : row[n].status = "processing" => row[n].retry < MaxRetries

\* A worker that still holds a row has its retry count as the claim read it.
CopiesAreFresh ==
  \A w \in Worker, n \in Notification :
    InHand(w, n) /\ Holds(w, n) => worker[w].seen[n] = row[n].retry

Leases == OutboxTypeOK /\ WorkInOrder /\ ClaimedBelowLimit /\ CopiesAreFresh

\* A row that goes delivered has been received: the transport took the message
\* a worker is about to record, if the worker still holds the row.
SentIsReceived ==
  \A w \in Worker :
    worker[w].outcome = "ok" /\ Holds(w, worker[w].now) => row[worker[w].now].received > 0

\* Where nothing that excuses a duplicate has happened to a row: one worker at
\* most has it in hand, and holds it under a lease that has not expired unless
\* the row is deleted; a row still to be sent has not been received; and a row
\* that was received is delivered, deleted or about to be recorded.
Unsuspected(n) ==
  /\ \A w \in Worker : InHand(w, n) =>
       /\ \A v \in Worker : InHand(v, n) => v = w
       /\ row[n].status = "deleted" \/ (Holds(w, n) /\ ~row[n].expired)
       /\ n \in worker[w].todo => row[n].received = 0
  /\ row[n].received > 0 =>
       \/ row[n].status \in {"delivered", "deleted"}
       \/ \E w \in Worker : Holds(w, n) /\ worker[w].now = n /\ worker[w].outcome = "ok"
  /\ row[n].received < 2

NothingUnexplained == \A n \in Notification : ~row[n].suspect => Unsuspected(n)

\* A row is failed when it has failed as often as the limit allows.
FailedAtLimit == \A n \in Notification : row[n].status = "failed" => row[n].retry = MaxRetries

Receipts == SentIsReceived /\ DeliveredWasReceived /\ NothingUnexplained /\ FailedAtLimit

-----------------------------------------------------------------------------
(***************************************************************************)
(* The leases are kept by every step.                                      *)
(***************************************************************************)

\* The constants, where the proofs need them.
LEMMA Bounds ==
  /\ MaxRetries \in Nat /\ MaxRetries >= 1 /\ MaxDisturbances \in Nat
  /\ NoRow = 0 /\ NoRow \notin Notification /\ None \notin Worker
  /\ Notification \subseteq Nat
BY OutboxAssumption DEF Notification, NoRow

\* A worker with nothing in hand is in a state of its type, and in order.
LEMMA IdleType ==
  ASSUME NEW mode \in {"down", "running", "stopping"}
  PROVE  /\ Idle(mode) \in WorkerState
         /\ Idle(mode).now = NoRow /\ Idle(mode).todo = {}
         /\ Idle(mode).outcome = "none" /\ Idle(mode).mode = mode
BY Bounds DEF Idle, WorkerState, NoneSeen

\* Initially nothing is stored and every process is down.
LEMMA LeasesInit == OutboxInit => Leases
<1> SUFFICES ASSUME OutboxInit PROVE Leases
  OBVIOUS
<1>1. OutboxTypeOK
  BY Bounds, IdleType DEF OutboxInit, OutboxTypeOK, RowState
<1>2. WorkInOrder
  BY Bounds, IdleType DEF OutboxInit, WorkInOrder
<1>3. ClaimedBelowLimit /\ CopiesAreFresh
  BY DEF OutboxInit, ClaimedBelowLimit, CopiesAreFresh, Holds
<1>. QED
  BY <1>1, <1>2, <1>3 DEF Leases

\* A step that leaves the workers alone, and rewrites one row so that nobody
\* holds it in consequence, keeps the leases.
LEMMA RowWritten ==
  ASSUME Leases, NEW n \in Notification, NEW new \in RowState,
         row' = [row EXCEPT ![n] = new],
         \/ new.status # "processing"
         \/ /\ new.status = row[n].status /\ new.holder = row[n].holder
            /\ new.retry = row[n].retry,
         UNCHANGED worker,
         desk' \in {None} \cup [id : Notification, retry : 0 .. MaxRetries],
         disturbances' \in 0 .. MaxDisturbances
  PROVE  Leases'
<1>1. OutboxTypeOK'
  BY DEF Leases, OutboxTypeOK
<1>2. row'[n] = new /\ \A m \in Notification \ {n} : row'[m] = row[m]
  BY DEF Leases, OutboxTypeOK
<1>3. WorkInOrder'
  BY DEF Leases, WorkInOrder, Idle, NoneSeen
<1>4. ClaimedBelowLimit'
  BY <1>2 DEF Leases, ClaimedBelowLimit
<1>5. CopiesAreFresh'
  BY <1>2 DEF Leases, CopiesAreFresh, InHand, Holds
<1>. QED
  BY <1>1, <1>3, <1>4, <1>5 DEF Leases

\* A row that an administrator retried has the type of the table.
LEMMA PendingType ==
  ASSUME NEW r \in RowState, NEW count \in 0 .. MaxRetries, NEW inHand \in BOOLEAN,
         NEW received \in 0 .. 2
  PROVE  [r EXCEPT !.status = "pending", !.retry = count, !.due = TRUE, !.holder = None,
                   !.expired = FALSE, !.received = received, !.suspect = inHand] \in RowState
BY DEF RowState, Stored

\* Enqueueing, backoffs and leases that end, and what administrators do.
LEMMA LeasesOutside ==
  ASSUME Leases,
         \/ \E n \in Notification :
              \/ EnqueueNotification(n, TRUE)
              \/ BackoffElapses(n)
              \/ LeaseExpires(n)
              \/ AdminStep(n)
         \/ RetryKeepingCount
  PROVE  Leases'
<1>a. /\ row \in [Notification -> RowState]
      /\ desk \in {None} \cup [id : Notification, retry : 0 .. MaxRetries]
      /\ disturbances \in 0 .. MaxDisturbances
  BY DEF Leases, OutboxTypeOK
<1>b. \A n \in Notification : row[n] \in RowState
  BY <1>a
<1>1. ASSUME NEW n \in Notification, NEW due \in BOOLEAN, EnqueueNotification(n, due)
      PROVE  Leases'
  <2> DEFINE new == [row[n] EXCEPT !.status = "pending", !.due = due]
  <2>1. new \in RowState /\ new.status = "pending"
    BY <1>b DEF RowState, Stored
  <2>2. row' = [row EXCEPT ![n] = new]
    BY <1>1, <1>a DEF EnqueueNotification, RowState
  <2>. QED
    BY <1>1, <1>a, <2>1, <2>2, RowWritten DEF EnqueueNotification
<1>2. ASSUME NEW n \in Notification, BackoffElapses(n)
      PROVE  Leases'
  <2> DEFINE new == [row[n] EXCEPT !.due = TRUE]
  <2>1. new \in RowState /\ new.status = "pending"
    BY <1>2, <1>b DEF RowState, BackoffElapses
  <2>2. row' = [row EXCEPT ![n] = new]
    BY <1>2, <1>a DEF BackoffElapses, RowState
  <2>. QED
    BY <1>2, <1>a, <2>1, <2>2, RowWritten DEF BackoffElapses
<1>3. ASSUME NEW n \in Notification, LeaseExpires(n)
      PROVE  Leases'
  <2> DEFINE early == row[n].holder \in Worker /\ InHand(row[n].holder, n)
             new == [row[n] EXCEPT !.expired = TRUE, !.suspect = @ \/ early]
  <2>1. new \in RowState /\ new.status = row[n].status /\ new.holder = row[n].holder
           /\ new.retry = row[n].retry
    BY <1>b DEF RowState
  <2>2. row' = [row EXCEPT ![n] = new]
    BY <1>3, <1>a DEF LeaseExpires, RowState
  <2>. QED
    BY <1>3, <1>a, <2>1, <2>2, RowWritten DEF LeaseExpires
<1>4. ASSUME NEW n \in Notification, NEW count \in 0 .. MaxRetries, MakePending(n, count),
             UNCHANGED worker,
             desk' \in {None} \cup [id : Notification, retry : 0 .. MaxRetries],
             disturbances' \in 0 .. MaxDisturbances
      PROVE  Leases'
  <2>0. PICK none \in 0 .. 2 : none = 0
    OBVIOUS
  <2>1. PICK inHand \in BOOLEAN : inHand = InSomeHand(n)
    BY DEF InSomeHand
  <2> DEFINE new == [row[n] EXCEPT !.status = "pending", !.retry = count, !.due = TRUE,
                                   !.holder = None, !.expired = FALSE, !.received = none,
                                   !.suspect = inHand]
  <2>2. row[n] \in RowState
    BY <1>b
  <2>3. new \in RowState
    BY <2>2, PendingType
  <2>4. new.status = "pending"
    BY <2>2 DEF RowState
  <2>5. row' = [row EXCEPT ![n] = new]
    BY <1>4, <1>a, <2>0, <2>1 DEF MakePending
  <2>. QED
    BY <1>4, <1>a, <2>3, <2>4, <2>5, RowWritten
<1>5. Disturb => disturbances' \in 0 .. MaxDisturbances
  BY <1>a, Bounds DEF Disturb
<1>6. ASSUME NEW n \in Notification, RetryNotification(n)
      PROVE  Leases'
  BY <1>6, <1>4, <1>5, <1>a, Bounds DEF RetryNotification
<1>7. ASSUME NEW n \in Notification, ReadRetryCount(n)
      PROVE  Leases'
  <2>1. row[n].retry \in 0 .. MaxRetries
    BY <1>b DEF RowState
  <2>2. OutboxTypeOK'
    BY <1>7, <1>5, <2>1 DEF ReadRetryCount, Leases, OutboxTypeOK
  <2>. QED
    BY <1>7, <2>2 DEF ReadRetryCount, Leases, WorkInOrder, ClaimedBelowLimit, CopiesAreFresh,
                      InHand, Holds
<1>8. ASSUME RetryKeepingCount
      PROVE  Leases'
  <2>1. desk.id \in Notification /\ desk.retry \in 0 .. MaxRetries
    BY <1>8, <1>a DEF RetryKeepingCount
  <2>2. CASE row[desk.id].status = "deleted"
    BY <1>8, <2>2 DEF RetryKeepingCount, Leases, OutboxTypeOK, WorkInOrder, ClaimedBelowLimit,
                      CopiesAreFresh, InHand, Holds
  <2>3. CASE row[desk.id].status # "deleted"
    <3>1. desk' = None /\ disturbances' = disturbances /\ UNCHANGED worker
      BY <1>8 DEF RetryKeepingCount
    <3>2. MakePending(desk.id, desk.retry)
      BY <1>8, <2>3 DEF RetryKeepingCount
    <3>. QED
      BY <1>4, <1>a, <2>1, <3>1, <3>2
  <2>. QED
    BY <2>2, <2>3
<1>9. ASSUME NEW n \in Notification, DeleteNotification(n)
      PROVE  Leases'
  <2> DEFINE new == [row[n] EXCEPT !.status = "deleted", !.due = FALSE,
                                   !.holder = None, !.expired = FALSE]
  <2>1. new \in RowState /\ new.status = "deleted"
    BY <1>b DEF RowState
  <2>2. row' = [row EXCEPT ![n] = new]
    BY <1>9, <1>a DEF DeleteNotification, Delete, RowState
  <2>. QED
    BY <1>9, <1>a, <2>1, <2>2, RowWritten DEF DeleteNotification
<1>. QED
  BY <1>1, <1>2, <1>3, <1>6, <1>7, <1>8, <1>9 DEF AdminStep, EnqueueAdminNotification

\* A step of one worker that leaves all rows alone, or rewrites one so that
\* nobody holds it in consequence, keeps the leases, provided the worker is in
\* order afterwards, has nothing new in hand and rewrites no copy it still needs.
LEMMA WorkerMoved ==
  ASSUME Leases, NEW w \in Worker, NEW next \in WorkerState,
         worker' = [worker EXCEPT ![w] = next],
         next.now \notin next.todo,
         next.now = NoRow <=> next.outcome = "none",
         next.mode = "down" => next = Idle("down"),
         \A n \in Notification : (n = next.now \/ n \in next.todo) =>
            InHand(w, n) /\ next.seen[n] = worker[w].seen[n],
         row' \in [Notification -> RowState],
         \A n \in Notification : row'[n].status = "processing" =>
            /\ row[n].status = "processing" /\ row'[n].holder = row[n].holder
            /\ row'[n].retry = row[n].retry,
         UNCHANGED desk, disturbances' \in 0 .. MaxDisturbances
  PROVE  Leases'
<1>1. worker'[w] = next /\ \A v \in Worker \ {w} : worker'[v] = worker[v]
  BY DEF Leases, OutboxTypeOK
<1>2. OutboxTypeOK'
  BY DEF Leases, OutboxTypeOK
<1>3. WorkInOrder'
  BY <1>1, ZenonT(60) DEF Leases, WorkInOrder, Idle, NoneSeen
<1>4. ClaimedBelowLimit'
  BY DEF Leases, ClaimedBelowLimit
<1>5. CopiesAreFresh'
  <2> SUFFICES ASSUME NEW v \in Worker, NEW n \in Notification,
                      InHand(v, n)', Holds(v, n)'
               PROVE  worker'[v].seen[n] = row'[n].retry
    BY DEF CopiesAreFresh
  <2>1. InHand(v, n) /\ worker'[v].seen[n] = worker[v].seen[n]
    BY <1>1 DEF InHand
  <2>2. Holds(v, n) /\ row'[n].retry = row[n].retry
    BY DEF Holds
  <2>. QED
    BY <2>1, <2>2 DEF Leases, CopiesAreFresh
<1>. QED
  BY <1>2, <1>3, <1>4, <1>5 DEF Leases

\* A claim takes rows below the limit, and a copy of each retry count.
LEMMA LeasesClaim ==
  ASSUME Leases, NEW w \in Worker, ClaimPendingNotifications(w)
  PROVE  Leases'
<1> DEFINE batch == NextBatch
           claimed(n) == [row[n] EXCEPT !.status = "processing", !.holder = w, !.expired = FALSE]
           copy == [n \in Notification |-> IF n \in batch THEN row[n].retry ELSE 0]
           next == [worker[w] EXCEPT !.todo = batch, !.seen = copy]
<1>1. batch \subseteq Notification /\ \A n \in batch : row[n].retry < MaxRetries
  BY DEF NextBatch, Claimable
<1> HIDE DEF batch
<1>2. /\ worker' = [worker EXCEPT ![w] = next]
      /\ row' = [n \in Notification |-> IF n \in batch THEN claimed(n) ELSE row[n]]
      /\ UNCHANGED <<desk, disturbances>>
  BY DEF ClaimPendingNotifications, Leases, OutboxTypeOK, WorkerState, batch
<1>3. row \in [Notification -> RowState] /\ worker \in [Worker -> WorkerState]
  BY DEF Leases, OutboxTypeOK
<1>4. \A n \in Notification : row[n] \in RowState /\ row[n].retry \in 0 .. MaxRetries
  BY <1>3 DEF RowState
<1>5. \A n \in Notification : claimed(n) \in RowState
  BY <1>4 DEF RowState, Stored
<1>6. worker[w] \in WorkerState /\ worker[w] = Idle("running")
  BY <1>3 DEF ClaimPendingNotifications
<1>7. next \in WorkerState
  <2>1. copy \in [Notification -> 0 .. MaxRetries]
    BY <1>4, Bounds
  <2> HIDE DEF copy
  <2>. QED
    BY <2>1, <1>1, <1>6 DEF WorkerState
<1>8. worker'[w] = next /\ \A v \in Worker \ {w} : worker'[v] = worker[v]
  BY <1>2, <1>3
<1>9. /\ next.now = NoRow /\ next.outcome = "none" /\ next.mode = "running"
      /\ next.todo = batch
  BY <1>6, IdleType DEF WorkerState
<1>10. OutboxTypeOK'
  BY <1>2, <1>3, <1>4, <1>5, <1>7 DEF Leases, OutboxTypeOK
<1>11. WorkInOrder'
  BY <1>1, <1>8, <1>9, Bounds, ZenonT(60) DEF Leases, WorkInOrder, Idle, NoneSeen
<1>12. \A n \in Notification :
         /\ row'[n].retry = row[n].retry
         /\ n \in batch => row'[n].status = "processing" /\ row'[n].holder = w
         /\ n \notin batch => row'[n] = row[n]
  BY <1>2, <1>4 DEF RowState
<1>13. ClaimedBelowLimit'
  BY <1>1, <1>12 DEF Leases, ClaimedBelowLimit
<1>14. CopiesAreFresh'
  <2> SUFFICES ASSUME NEW v \in Worker, NEW n \in Notification,
                      InHand(v, n)', Holds(v, n)'
               PROVE  worker'[v].seen[n] = row'[n].retry
    BY DEF CopiesAreFresh
  <2>1. CASE v = w
    <3>1. n \in batch
      BY <2>1, <1>8, <1>9, Bounds DEF InHand
    <3>2. next.seen[n] = row[n].retry
      BY <3>1, <1>1, <1>6 DEF WorkerState
    <3>. QED
      BY <2>1, <3>2, <1>8, <1>12
  <2>2. CASE v # w
    <3>1. InHand(v, n) /\ worker'[v] = worker[v]
      BY <2>2, <1>8 DEF InHand
    <3>2. n \notin batch
      BY <2>2, <1>12 DEF Holds
    <3>3. row'[n] = row[n] /\ Holds(v, n)
      BY <3>2, <1>12 DEF Holds
    <3>. QED
      BY <3>1, <3>3 DEF Leases, CopiesAreFresh
  <2>. QED
    BY <2>1, <2>2
<1>. QED
  BY <1>10, <1>11, <1>13, <1>14 DEF Leases

\* A worker that proceeds to its next row keeps the rest of its batch.
LEMMA ProceedType ==
  ASSUME Leases, NEW w \in Worker, Proceed(w), worker[w].now # NoRow
  PROVE  \E next \in WorkerState :
           /\ worker' = [worker EXCEPT ![w] = next]
           /\ next.now = NoRow /\ next.outcome = "none"
           /\ next.todo = worker[w].todo /\ next.mode = worker[w].mode
           /\ \A n \in next.todo : next.seen[n] = worker[w].seen[n]
<1> DEFINE seen == [worker[w].seen EXCEPT ![worker[w].now] = 0]
           next == [worker[w] EXCEPT !.now = NoRow, !.outcome = "none", !.seen = seen]
<1>1. worker \in [Worker -> WorkerState] /\ worker[w] \in WorkerState
  BY DEF Leases, OutboxTypeOK
<1>2. /\ worker[w].now \in Notification /\ worker[w].todo \subseteq Notification
      /\ worker[w].seen \in [Notification -> 0 .. MaxRetries]
      /\ worker[w].now \notin worker[w].todo
  BY <1>1 DEF WorkerState, Leases, WorkInOrder
<1>3. /\ seen \in [Notification -> 0 .. MaxRetries]
      /\ \A n \in worker[w].todo : seen[n] = worker[w].seen[n]
  BY <1>2, Bounds
<1>4. worker' = [worker EXCEPT ![w] = next]
  BY <1>1 DEF Proceed, WorkerState
<1> HIDE DEF seen
<1>5. next \in WorkerState
  BY <1>1, <1>3 DEF WorkerState
<1>6. /\ next.now = NoRow /\ next.outcome = "none"
      /\ next.todo = worker[w].todo /\ next.mode = worker[w].mode
      /\ \A n \in next.todo : next.seen[n] = worker[w].seen[n]
  BY <1>1, <1>3 DEF WorkerState
<1>. QED
  BY <1>4, <1>5, <1>6

\* A row that lost its holder is no longer processing.
LEMMA LeasesProceed ==
  ASSUME Leases, NEW w \in Worker, Proceed(w), worker[w].now # NoRow,
         row' \in [Notification -> RowState],
         \A n \in Notification : row'[n].status = "processing" => row'[n] = row[n],
         UNCHANGED <<desk, disturbances>>
  PROVE  Leases'
<1>1. PICK next \in WorkerState :
        /\ worker' = [worker EXCEPT ![w] = next]
        /\ next.now = NoRow /\ next.outcome = "none"
        /\ next.todo = worker[w].todo /\ next.mode = worker[w].mode
        /\ \A n \in next.todo : next.seen[n] = worker[w].seen[n]
  BY ProceedType
<1>2. next.todo \subseteq Notification /\ next.now \notin next.todo
  BY <1>1, Bounds DEF WorkerState
<1>3. next.mode # "down"
  BY <1>1, IdleType DEF Leases, WorkInOrder
<1>4. \A n \in Notification : (n = next.now \/ n \in next.todo) =>
        InHand(w, n) /\ next.seen[n] = worker[w].seen[n]
  BY <1>1, Bounds DEF InHand
<1>5. disturbances' \in 0 .. MaxDisturbances
  BY DEF Leases, OutboxTypeOK
<1>. QED
  BY <1>1, <1>2, <1>3, <1>4, <1>5, WorkerMoved

\* A worker that drops what it has in hand, without writing a row's lease.
LEMMA LeasesIdle ==
  ASSUME Leases, NEW w \in Worker, NEW mode \in {"down", "running", "stopping"},
         worker' = [worker EXCEPT ![w] = Idle(mode)],
         row' \in [Notification -> RowState],
         \A n \in Notification : row'[n].status = "processing" =>
            /\ row[n].status = "processing" /\ row'[n].holder = row[n].holder
            /\ row'[n].retry = row[n].retry,
         UNCHANGED desk, disturbances' \in 0 .. MaxDisturbances
  PROVE  Leases'
<1> DEFINE next == Idle(mode)
<1>1. next \in WorkerState /\ next.now = NoRow /\ next.outcome = "none"
        /\ next.todo = {} /\ next.mode = mode
  BY IdleType
<1> HIDE DEF next
<1>2. next.mode = "down" => next = Idle("down")
  BY <1>1 DEF next
<1>3. worker' = [worker EXCEPT ![w] = next]
  BY DEF next
<1>4. \A n \in Notification : ~(n = next.now \/ n \in next.todo)
  BY <1>1, Bounds
<1>. QED
  BY <1>1, <1>2, <1>3, <1>4, WorkerMoved, ZenonT(60)

\* The steps of a worker that has rows in hand.
LEMMA LeasesSend ==
  ASSUME Leases, NEW w \in Worker, NEW n \in Notification, Send(w, n)
  PROVE  Leases'
<1>1. /\ worker \in [Worker -> WorkerState] /\ worker[w] \in WorkerState
      /\ row \in [Notification -> RowState] /\ row[n] \in RowState
  BY DEF Leases, OutboxTypeOK
<1>2. PICK outcome \in {"ok", "failed"}, got \in BOOLEAN :
        /\ worker' = [worker EXCEPT ![w].todo = @ \ {n}, ![w].now = n,
                                    ![w].outcome = outcome]
        /\ row' = IF got
                  THEN [row EXCEPT ![n].received = IF @ < 2 THEN @ + 1 ELSE 2,
                                   ![n].suspect = @ \/ outcome # "ok"]
                  ELSE row
  <2>1. PICK answer \in SendPush :
          /\ worker' = [worker EXCEPT ![w].todo = @ \ {n}, ![w].now = n,
                                      ![w].outcome = answer.outcome]
          /\ row' = IF answer.got
                    THEN [row EXCEPT ![n].received = IF @ < 2 THEN @ + 1 ELSE 2,
                                     ![n].suspect = @ \/ answer.outcome # "ok"]
                    ELSE row
    BY DEF Send, SendPush
  <2>2. answer.outcome \in {"ok", "failed"} /\ answer.got \in BOOLEAN
    <3>1. answer \in {Answer("ok", TRUE), Answer("failed", FALSE), Answer("failed", TRUE)}
      BY DEF SendEmail, SendPush
    <3>2. answer.outcome \in {"ok", "failed"}
      BY <3>1 DEF Answer
    <3>3. answer.got = TRUE \/ answer.got = FALSE
      BY <3>1 DEF Answer
    <3>. QED
      BY <3>2, <3>3
  <2>. QED
    BY <2>1, <2>2
<1> DEFINE next == [worker[w] EXCEPT !.todo = @ \ {n}, !.now = n, !.outcome = outcome]
<1>3. worker' = [worker EXCEPT ![w] = next]
  BY <1>1, <1>2 DEF WorkerState
<1>4. next \in WorkerState
  BY <1>1 DEF WorkerState
<1>5. /\ next.now = n /\ next.outcome = outcome /\ next.todo = worker[w].todo \ {n}
      /\ next.mode = worker[w].mode /\ next.seen = worker[w].seen
  BY <1>1 DEF WorkerState
<1> HIDE DEF next
<1>6. n \in worker[w].todo /\ next.mode # "down"
  BY <1>5, IdleType DEF Send, Leases, WorkInOrder
<1>7. \A m \in Notification : (m = next.now \/ m \in next.todo) =>
        InHand(w, m) /\ next.seen[m] = worker[w].seen[m]
  BY <1>5, <1>6 DEF InHand
<1>8. row' \in [Notification -> RowState]
  <2> DEFINE taken == IF row[n].received < 2 THEN row[n].received + 1 ELSE 2
             excused == row[n].suspect \/ outcome # "ok"
  <2>1. taken \in 0 .. 2 /\ excused \in BOOLEAN
    BY <1>1 DEF RowState
  <2>2. got => row' = [row EXCEPT ![n].received = taken, ![n].suspect = excused]
    BY <1>1, <1>2 DEF RowState
  <2> HIDE DEF taken, excused
  <2>3. [row[n] EXCEPT !.received = taken, !.suspect = excused] \in RowState
    BY <1>1, <2>1 DEF RowState
  <2>. QED
    BY <1>1, <1>2, <2>2, <2>3
<1>9. \A m \in Notification : /\ row'[m].status = row[m].status
                              /\ row'[m].holder = row[m].holder
                              /\ row'[m].retry = row[m].retry
  BY <1>1, <1>2 DEF RowState
<1>10. /\ next.now \notin next.todo /\ (next.now = NoRow <=> next.outcome = "none")
       /\ UNCHANGED desk /\ disturbances' \in 0 .. MaxDisturbances
  BY <1>5, Bounds DEF Send, Leases, OutboxTypeOK
<1>. QED
  BY <1>3, <1>4, <1>6, <1>7, <1>8, <1>9, <1>10, WorkerMoved

\* A row whose delivery failed has the type of the table.
LEMMA DecidedType ==
  ASSUME NEW r \in RowState, NEW status \in {"failed", "pending"},
         NEW count \in 0 .. MaxRetries, NEW due \in BOOLEAN
  PROVE  [r EXCEPT !.status = status, !.retry = count, !.due = due, !.holder = None,
                   !.expired = FALSE] \in RowState
BY DEF RowState, Stored, Settled

\* The steps of a worker that records what became of a row.
LEMMA LeasesRecord ==
  ASSUME Leases, NEW w \in Worker,
         RecordDelivered(w) \/ HandleDeliveryFailure(w) \/ LeaseLost(w)
  PROVE  Leases'
<1> DEFINE n == worker[w].now
<1>1. /\ worker \in [Worker -> WorkerState] /\ worker[w] \in WorkerState
      /\ row \in [Notification -> RowState]
      /\ \A m \in Notification : row[m] \in RowState
  BY DEF Leases, OutboxTypeOK
<1>2. n # NoRow /\ n \in Notification
  BY <1>1 DEF RecordDelivered, HandleDeliveryFailure, LeaseLost, Leases, WorkInOrder,
              WorkerState
<1>3. CASE RecordDelivered(w)
  <2> DEFINE new == [row[n] EXCEPT !.status = "delivered", !.due = TRUE, !.holder = None,
                                   !.expired = FALSE]
  <2>1. row' = [row EXCEPT ![n] = new]
    BY <1>1, <1>2, <1>3 DEF RecordDelivered, RowState
  <2>2. new \in RowState /\ new.status = "delivered"
    BY <1>1, <1>2, ZenonT(60) DEF RowState, Stored, Settled
  <2>3. /\ row' \in [Notification -> RowState]
        /\ \A m \in Notification : row'[m].status = "processing" => row'[m] = row[m]
    BY <1>1, <1>2, <2>1, <2>2
  <2>. QED
    BY <1>2, <1>3, <2>3, LeasesProceed DEF RecordDelivered
<1>4. CASE HandleDeliveryFailure(w)
  <2> DEFINE count == worker[w].seen[n] + 1
             final == LimitReached(count)
             status == IF final THEN "failed" ELSE "pending"
             new == [row[n] EXCEPT !.status = status, !.retry = count, !.due = final,
                                   !.holder = None, !.expired = FALSE]
  <2>1. row' = [row EXCEPT ![n] = new] /\ Proceed(w) /\ UNCHANGED <<desk, disturbances>>
    BY <1>1, <1>2, <1>4 DEF HandleDeliveryFailure, RowState
  <2>2. worker[w].seen[n] = row[n].retry /\ row[n].retry < MaxRetries
    BY <1>2, <1>4 DEF HandleDeliveryFailure, Leases, CopiesAreFresh, ClaimedBelowLimit,
                      InHand, Holds
  <2>3. row[n].retry \in 0 .. MaxRetries
    BY <1>1, <1>2 DEF RowState
  <2>4. count \in 0 .. MaxRetries
    BY <2>2, <2>3, Bounds
  <2>5. final \in BOOLEAN /\ status \in {"failed", "pending"}
    BY DEF LimitReached
  <2> HIDE DEF count, final, status
  <2>6. row[n] \in RowState
    BY <1>1, <1>2
  <2>7. new \in RowState
    BY <2>4, <2>5, <2>6, DecidedType
  <2>8. new.status = status
    BY <2>6 DEF RowState
  <2> HIDE DEF new
  <2>9. /\ row' \in [Notification -> RowState]
        /\ \A m \in Notification : row'[m].status = "processing" => row'[m] = row[m]
    BY <1>1, <1>2, <2>1, <2>5, <2>7, <2>8
  <2>. QED
    BY <1>2, <2>1, <2>9, LeasesProceed
<1>5. CASE LeaseLost(w)
  BY <1>1, <1>2, <1>5, LeasesProceed DEF LeaseLost
<1>. QED
  BY <1>3, <1>4, <1>5

\* The steps of a worker that loses its batch, starts or stops.
LEMMA LeasesProcess ==
  ASSUME Leases, NEW w \in Worker,
         RowGone(w) \/ UpdateFails(w) \/ Start(w) \/ Stop(w) \/ Exit(w) \/ Crash(w)
  PROVE  Leases'
<1>1. /\ worker \in [Worker -> WorkerState] /\ worker[w] \in WorkerState
      /\ worker[w].mode \in {"down", "running", "stopping"}
      /\ row \in [Notification -> RowState]
      /\ \A m \in Notification : row[m] \in RowState
      /\ disturbances \in 0 .. MaxDisturbances
  BY DEF Leases, OutboxTypeOK, WorkerState
<1>2. Disturb => disturbances' \in 0 .. MaxDisturbances
  BY <1>1, Bounds DEF Disturb
<1>3. CASE RowGone(w)
  BY <1>1, <1>3, LeasesIdle DEF RowGone, AbortBatch
<1>4. CASE UpdateFails(w)
  <2> DEFINE n == worker[w].now
             excused == row[n].suspect \/ worker[w].outcome = "ok"
             new == [row[n] EXCEPT !.suspect = excused]
  <2>1. n # NoRow /\ n \in Notification
    BY <1>1, <1>4 DEF UpdateFails, WorkerState
  <2>2. row' = [row EXCEPT ![n] = new]
    BY <1>1, <1>4, <2>1 DEF UpdateFails, RowState
  <2>3. excused \in BOOLEAN
    BY <1>1, <2>1 DEF RowState
  <2> HIDE DEF excused
  <2>4. new \in RowState /\ new.status = row[n].status /\ new.holder = row[n].holder
          /\ new.retry = row[n].retry
    BY <1>1, <2>1, <2>3 DEF RowState
  <2>5. /\ row' \in [Notification -> RowState]
        /\ \A m \in Notification : /\ row'[m].status = row[m].status
                                   /\ row'[m].holder = row[m].holder
                                   /\ row'[m].retry = row[m].retry
    BY <1>1, <2>1, <2>2, <2>4
  <2> HIDE DEF new
  <2>6. CASE worker[w].outcome = "last"
    BY <1>1, <1>2, <1>4, <2>5, <2>6, LeasesIdle DEF UpdateFails, AbortBatch
  <2>7. CASE worker[w].outcome # "last"
    <3> DEFINE next == [worker[w] EXCEPT !.outcome = "last"]
    <3>1. worker' = [worker EXCEPT ![w] = next]
      BY <1>1, <1>4, <2>7 DEF UpdateFails, WorkerState
    <3>2. next \in WorkerState /\ next.now = n /\ next.outcome = "last"
            /\ next.todo = worker[w].todo /\ next.mode = worker[w].mode
            /\ next.seen = worker[w].seen
      BY <1>1 DEF WorkerState
    <3> HIDE DEF next
    <3>3. n \notin worker[w].todo /\ worker[w].mode # "down"
      BY <2>1, IdleType DEF Leases, WorkInOrder
    <3>4. \A m \in Notification : (m = next.now \/ m \in next.todo) =>
            InHand(w, m) /\ next.seen[m] = worker[w].seen[m]
      BY <3>2 DEF InHand
    <3>5. next.now # NoRow /\ next.outcome # "none" /\ next.mode # "down"
      BY <2>1, <3>2, <3>3
    <3>6. UNCHANGED desk /\ disturbances' \in 0 .. MaxDisturbances
      BY <1>2, <1>4 DEF UpdateFails
    <3>. QED
      BY <2>5, <3>1, <3>2, <3>3, <3>4, <3>5, <3>6, WorkerMoved
  <2>. QED
    BY <2>6, <2>7
<1>5. CASE Start(w)
  BY <1>1, <1>5, LeasesIdle DEF Start
<1>6. CASE Stop(w)
  <2> DEFINE next == [worker[w] EXCEPT !.mode = "stopping"]
  <2>1. worker' = [worker EXCEPT ![w] = next]
    BY <1>1, <1>6 DEF Stop, WorkerState
  <2>2. next \in WorkerState /\ next.now = worker[w].now /\ next.outcome = worker[w].outcome
          /\ next.todo = worker[w].todo /\ next.mode = "stopping"
          /\ next.seen = worker[w].seen
    BY <1>1 DEF WorkerState
  <2> HIDE DEF next
  <2>3. \A m \in Notification : (m = next.now \/ m \in next.todo) =>
          InHand(w, m) /\ next.seen[m] = worker[w].seen[m]
    BY <2>2 DEF InHand
  <2>4. next.now \notin next.todo /\ (next.now = NoRow <=> next.outcome = "none")
    BY <2>2 DEF Leases, WorkInOrder
  <2>5. UNCHANGED <<row, desk, disturbances>>
    BY <1>6 DEF Stop
  <2>. QED
    BY <1>1, <2>1, <2>2, <2>3, <2>4, <2>5, WorkerMoved
<1>7. CASE Exit(w)
  BY <1>1, <1>7, LeasesIdle DEF Exit
<1>8. CASE Crash(w)
  <2>1. \A m \in Notification :
          /\ row'[m] \in RowState /\ row'[m].status = row[m].status
          /\ row'[m].holder = row[m].holder /\ row'[m].retry = row[m].retry
    BY <1>1, <1>8, ZenonT(60) DEF Crash, RowState
  <2>2. row' \in [Notification -> RowState]
    BY <1>8, <2>1 DEF Crash
  <2>. QED
    BY <1>1, <1>2, <1>8, <2>1, <2>2, LeasesIdle DEF Crash
<1>. QED
  BY <1>3, <1>4, <1>5, <1>6, <1>7, <1>8

\* Leases are kept by every step.
LEMMA LeasesStep == Leases /\ [OutboxNext]_outboxVars => Leases'
<1> SUFFICES ASSUME Leases, [OutboxNext]_outboxVars PROVE Leases'
  OBVIOUS
<1>1. CASE UNCHANGED outboxVars
  BY <1>1 DEF outboxVars, Leases, OutboxTypeOK, WorkInOrder, ClaimedBelowLimit,
              CopiesAreFresh, InHand, Holds
<1>2. CASE OutboxNext
  BY <1>2, LeasesOutside, LeasesClaim, LeasesSend, LeasesRecord, LeasesProcess
     DEF OutboxNext, WorkerStep
<1>. QED
  BY <1>1, <1>2

\* OutboxTypeOK is an invariant: no count of failures passes the limit, although
\* a worker counts from a copy of the row and administrators write back counts
\* they have read.
THEOREM OutboxTyped == OutboxSpec => []OutboxTypeOK
<1>1. Leases => OutboxTypeOK
  BY DEF Leases
<1>. QED
  BY LeasesInit, LeasesStep, <1>1, PTL DEF OutboxSpec

-----------------------------------------------------------------------------
(***************************************************************************)
(* What the transport has taken, and what excuses a second delivery.       *)
(***************************************************************************)

\* Initially no message was handed over.
LEMMA ReceiptsInit == OutboxInit => Receipts
BY Bounds, IdleType DEF OutboxInit, Receipts, SentIsReceived, DeliveredWasReceived,
   NothingUnexplained, Unsuspected, FailedAtLimit, InHand, Holds

\* Tables and workers have their types.
LEMMA Typed ==
  ASSUME Leases
  PROVE  /\ row \in [Notification -> RowState]
         /\ \A n \in Notification : row[n] \in RowState
         /\ worker \in [Worker -> WorkerState]
         /\ \A w \in Worker : worker[w] \in WorkerState
BY DEF Leases, OutboxTypeOK

\* The marks of one row are about that row, and about who has it in hand.
LEMMA SameRow ==
  ASSUME NEW n \in Notification, row'[n] = row[n],
         \A w \in Worker : InHand(w, n)' <=> InHand(w, n),
         \A w \in Worker : n \in worker'[w].todo => n \in worker[w].todo,
         \A w \in Worker : worker[w].now = n /\ worker[w].outcome = "ok"
            => worker'[w].now = n /\ worker'[w].outcome = "ok",
         Unsuspected(n)
  PROVE  Unsuspected(n)'
BY DEF Unsuspected, Holds

\* A step that rewrites one row and leaves the workers alone.
LEMMA ReceiptsOfRow ==
  ASSUME Leases, Receipts, NEW n \in Notification,
         UNCHANGED worker,
         \A m \in Notification \ {n} : row'[m] = row[m],
         row'[n].status \in {"delivered", "failed", "processing"} =>
            /\ row'[n].status = row[n].status /\ row'[n].holder = row[n].holder
            /\ row'[n].received = row[n].received /\ row'[n].retry = row[n].retry,
         ~row'[n].suspect => Unsuspected(n)'
  PROVE  Receipts'
<1>1. SentIsReceived'
  <2> SUFFICES ASSUME NEW w \in Worker, worker'[w].outcome = "ok",
                      Holds(w, worker[w].now)'
               PROVE  row'[worker'[w].now].received > 0
    BY DEF SentIsReceived
  <2>1. worker[w].now \in Notification
    BY Typed DEF WorkerState, Leases, WorkInOrder
  <2>. QED
    BY <2>1 DEF Receipts, SentIsReceived, Holds
<1>2. DeliveredWasReceived'
  BY DEF Receipts, DeliveredWasReceived
<1>3. FailedAtLimit'
  BY DEF Receipts, FailedAtLimit
<1>4. NothingUnexplained'
  <2> SUFFICES ASSUME NEW m \in Notification, ~row'[m].suspect PROVE Unsuspected(m)'
    BY DEF NothingUnexplained
  <2>1. CASE m # n
    <3>1. Unsuspected(m)
      BY <2>1 DEF Receipts, NothingUnexplained
    <3>. QED
      BY <2>1, <3>1, SameRow DEF InHand
  <2>. QED
    BY <2>1
<1>. QED
  BY <1>1, <1>2, <1>3, <1>4 DEF Receipts

\* A row is inserted.
LEMMA ReceiptsEnqueue ==
  ASSUME Leases, Receipts, NEW n \in Notification, NEW due \in BOOLEAN,
         EnqueueNotification(n, due)
  PROVE  Receipts'
<1>1. /\ UNCHANGED worker
      /\ \A m \in Notification \ {n} : row'[m] = row[m]
      /\ row[n].status = "unused" /\ row'[n].status = "pending"
      /\ row'[n].received = row[n].received /\ row'[n].suspect = row[n].suspect
  BY Typed DEF EnqueueNotification, RowState
<1>2. ~row'[n].suspect => Unsuspected(n)'
  BY <1>1 DEF Receipts, NothingUnexplained, Unsuspected, InHand, Holds
<1>. QED
  BY <1>1, <1>2, ReceiptsOfRow

\* A backoff ends.
LEMMA ReceiptsBackoff ==
  ASSUME Leases, Receipts, NEW n \in Notification, BackoffElapses(n)
  PROVE  Receipts'
<1>1. /\ UNCHANGED worker
      /\ \A m \in Notification \ {n} : row'[m] = row[m]
      /\ row'[n].status = row[n].status /\ row[n].status = "pending"
      /\ row'[n].received = row[n].received /\ row'[n].suspect = row[n].suspect
  BY Typed DEF BackoffElapses, RowState
<1>2. ~row'[n].suspect => Unsuspected(n)'
  BY <1>1 DEF Receipts, NothingUnexplained, Unsuspected, InHand, Holds
<1>. QED
  BY <1>1, <1>2, ReceiptsOfRow

\* A lease ends: early, under the eyes of the worker, only with a suspicion.
LEMMA ReceiptsLease ==
  ASSUME Leases, Receipts, NEW n \in Notification, LeaseExpires(n)
  PROVE  Receipts'
<1>1. /\ UNCHANGED worker
      /\ \A m \in Notification :
           /\ row'[m].status = row[m].status /\ row'[m].holder = row[m].holder
           /\ row'[m].received = row[m].received /\ row'[m].retry = row[m].retry
           /\ m # n => row'[m] = row[m]
      /\ row[n].status = "processing"
      /\ ~row'[n].suspect =>
            /\ ~row[n].suspect
            /\ ~(row[n].holder \in Worker /\ InHand(row[n].holder, n))
  BY Typed DEF LeaseExpires, RowState
<1>2. ~row'[n].suspect => Unsuspected(n)'
  BY <1>1 DEF Receipts, NothingUnexplained, Unsuspected, InHand, Holds
<1>. QED
  BY <1>1, <1>2, ReceiptsOfRow

\* An administrator's retry starts over, and suspects a row in flight.
LEMMA ReceiptsPending ==
  ASSUME Leases, Receipts, NEW n \in Notification, NEW count \in 0 .. MaxRetries,
         MakePending(n, count), UNCHANGED worker
  PROVE  Receipts'
<1>1. /\ \A m \in Notification \ {n} : row'[m] = row[m]
      /\ row'[n].status = "pending" /\ row'[n].received = 0
      /\ row'[n].suspect = InSomeHand(n)
  BY Typed DEF MakePending, RowState
<1>2. ~row'[n].suspect => Unsuspected(n)'
  BY <1>1 DEF Unsuspected, InHand, InSomeHand
<1>. QED
  BY <1>1, <1>2, ReceiptsOfRow

\* A row is deleted.
LEMMA ReceiptsDelete ==
  ASSUME Leases, Receipts, NEW n \in Notification, DeleteNotification(n)
  PROVE  Receipts'
<1>1. /\ UNCHANGED worker
      /\ \A m \in Notification \ {n} : row'[m] = row[m]
      /\ row'[n].status = "deleted"
      /\ row'[n].received = row[n].received /\ row'[n].suspect = row[n].suspect
  BY Typed DEF DeleteNotification, Delete, RowState
<1>2. ~row'[n].suspect => Unsuspected(n)'
  BY <1>1 DEF Receipts, NothingUnexplained, Unsuspected, InHand, Holds
<1>. QED
  BY <1>1, <1>2, ReceiptsOfRow

\* A worker that takes nothing up, and lets go of a message it has handed over
\* only if it does not hold the row or the row becomes suspect.
LEMMA ReceiptsLetGo ==
  ASSUME Leases, Receipts, NEW w \in Worker,
         \A v \in Worker \ {w} : worker'[v] = worker[v],
         \A n \in Notification :
            /\ row'[n].status = row[n].status /\ row'[n].holder = row[n].holder
            /\ row'[n].received = row[n].received /\ row'[n].retry = row[n].retry
            /\ row'[n].expired = row[n].expired
            /\ ~row'[n].suspect => ~row[n].suspect,
         worker'[w].todo \subseteq worker[w].todo,
         worker'[w].now \in {worker[w].now, NoRow},
         worker'[w].outcome = "ok" =>
            worker[w].outcome = "ok" /\ worker'[w].now = worker[w].now,
         \A n \in Notification :
            worker[w].now = n /\ worker[w].outcome = "ok" /\ Holds(w, n) /\ ~row'[n].suspect
               => worker'[w].now = n /\ worker'[w].outcome = "ok"
  PROVE  Receipts'
<1>1. SentIsReceived'
  <2> SUFFICES ASSUME NEW v \in Worker, worker'[v].outcome = "ok",
                      Holds(v, worker[v].now)'
               PROVE  row'[worker'[v].now].received > 0
    BY DEF SentIsReceived
  <2>1. worker[v].outcome = "ok" /\ worker'[v].now = worker[v].now
    OBVIOUS
  <2>2. worker[v].now \in Notification
    BY <2>1, Typed DEF WorkerState, Leases, WorkInOrder
  <2>. QED
    BY <2>1, <2>2 DEF Receipts, SentIsReceived, Holds
<1>2. DeliveredWasReceived'
  BY DEF Receipts, DeliveredWasReceived
<1>3. FailedAtLimit'
  BY DEF Receipts, FailedAtLimit
<1>4. NothingUnexplained'
  <2> SUFFICES ASSUME NEW n \in Notification, ~row'[n].suspect PROVE Unsuspected(n)'
    BY DEF NothingUnexplained
  <2>1. Unsuspected(n)
    BY DEF Receipts, NothingUnexplained
  <2>2. \A v \in Worker : /\ InHand(v, n)' => InHand(v, n)
                          /\ n \in worker'[v].todo => n \in worker[v].todo
                          /\ Holds(v, n)' <=> Holds(v, n)
    BY Bounds DEF InHand, Holds
  <2>3. \A v \in Worker : Holds(v, n) /\ worker[v].now = n /\ worker[v].outcome = "ok"
          => worker'[v].now = n /\ worker'[v].outcome = "ok"
    OBVIOUS
  <2>4. /\ row'[n].status = row[n].status /\ row'[n].received = row[n].received
        /\ row'[n].expired = row[n].expired
    OBVIOUS
  <2>5. ASSUME NEW v \in Worker, InHand(v, n)'
        PROVE  /\ \A u \in Worker : InHand(u, n)' => u = v
               /\ row'[n].status = "deleted" \/ (Holds(v, n)' /\ ~row'[n].expired)
               /\ n \in worker'[v].todo => row'[n].received = 0
    <3>1. InHand(v, n)
      BY <2>2, <2>5 DEF InHand
    <3>2. \A u \in Worker : InHand(u, n)' => u = v
      BY <2>1, <2>2, <3>1 DEF Unsuspected, InHand
    <3>3. row'[n].status = "deleted" \/ (Holds(v, n)' /\ ~row'[n].expired)
      BY <2>1, <2>4, <3>1 DEF Unsuspected, Holds
    <3>4. n \in worker'[v].todo => row'[n].received = 0
      BY <2>1, <2>2, <2>4, <3>1 DEF Unsuspected
    <3>. QED
      BY <3>2, <3>3, <3>4
  <2>6. row'[n].received > 0 =>
          \/ row'[n].status \in {"delivered", "deleted"}
          \/ \E v \in Worker : Holds(v, n)' /\ worker'[v].now = n /\ worker'[v].outcome = "ok"
    BY <2>1, <2>2, <2>3, <2>4 DEF Unsuspected, Holds
  <2>. QED
    BY <2>1, <2>4, <2>5, <2>6 DEF Unsuspected
<1>. QED
  BY <1>1, <1>2, <1>3, <1>4 DEF Receipts

\* A result is dropped, a process starts, stops or dies, or the database fails.
LEMMA ReceiptsProcess ==
  ASSUME Leases, Receipts, NEW w \in Worker,
         \/ LeaseLost(w) \/ RowGone(w) \/ UpdateFails(w)
         \/ Start(w) \/ Stop(w) \/ Exit(w) \/ Crash(w)
  PROVE  Receipts'
<1>1. worker[w] \in WorkerState /\ worker[w].now \in Notification \cup {NoRow}
  BY Typed DEF WorkerState
<1>2. CASE LeaseLost(w)
  <2>1. PICK next \in WorkerState :
          /\ worker' = [worker EXCEPT ![w] = next]
          /\ next.now = NoRow /\ next.outcome = "none"
          /\ next.todo = worker[w].todo
    BY <1>2, ProceedType DEF LeaseLost
  <2>2. /\ worker'[w] = next /\ \A v \in Worker \ {w} : worker'[v] = worker[v]
        /\ ~Holds(w, worker[w].now) /\ UNCHANGED row
    BY <1>2, <2>1, Typed DEF LeaseLost
  <2>. QED
    BY <2>1, <2>2, ReceiptsLetGo
<1>3. ASSUME NEW mode \in {"down", "running", "stopping"},
             worker' = [worker EXCEPT ![w] = Idle(mode)],
             \A n \in Notification :
                /\ row'[n].status = row[n].status /\ row'[n].holder = row[n].holder
                /\ row'[n].received = row[n].received /\ row'[n].retry = row[n].retry
                /\ row'[n].expired = row[n].expired
                /\ ~row'[n].suspect => ~row[n].suspect,
             \A n \in Notification :
                ~(worker[w].now = n /\ worker[w].outcome = "ok" /\ Holds(w, n)
                    /\ ~row'[n].suspect)
      PROVE  Receipts'
  <2>1. worker'[w] = Idle(mode) /\ \A v \in Worker \ {w} : worker'[v] = worker[v]
    BY <1>3, Typed
  <2>2. worker'[w].todo = {} /\ worker'[w].now = NoRow /\ worker'[w].outcome = "none"
    BY <2>1, IdleType
  <2>. QED
    BY <1>3, <2>1, <2>2, ReceiptsLetGo
<1>4. CASE RowGone(w)
  <2>1. worker[w].mode \in {"down", "running", "stopping"}
    BY <1>1 DEF WorkerState
  <2>2. ~Holds(w, worker[w].now) /\ UNCHANGED row
    BY <1>4 DEF RowGone, Holds
  <2>. QED
    BY <1>3, <1>4, <2>1, <2>2 DEF RowGone, AbortBatch
<1>5. CASE UpdateFails(w)
  <2>1. worker[w].now \in Notification
    BY <1>1, <1>5 DEF UpdateFails
  <2>2. \A n \in Notification :
          /\ row'[n].status = row[n].status /\ row'[n].holder = row[n].holder
          /\ row'[n].received = row[n].received /\ row'[n].retry = row[n].retry
          /\ row'[n].expired = row[n].expired
          /\ ~row'[n].suspect => ~row[n].suspect
          /\ worker[w].now = n /\ worker[w].outcome = "ok" => row'[n].suspect
    BY <1>5, <2>1, Typed DEF UpdateFails, RowState
  <2>3. CASE worker[w].outcome = "last"
    <3>1. worker[w].mode \in {"down", "running", "stopping"}
      BY <1>1 DEF WorkerState
    <3>. QED
      BY <1>3, <1>5, <2>2, <2>3, <3>1 DEF UpdateFails, AbortBatch
  <2>4. CASE worker[w].outcome # "last"
    <3>1. /\ worker'[w].todo = worker[w].todo /\ worker'[w].now = worker[w].now
          /\ worker'[w].outcome = "last"
          /\ \A v \in Worker \ {w} : worker'[v] = worker[v]
      BY <1>5, <2>4, Typed DEF UpdateFails, WorkerState
    <3>. QED
      BY <2>2, <3>1, ReceiptsLetGo
  <2>. QED
    BY <2>3, <2>4
<1>6. CASE Start(w)
  <2>1. worker[w].outcome = "none" /\ UNCHANGED row
    BY <1>6, IdleType DEF Start, Leases, WorkInOrder
  <2>. QED
    BY <1>3, <1>6, <2>1 DEF Start
<1>7. CASE Stop(w)
  <2>1. /\ worker'[w].todo = worker[w].todo /\ worker'[w].now = worker[w].now
        /\ worker'[w].outcome = worker[w].outcome /\ UNCHANGED row
        /\ \A v \in Worker \ {w} : worker'[v] = worker[v]
    BY <1>7, Typed DEF Stop, WorkerState
  <2>. QED
    BY <2>1, ReceiptsLetGo
<1>8. CASE Exit(w)
  <2>1. worker[w].outcome = "none" /\ UNCHANGED row
    BY <1>8, IdleType DEF Exit
  <2>. QED
    BY <1>3, <1>8, <2>1 DEF Exit
<1>9. CASE Crash(w)
  <2>1. \A n \in Notification :
          /\ row'[n].status = row[n].status /\ row'[n].holder = row[n].holder
          /\ row'[n].received = row[n].received /\ row'[n].retry = row[n].retry
          /\ row'[n].expired = row[n].expired
          /\ ~row'[n].suspect => ~row[n].suspect
          /\ worker[w].now = n /\ worker[w].outcome = "ok" => row'[n].suspect
    BY <1>9, Typed DEF Crash, RowState
  <2>. QED
    BY <1>3, <1>9, <2>1 DEF Crash
<1>. QED
  BY <1>2, <1>4, <1>5, <1>6, <1>7, <1>8, <1>9

\* A claim takes only rows that nobody is at work on, unless their lease ended
\* under the eyes of a worker.
LEMMA ReceiptsClaim ==
  ASSUME Leases, Receipts, NEW w \in Worker, ClaimPendingNotifications(w)
  PROVE  Receipts'
<1> DEFINE batch == NextBatch
<1>1. \A n \in batch :
        row[n].status = "pending" \/ (row[n].status = "processing" /\ row[n].expired)
  BY DEF NextBatch, Claimable
<1>2. /\ worker[w].todo = {} /\ worker[w].now = NoRow /\ worker[w].outcome = "none"
      /\ worker'[w].todo = batch /\ worker'[w].now = NoRow /\ worker'[w].outcome = "none"
      /\ \A v \in Worker \ {w} : worker'[v] = worker[v]
  <2>1. worker[w] = Idle("running") /\ worker[w] \in WorkerState
    BY Typed DEF ClaimPendingNotifications
  <2>2. worker[w].todo = {} /\ worker[w].now = NoRow /\ worker[w].outcome = "none"
    BY <2>1, IdleType
  <2>3. /\ worker'[w].todo = NextBatch /\ worker'[w].now = worker[w].now
        /\ worker'[w].outcome = worker[w].outcome
        /\ \A v \in Worker \ {w} : worker'[v] = worker[v]
    BY <2>1, Typed DEF ClaimPendingNotifications, WorkerState
  <2>. QED
    BY <2>2, <2>3
<1>3. \A n \in Notification :
        /\ row'[n].received = row[n].received /\ row'[n].suspect = row[n].suspect
        /\ n \in batch => /\ row'[n].status = "processing" /\ row'[n].holder = w
                          /\ ~row'[n].expired
        /\ n \notin batch => row'[n] = row[n]
  BY Typed DEF ClaimPendingNotifications, RowState
<1> HIDE DEF batch
<1>4. SentIsReceived'
  <2> SUFFICES ASSUME NEW v \in Worker, worker'[v].outcome = "ok",
                      Holds(v, worker[v].now)'
               PROVE  row'[worker'[v].now].received > 0
    BY DEF SentIsReceived
  <2>1. v # w /\ worker'[v] = worker[v]
    BY <1>2
  <2>2. worker[v].now \in Notification
    BY <2>1, Typed DEF WorkerState, Leases, WorkInOrder
  <2>3. worker[v].now \notin batch
    BY <1>3, <2>1, <2>2 DEF Holds
  <2>. QED
    BY <1>3, <2>1, <2>2, <2>3 DEF Receipts, SentIsReceived, Holds
<1>5. DeliveredWasReceived' /\ FailedAtLimit'
  BY <1>3 DEF Receipts, DeliveredWasReceived, FailedAtLimit
<1>6. NothingUnexplained'
  <2> SUFFICES ASSUME NEW n \in Notification, ~row'[n].suspect PROVE Unsuspected(n)'
    BY DEF NothingUnexplained
  <2>1. Unsuspected(n)
    BY <1>3 DEF Receipts, NothingUnexplained
  <2>2. CASE n \notin batch
    <3>1. \A v \in Worker : /\ InHand(v, n)' <=> InHand(v, n)
                            /\ n \in worker'[v].todo <=> n \in worker[v].todo
      BY <1>2, <2>2, Bounds DEF InHand
    <3>2. \A v \in Worker : worker[v].now = n /\ worker[v].outcome = "ok"
            => worker'[v].now = n /\ worker'[v].outcome = "ok"
      BY <1>2
    <3>3. row'[n] = row[n]
      BY <1>3, <2>2
    <3>. QED
      BY <2>1, <3>1, <3>2, <3>3, SameRow DEF InHand
  <2>3. CASE n \in batch
    <3>1. \A v \in Worker : ~InHand(v, n)
      BY <1>1, <2>1, <2>3 DEF Unsuspected, Holds
    <3>2. row[n].received = 0
      BY <1>1, <2>1, <2>3, <3>1, Typed DEF Unsuspected, InHand, RowState
    <3>3. \A v \in Worker : InHand(v, n)' => v = w
      BY <1>2, <3>1 DEF InHand
    <3>. QED
      BY <1>3, <2>3, <3>2, <3>3 DEF Unsuspected, Holds
  <2>. QED
    BY <2>2, <2>3
<1>. QED
  BY <1>4, <1>5, <1>6 DEF Receipts

\* A message handed over is received, and by one worker only unless suspect.
LEMMA ReceiptsSend ==
  ASSUME Leases, Receipts, NEW w \in Worker, NEW n \in Notification, Send(w, n)
  PROVE  Receipts'
<1>1. PICK answer \in SendPush :
        /\ worker' = [worker EXCEPT ![w].todo = @ \ {n}, ![w].now = n,
                                    ![w].outcome = answer.outcome]
        /\ row' = IF answer.got
                  THEN [row EXCEPT ![n].received = IF @ < 2 THEN @ + 1 ELSE 2,
                                   ![n].suspect = @ \/ answer.outcome # "ok"]
                  ELSE row
  BY DEF Send, SendPush
<1>2. answer.outcome = "ok" => answer.got
  <2>1. answer \in {Answer("ok", TRUE), Answer("failed", FALSE), Answer("failed", TRUE)}
    BY DEF SendEmail, SendPush
  <2>. QED
    BY <2>1 DEF Answer
<1>3. /\ worker[w].now = NoRow /\ worker[w].outcome = "none" /\ n \in worker[w].todo
      /\ worker'[w].todo = worker[w].todo \ {n} /\ worker'[w].now = n
      /\ worker'[w].outcome = answer.outcome
      /\ \A v \in Worker \ {w} : worker'[v] = worker[v]
  BY <1>1, Typed DEF Send, Leases, WorkInOrder, WorkerState
<1>4. /\ \A m \in Notification \ {n} : row'[m] = row[m]
      /\ row'[n].status = row[n].status /\ row'[n].holder = row[n].holder
      /\ row'[n].retry = row[n].retry /\ row'[n].expired = row[n].expired
      /\ row[n].received \in 0 .. 2
  BY <1>1, Typed DEF RowState
<1>5. row'[n].received = IF answer.got THEN IF row[n].received < 2 THEN row[n].received + 1 ELSE 2
                                      ELSE row[n].received
  BY <1>1, Typed DEF RowState
<1>6. ~row'[n].suspect => ~row[n].suspect /\ (answer.got => answer.outcome = "ok")
  BY <1>1, Typed DEF RowState
<1>7. SentIsReceived'
  <2> SUFFICES ASSUME NEW v \in Worker, worker'[v].outcome = "ok",
                      Holds(v, worker[v].now)'
               PROVE  row'[worker'[v].now].received > 0
    BY DEF SentIsReceived
  <2>1. CASE v = w
    BY <1>2, <1>3, <1>4, <1>5, <2>1
  <2>2. CASE v # w
    <3>1. worker'[v] = worker[v] /\ worker[v].now \in Notification
      BY <1>3, <2>2, Typed DEF WorkerState, Leases, WorkInOrder
    <3>2. Holds(v, worker[v].now)
      BY <1>4, <3>1 DEF Holds
    <3>3. row[worker[v].now].received > 0
      BY <3>1, <3>2 DEF Receipts, SentIsReceived
    <3>. QED
      BY <1>4, <1>5, <3>1, <3>3
  <2>. QED
    BY <2>1, <2>2
<1>8. DeliveredWasReceived' /\ FailedAtLimit'
  BY <1>4, <1>5 DEF Receipts, DeliveredWasReceived, FailedAtLimit
<1>9. NothingUnexplained'
  <2> SUFFICES ASSUME NEW m \in Notification, ~row'[m].suspect PROVE Unsuspected(m)'
    BY DEF NothingUnexplained
  <2>1. Unsuspected(m)
    BY <1>4, <1>6 DEF Receipts, NothingUnexplained
  <2>2. \A v \in Worker : InHand(v, m)' <=> InHand(v, m)
    BY <1>3, Bounds DEF InHand
  <2>3. CASE m # n
    <3>1. \A v \in Worker : m \in worker'[v].todo => m \in worker[v].todo
      BY <1>3
    <3>2. \A v \in Worker : worker[v].now = m /\ worker[v].outcome = "ok"
            => worker'[v].now = m /\ worker'[v].outcome = "ok"
      BY <1>3
    <3>3. row'[m] = row[m]
      BY <1>4, <2>3
    <3>. QED
      BY <2>1, <2>2, <3>1, <3>2, <3>3, SameRow
  <2>4. CASE m = n
    <3>1. InHand(w, n)
      BY <1>3 DEF InHand
    <3>2. row[n].received = 0 /\ \A v \in Worker : InHand(v, n) => v = w
      BY <1>3, <2>1, <2>4, <3>1 DEF Unsuspected
    <3>3. row[n].status = "deleted" \/ (Holds(w, n) /\ ~row[n].expired)
      BY <2>1, <2>4, <3>1 DEF Unsuspected
    <3>4. row'[n].received < 2 /\ \A v \in Worker : n \notin worker'[v].todo
      BY <1>3, <1>4, <1>5, <3>2 DEF InHand
    <3>5. row'[n].received > 0 => worker'[w].outcome = "ok"
      BY <1>3, <1>5, <1>6, <2>4, <3>2
    <3>. QED
      BY <1>3, <1>4, <2>2, <2>4, <3>2, <3>3, <3>4, <3>5 DEF Unsuspected, Holds, InHand
  <2>. QED
    BY <2>3, <2>4
<1>. QED
  BY <1>7, <1>8, <1>9 DEF Receipts

\* A worker that holds the row it writes takes it out of the workers' reach, or
\* back to the queue if the transport did not take it.
LEMMA ReceiptsWrite ==
  ASSUME Leases, Receipts, NEW w \in Worker, worker[w].now \in Notification,
         Holds(w, worker[w].now), Proceed(w),
         \A m \in Notification \ {worker[w].now} : row'[m] = row[m],
         row'[worker[w].now].status # "processing",
         row'[worker[w].now].received = row[worker[w].now].received,
         row'[worker[w].now].suspect = row[worker[w].now].suspect,
         row'[worker[w].now].status = "delivered" <=> worker[w].outcome = "ok",
         FailedAtLimit'
  PROVE  Receipts'
<1> DEFINE n == worker[w].now
<1>1. PICK next \in WorkerState :
        /\ worker' = [worker EXCEPT ![w] = next]
        /\ next.now = NoRow /\ next.outcome = "none" /\ next.todo = worker[w].todo
  BY ProceedType, Bounds
<1>2. /\ worker'[w].now = NoRow /\ worker'[w].outcome = "none"
      /\ worker'[w].todo = worker[w].todo /\ n \notin worker[w].todo
      /\ \A v \in Worker \ {w} : worker'[v] = worker[v]
  BY <1>1, Typed DEF Leases, WorkInOrder
<1>3. SentIsReceived'
  <2> SUFFICES ASSUME NEW v \in Worker, worker'[v].outcome = "ok",
                      Holds(v, worker[v].now)'
               PROVE  row'[worker'[v].now].received > 0
    BY DEF SentIsReceived
  <2>1. v # w /\ worker'[v] = worker[v] /\ worker[v].now \in Notification
    BY <1>2, Typed DEF WorkerState, Leases, WorkInOrder
  <2>2. worker[v].now # n
    BY <2>1 DEF Holds
  <2>. QED
    BY <2>1, <2>2 DEF Receipts, SentIsReceived, Holds
<1>4. DeliveredWasReceived'
  <2>1. worker[w].outcome = "ok" => row[n].received > 0
    BY DEF Receipts, SentIsReceived
  <2>. QED
    BY <2>1 DEF Receipts, DeliveredWasReceived
<1>5. NothingUnexplained'
  <2> SUFFICES ASSUME NEW m \in Notification, ~row'[m].suspect PROVE Unsuspected(m)'
    BY DEF NothingUnexplained
  <2>1. Unsuspected(m)
    BY DEF Receipts, NothingUnexplained
  <2>2. CASE m # n
    <3>1. \A v \in Worker : InHand(v, m)' <=> InHand(v, m)
      BY <1>2, <2>2, Bounds DEF InHand
    <3>2. \A v \in Worker : m \in worker'[v].todo => m \in worker[v].todo
      BY <1>2
    <3>3. \A v \in Worker : worker[v].now = m /\ worker[v].outcome = "ok"
            => worker'[v].now = m /\ worker'[v].outcome = "ok"
      BY <1>2, <2>2
    <3>. QED
      BY <2>1, <2>2, <3>1, <3>2, <3>3, SameRow
  <2>3. CASE m = n
    <3>1. \A v \in Worker : InHand(v, n) => v = w
      BY <2>1, <2>3 DEF Unsuspected, InHand
    <3>2. \A v \in Worker : ~InHand(v, m)'
      BY <1>2, <2>3, <3>1, Bounds DEF InHand
    <3>3. row[n].received > 0 => worker[w].outcome = "ok"
      BY <2>1, <2>3 DEF Unsuspected, Holds
    <3>. QED
      BY <2>1, <2>3, <3>2, <3>3 DEF Unsuspected, InHand
  <2>. QED
    BY <2>2, <2>3
<1>. QED
  BY <1>3, <1>4, <1>5 DEF Receipts

\* A worker records a delivery or a failure.
LEMMA ReceiptsRecord ==
  ASSUME Leases, Leases', Receipts, NEW w \in Worker,
         RecordDelivered(w) \/ HandleDeliveryFailure(w)
  PROVE  Receipts'
<1> DEFINE n == worker[w].now
<1>1. n \in Notification /\ row[n] \in RowState
  BY Typed DEF RecordDelivered, HandleDeliveryFailure, Leases, WorkInOrder, WorkerState
<1>2. CASE RecordDelivered(w)
  <2>1. /\ \A m \in Notification \ {n} : row'[m] = row[m]
        /\ row'[n].status = "delivered" /\ row'[n].suspect = row[n].suspect
        /\ row'[n].received = row[n].received
    BY <1>1, <1>2, Typed DEF RecordDelivered, RowState
  <2>2. FailedAtLimit'
    BY <2>1 DEF Receipts, FailedAtLimit
  <2>. QED
    BY <1>1, <1>2, <2>1, <2>2, ReceiptsWrite DEF RecordDelivered
<1>3. CASE HandleDeliveryFailure(w)
  <2> DEFINE count == worker[w].seen[n] + 1
  <2>1. /\ \A m \in Notification \ {n} : row'[m] = row[m]
        /\ row'[n].status = IF LimitReached(count) THEN "failed" ELSE "pending"
        /\ row'[n].suspect = row[n].suspect
        /\ row'[n].received = row[n].received /\ row'[n].retry = count
    BY <1>1, <1>3, Typed DEF HandleDeliveryFailure, RowState
  <2>2. row'[n].retry \in 0 .. MaxRetries
    BY <1>1 DEF Leases, OutboxTypeOK, RowState
  <2>3. FailedAtLimit'
    BY <1>1, <2>1, <2>2, Bounds DEF Receipts, FailedAtLimit, LimitReached
  <2>4. row'[n].status \in {"failed", "pending"} /\ worker[w].outcome # "ok"
    BY <1>3, <2>1 DEF HandleDeliveryFailure
  <2>5. Holds(w, n) /\ Proceed(w)
    BY <1>3 DEF HandleDeliveryFailure
  <2> HIDE DEF count
  <2>. QED
    BY <1>1, <2>1, <2>3, <2>4, <2>5, ReceiptsWrite
<1>. QED
  BY <1>2, <1>3

\* Every step keeps the receipts in order.
LEMMA ReceiptsStep == Leases /\ Leases' /\ Receipts /\ [OutboxNext]_outboxVars => Receipts'
<1> SUFFICES ASSUME Leases, Leases', Receipts, [OutboxNext]_outboxVars PROVE Receipts'
  OBVIOUS
<1>1. ASSUME UNCHANGED <<row, worker>> PROVE Receipts'
  BY <1>1 DEF Receipts, SentIsReceived, DeliveredWasReceived, NothingUnexplained, Unsuspected,
              FailedAtLimit, InHand, Holds
<1>2. CASE UNCHANGED outboxVars
  BY <1>1, <1>2 DEF outboxVars
<1>3. ASSUME NEW n \in Notification, RetryNotification(n) PROVE Receipts'
  BY <1>3, ReceiptsPending, Bounds DEF RetryNotification
<1>4. ASSUME NEW n \in Notification, ReadRetryCount(n) PROVE Receipts'
  BY <1>1, <1>4 DEF ReadRetryCount
<1>5. ASSUME RetryKeepingCount PROVE Receipts'
  <2>1. desk.id \in Notification /\ desk.retry \in 0 .. MaxRetries
    BY <1>5 DEF RetryKeepingCount, Leases, OutboxTypeOK
  <2>. QED
    BY <1>1, <1>5, <2>1, ReceiptsPending DEF RetryKeepingCount
<1>6. CASE OutboxNext
  BY <1>3, <1>4, <1>5, <1>6, ReceiptsEnqueue, ReceiptsBackoff, ReceiptsLease, ReceiptsDelete,
     ReceiptsClaim, ReceiptsSend, ReceiptsRecord, ReceiptsProcess
     DEF OutboxNext, AdminStep, EnqueueAdminNotification, WorkerStep
<1>. QED
  BY <1>2, <1>6

\* Leases and receipts together are inductive.
THEOREM OutboxInvariant == OutboxSpec => [](Leases /\ Receipts)
BY LeasesInit, LeasesStep, ReceiptsInit, ReceiptsStep, PTL DEF OutboxSpec

\* Only what the transport took is ever recorded as delivered.
THEOREM DeliveredIsReceived == OutboxSpec => []DeliveredWasReceived
<1>1. Receipts => DeliveredWasReceived
  BY DEF Receipts
<1>. QED
  BY <1>1, OutboxInvariant, PTL

\* No message is received twice without one of the excuses.
THEOREM DuplicatesExcused == OutboxSpec => []DuplicatesAreExcused
<1>1. Receipts => DuplicatesAreExcused
  BY DEF Receipts, NothingUnexplained, Unsuspected, DuplicatesAreExcused
<1>. QED
  BY <1>1, OutboxInvariant, PTL

-----------------------------------------------------------------------------
(***************************************************************************)
(* The outbox implements MessageDelivery.                                  *)
(***************************************************************************)

\* The four columns a message is made of.
States == [n \in Notification |-> StateOf(n)]
Misses == [n \in Notification |-> row[n].retry]
Copies == [n \in Notification |-> row[n].received]
Excuses == [n \in Notification |-> row[n].suspect]

\* Nobody works on, or has read, a row that does not exist yet.
RowsExist ==
  /\ \A w \in Worker, n \in Notification : InHand(w, n) => row[n].status # "unused"
  /\ desk # None => row[desk.id].status # "unused"

\* The state of a message by the status of its row.
LEMMA StateOfRow ==
  ASSUME NEW n \in Notification, row[n] \in RowState
  PROVE  /\ StateOf(n) = "absent" <=> row[n].status = "unused"
         /\ StateOf(n) = "waiting" <=> row[n].status \in {"pending", "processing"}
         /\ StateOf(n) = "delivered" <=> row[n].status = "delivered"
         /\ StateOf(n) = "failed" <=> row[n].status = "failed"
         /\ StateOf(n) = "deleted" <=> row[n].status = "deleted"
BY DEF StateOf, RowState, Stored, Settled

\* The same of the row after a step.
LEMMA StateOfRowNext ==
  ASSUME NEW n \in Notification, row'[n] \in RowState
  PROVE  /\ StateOf(n)' = "absent" <=> row'[n].status = "unused"
         /\ StateOf(n)' = "waiting" <=> row'[n].status \in {"pending", "processing"}
         /\ StateOf(n)' = "delivered" <=> row'[n].status = "delivered"
         /\ StateOf(n)' = "failed" <=> row'[n].status = "failed"
         /\ StateOf(n)' = "deleted" <=> row'[n].status = "deleted"
BY DEF StateOf, RowState, Stored, Settled

\* Rows whose messages are the same before and after.
LEMMA MessagesRest ==
  ASSUME \A n \in Notification :
           /\ row'[n].retry = row[n].retry /\ row'[n].received = row[n].received
           /\ row'[n].suspect = row[n].suspect
           /\ \/ row'[n].status = row[n].status
              \/ {row[n].status, row'[n].status} \subseteq {"pending", "processing"}
  PROVE  UNCHANGED Delivery!messages
<1>1. \A n \in Notification : StateOf(n)' = StateOf(n)
  BY DEF StateOf
<1>. QED
  BY <1>1 DEF Delivery!messages

\* A step that rewrites one row writes one place of each column.
LEMMA ColumnsMove ==
  ASSUME NEW n \in Notification, \A m \in Notification \ {n} : row'[m] = row[m]
  PROVE  /\ States' = [States EXCEPT ![n] = StateOf(n)']
         /\ Misses' = [Misses EXCEPT ![n] = row'[n].retry]
         /\ Copies' = [Copies EXCEPT ![n] = row'[n].received]
         /\ Excuses' = [Excuses EXCEPT ![n] = row'[n].suspect]
         /\ StateOf(n)' = StateOf(n) => UNCHANGED States
         /\ row'[n].retry = row[n].retry => UNCHANGED Misses
         /\ row'[n].received = row[n].received => UNCHANGED Copies
         /\ row'[n].suspect = row[n].suspect => UNCHANGED Excuses
<1>1. \A m \in Notification \ {n} : StateOf(m)' = StateOf(m)
  BY DEF StateOf
<1>2. States' = [States EXCEPT ![n] = StateOf(n)'] /\ (StateOf(n)' = StateOf(n) => UNCHANGED States)
  BY <1>1 DEF States
<1>3. /\ Misses' = [Misses EXCEPT ![n] = row'[n].retry]
      /\ row'[n].retry = row[n].retry => UNCHANGED Misses
  BY DEF Misses
<1>4. /\ Copies' = [Copies EXCEPT ![n] = row'[n].received]
      /\ row'[n].received = row[n].received => UNCHANGED Copies
  BY DEF Copies
<1>5. /\ Excuses' = [Excuses EXCEPT ![n] = row'[n].suspect]
      /\ row'[n].suspect = row[n].suspect => UNCHANGED Excuses
  BY DEF Excuses
<1>. QED
  BY <1>2, <1>3, <1>4, <1>5

\* A row that only comes under suspicion.
LEMMA TrackIsLost ==
  ASSUME Leases, NEW n \in Notification, row[n].status # "unused",
         \A m \in Notification \ {n} : row'[m] = row[m],
         row'[n].retry = row[n].retry, row'[n].received = row[n].received,
         row'[n].status = row[n].status, row'[n].suspect \in {row[n].suspect, TRUE}
  PROVE  [Delivery!DeliveryNext]_(Delivery!messages)
<1>1. CASE row'[n].suspect = row[n].suspect
  BY <1>1, MessagesRest
<1>2. CASE row'[n].suspect = TRUE
  <2>1. StateOf(n)' = StateOf(n)
    BY DEF StateOf
  <2>2. StateOf(n) # "absent"
    BY StateOfRow, Typed
  <2>3. Excuses' = [Excuses EXCEPT ![n] = TRUE]
    BY <1>2, ColumnsMove, Zenon
  <2>4. UNCHANGED <<States, Misses, Copies>>
    BY <2>1, ColumnsMove
  <2>5. Delivery!LoseTrack(n)
    BY <2>2, <2>3, <2>4 DEF Delivery!LoseTrack, States, Misses, Copies, Excuses
  <2>. QED
    BY <2>5 DEF Delivery!DeliveryNext
<1>. QED
  BY <1>1, <1>2

\* A row is inserted, or deleted.
LEMMA MessageEntersOrLeaves ==
  ASSUME Leases, NEW n \in Notification,
         (\E due \in BOOLEAN : EnqueueNotification(n, due)) \/ DeleteNotification(n)
  PROVE  Delivery!DeliveryNext
<1>1. row \in [Notification -> RowState] /\ row[n] \in RowState
  BY Typed
<1>2. CASE \E due \in BOOLEAN : EnqueueNotification(n, due)
  <2>1. PICK due \in BOOLEAN : EnqueueNotification(n, due)
    BY <1>2
  <2>2. /\ \A m \in Notification \ {n} : row'[m] = row[m]
        /\ row[n].status = "unused" /\ row'[n].status = "pending"
        /\ row'[n].retry = row[n].retry /\ row'[n].received = row[n].received
        /\ row'[n].suspect = row[n].suspect
    <3>1. row[n].status = "unused"
      BY <2>1 DEF EnqueueNotification
    <3>2. row' = [row EXCEPT ![n].status = "pending", ![n].due = due]
      BY <2>1 DEF EnqueueNotification
    <3>. QED
      BY <1>1, <3>1, <3>2 DEF RowState
  <2>3. StateOf(n) = "absent" /\ StateOf(n)' = "waiting"
    BY <2>2 DEF StateOf
  <2>4. States' = [States EXCEPT ![n] = "waiting"] /\ UNCHANGED <<Misses, Copies, Excuses>>
    BY <2>2, <2>3, ColumnsMove
  <2>5. Delivery!Accept(n)
    BY <2>3, <2>4 DEF Delivery!Accept, Delivery!Becomes, States, Misses, Copies, Excuses
  <2>. QED
    BY <2>5 DEF Delivery!DeliveryNext
<1>3. CASE DeleteNotification(n)
  <2>1. /\ \A m \in Notification \ {n} : row'[m] = row[m]
        /\ row[n].status \in Stored /\ row'[n].status = "deleted"
        /\ row'[n].retry = row[n].retry /\ row'[n].received = row[n].received
        /\ row'[n].suspect = row[n].suspect
    BY <1>1, <1>3 DEF DeleteNotification, Delete, Found, RowState
  <2>2. StateOf(n) \in {"waiting", "delivered", "failed"} /\ StateOf(n)' = "deleted"
    BY <2>1 DEF StateOf, Stored, Settled
  <2>3. States' = [States EXCEPT ![n] = "deleted"] /\ UNCHANGED <<Misses, Copies, Excuses>>
    BY <2>1, <2>2, ColumnsMove
  <2>4. Delivery!Delete(n)
    BY <2>2, <2>3 DEF Delivery!Delete, Delivery!Present, Delivery!Becomes, States, Misses, Copies,
                      Excuses
  <2>. QED
    BY <2>4 DEF Delivery!DeliveryNext
<1>. QED
  BY <1>2, <1>3

\* An administrator's retry.
LEMMA MessageWaitsAnew ==
  ASSUME Leases, NEW n \in Notification, NEW count \in 0 .. MaxRetries,
         Found(n), MakePending(n, count)
  PROVE  Delivery!DeliveryNext
<1>1. row \in [Notification -> RowState] /\ row[n] \in RowState
  BY Typed
<1>2. PICK doubt \in BOOLEAN : doubt = InSomeHand(n)
  BY Zenon DEF InSomeHand
<1>3. row' = [row EXCEPT ![n] = [@ EXCEPT !.status = "pending", !.retry = count, !.due = TRUE,
                                          !.holder = None, !.expired = FALSE, !.received = 0,
                                          !.suspect = doubt]]
  BY <1>2, Zenon DEF MakePending
<1>4. /\ \A m \in Notification \ {n} : row'[m] = row[m]
      /\ row'[n].status = "pending" /\ row'[n].retry = count /\ row'[n].received = 0
      /\ row'[n].suspect = doubt
  BY <1>1, <1>3 DEF RowState
<1>5. StateOf(n) \in {"waiting", "delivered", "failed"} /\ StateOf(n)' = "waiting"
  BY <1>4 DEF StateOf, Found, Stored, Settled
<1>6. /\ States' = [States EXCEPT ![n] = "waiting"] /\ Misses' = [Misses EXCEPT ![n] = count]
      /\ Copies' = [Copies EXCEPT ![n] = 0] /\ Excuses' = [Excuses EXCEPT ![n] = doubt]
  BY <1>4, <1>5, ColumnsMove
<1>7. Delivery!WaitAnew(n, count, doubt)
  BY <1>5, <1>6 DEF Delivery!WaitAnew, Delivery!Present, Delivery!Becomes, States, Misses, Copies,
                    Excuses
<1>. QED
  BY <1>7 DEF Delivery!DeliveryNext

\* A worker hands the message to the transport, which takes it or does not.
LEMMA MessageGoesOut ==
  ASSUME Leases, Receipts, RowsExist, NEW w \in Worker, NEW n \in Notification, Send(w, n)
  PROVE  [Delivery!DeliveryNext]_(Delivery!messages)
<1>1. row \in [Notification -> RowState] /\ row[n] \in RowState
  BY Typed
<1>2. n \in worker[w].todo /\ InHand(w, n)
  BY DEF Send, InHand
<1>3. PICK answer \in SendPush :
        row' = IF answer.got
               THEN [row EXCEPT ![n].received = IF @ < 2 THEN @ + 1 ELSE 2,
                                ![n].suspect = @ \/ answer.outcome # "ok"]
               ELSE row
  BY DEF Send, SendPush
<1>4. CASE ~answer.got
  BY <1>3, <1>4, MessagesRest
<1>5. CASE answer.got
  <2>1. PICK doubt \in BOOLEAN : doubt = (answer.outcome # "ok")
    BY Zenon
  <2>2. /\ \A m \in Notification \ {n} : row'[m] = row[m]
        /\ row'[n].status = row[n].status /\ row'[n].retry = row[n].retry
        /\ row'[n].received = IF row[n].received < 2 THEN row[n].received + 1 ELSE 2
    BY <1>1, <1>3, <1>5 DEF RowState
  <2>3. row'[n].suspect = (row[n].suspect \/ doubt)
    BY <1>1, <1>3, <1>5, <2>1 DEF RowState
  <2>4. StateOf(n)' = StateOf(n)
    BY <2>2 DEF StateOf
  <2>5. row[n].suspect \/ (row[n].received = 0 /\ StateOf(n) \in {"waiting", "deleted"})
    <3>1. ~row[n].suspect => Unsuspected(n)
      BY DEF Receipts, NothingUnexplained
    <3>2. ~row[n].suspect => row[n].received = 0 /\ row[n].status \in {"deleted", "processing"}
      BY <1>2, <3>1 DEF Unsuspected, Holds
    <3>. QED
      BY <3>2 DEF StateOf
  <2>6. StateOf(n) # "absent"
    BY <1>1, <1>2, StateOfRow DEF RowsExist
  <2>7. /\ UNCHANGED <<States, Misses>>
        /\ Copies' = [Copies EXCEPT ![n] = IF row[n].received < 2 THEN row[n].received + 1 ELSE 2]
        /\ Excuses' = [Excuses EXCEPT ![n] = row[n].suspect \/ doubt]
    <3>1. /\ Copies' = [Copies EXCEPT ![n] = row'[n].received]
          /\ Excuses' = [Excuses EXCEPT ![n] = row'[n].suspect]
          /\ UNCHANGED <<States, Misses>>
      BY <2>2, <2>4, ColumnsMove
    <3>. QED
      BY <2>2, <2>3, <3>1, Zenon
  <2>8. Delivery!Transmit(n, doubt)
    BY <2>5, <2>6, <2>7 DEF Delivery!Transmit, States, Misses, Copies, Excuses
  <2>. QED
    BY <2>8 DEF Delivery!DeliveryNext
<1>. QED
  BY <1>4, <1>5

\* A worker records what became of the row it holds.
LEMMA MessageIsDecided ==
  ASSUME Leases, Receipts, NEW w \in Worker, RecordDelivered(w) \/ HandleDeliveryFailure(w)
  PROVE  Delivery!DeliveryNext
<1>1. PICK n \in Notification : n = worker[w].now /\ Holds(w, n)
  <2>1. worker[w].outcome # "none" /\ Holds(w, worker[w].now)
    <3>1. CASE RecordDelivered(w)
      BY <3>1 DEF RecordDelivered
    <3>2. CASE HandleDeliveryFailure(w)
      <4>1. worker[w].outcome \in {"failed", "last"} /\ Holds(w, worker[w].now)
        BY <3>2, Zenon DEF HandleDeliveryFailure
      <4>. QED
        BY <4>1
    <3>. QED
      BY <3>1, <3>2
  <2>2. worker[w].now \in Notification
    BY <2>1, Typed DEF Leases, WorkInOrder, WorkerState
  <2>. QED
    BY <2>1, <2>2
<1>2. row \in [Notification -> RowState] /\ row[n] \in RowState
  BY Typed
<1>3. Holds(w, n) /\ row[n].status = "processing"
  BY <1>1 DEF Holds
<1>4. StateOf(n) = "waiting"
  BY <1>3 DEF StateOf
<1>5. CASE RecordDelivered(w)
  <2>1. /\ \A m \in Notification \ {n} : row'[m] = row[m]
        /\ row'[n].status = "delivered" /\ row'[n].retry = row[n].retry
        /\ row'[n].suspect = row[n].suspect /\ row'[n].received = row[n].received
    BY <1>1, <1>2, <1>5 DEF RecordDelivered, RowState
  <2>2. row[n].received > 0
    BY <1>1, <1>3, <1>5 DEF RecordDelivered, Receipts, SentIsReceived
  <2>3. StateOf(n)' = "delivered"
    BY <2>1 DEF StateOf
  <2>4. States' = [States EXCEPT ![n] = "delivered"] /\ UNCHANGED <<Misses, Copies, Excuses>>
    BY <1>1, <2>1, <2>3, ColumnsMove
  <2>5. Delivery!Confirm(n)
    BY <1>1, <1>4, <2>2, <2>4 DEF Delivery!Confirm, Delivery!Becomes, States, Misses, Copies,
                                  Excuses
  <2>. QED
    BY <1>1, <2>5 DEF Delivery!DeliveryNext
<1>6. CASE HandleDeliveryFailure(w)
  <2>1. worker[w].seen[n] = row[n].retry
    BY <1>1, <1>3 DEF Leases, CopiesAreFresh, InHand
  <2>2. row[n].retry \in Nat /\ row[n].retry < MaxRetries
    BY <1>2, <1>3, Bounds DEF Leases, ClaimedBelowLimit, RowState
  <2> DEFINE count == worker[w].seen[n] + 1
  <2>3. /\ \A m \in Notification \ {n} : row'[m] = row[m]
        /\ row'[n].status = IF LimitReached(count) THEN "failed" ELSE "pending"
        /\ row'[n].suspect = row[n].suspect
        /\ row'[n].received = row[n].received /\ row'[n].retry = count
    <3> DEFINE k == worker[w].now
    <3>1. k \in Notification /\ row[k] \in RowState
      BY <1>1, <1>2
    <3>2. /\ \A m \in Notification \ {k} : row'[m] = row[m]
          /\ row'[k].status = IF LimitReached(worker[w].seen[k] + 1) THEN "failed" ELSE "pending"
          /\ row'[k].suspect = row[k].suspect
          /\ row'[k].received = row[k].received /\ row'[k].retry = worker[w].seen[k] + 1
      <4>1. row' = [row EXCEPT
                      ![k].status = IF LimitReached(worker[w].seen[k] + 1) THEN "failed"
                                                                           ELSE "pending",
                      ![k].retry = worker[w].seen[k] + 1,
                      ![k].due = LimitReached(worker[w].seen[k] + 1),
                      ![k].holder = None, ![k].expired = FALSE]
        BY <1>6, Zenon DEF HandleDeliveryFailure
      <4> HIDE DEF k
      <4>. QED
        BY <3>1, <4>1, Typed DEF RowState
    <3>. QED
      BY <1>1, <3>2
  <2>4. row'[n].retry = row[n].retry + 1
    BY <2>1, <2>3
  <2>5. row'[n].status = IF row[n].retry + 1 = MaxRetries THEN "failed" ELSE "pending"
    BY <2>1, <2>2, <2>3, Bounds DEF LimitReached
  <2>6. StateOf(n)' = IF row[n].retry + 1 = MaxRetries THEN "failed" ELSE "waiting"
    BY <2>5 DEF StateOf
  <2>7. /\ States' = [States EXCEPT ![n] = IF row[n].retry + 1 = MaxRetries THEN "failed"
                                                                          ELSE "waiting"]
        /\ Misses' = [Misses EXCEPT ![n] = row[n].retry + 1]
        /\ UNCHANGED <<Copies, Excuses>>
    <3>1. /\ States' = [States EXCEPT ![n] = StateOf(n)']
          /\ Misses' = [Misses EXCEPT ![n] = row'[n].retry]
          /\ UNCHANGED <<Copies, Excuses>>
      BY <1>1, <2>3, ColumnsMove
    <3>. QED
      BY <2>4, <2>6, <3>1, Zenon
  <2>8. Delivery!Miss(n)
    BY <1>1, <1>4, <2>2, <2>7 DEF Delivery!Miss, Delivery!Becomes, States, Misses, Copies, Excuses
  <2>. QED
    BY <1>1, <2>8 DEF Delivery!DeliveryNext
<1>. QED
  BY <1>5, <1>6

\* Waiting, claiming, dropping a result, starting and stopping are no business
\* of the message; losing sight of it excuses a second copy.
LEMMA MessageIsLeftAlone ==
  ASSUME Leases, RowsExist,
         \/ \E n \in Notification : BackoffElapses(n) \/ LeaseExpires(n) \/ ReadRetryCount(n)
         \/ \E w \in Worker : \/ ClaimPendingNotifications(w) \/ LeaseLost(w) \/ RowGone(w)
                            \/ Exit(w) \/ UpdateFails(w) \/ Start(w) \/ Stop(w) \/ Crash(w)
  PROVE  [Delivery!DeliveryNext]_(Delivery!messages)
<1>1. row \in [Notification -> RowState] /\ \A n \in Notification : row[n] \in RowState
  BY Typed
<1>2. ASSUME UNCHANGED row PROVE [Delivery!DeliveryNext]_(Delivery!messages)
  BY <1>2, MessagesRest
<1>3. ASSUME NEW n \in Notification, BackoffElapses(n)
      PROVE  [Delivery!DeliveryNext]_(Delivery!messages)
  <2>1. \A m \in Notification :
          /\ row'[m].retry = row[m].retry /\ row'[m].received = row[m].received
          /\ row'[m].suspect = row[m].suspect /\ row'[m].status = row[m].status
    BY <1>1, <1>3 DEF BackoffElapses, RowState
  <2>. QED
    BY <2>1, MessagesRest
<1>4. ASSUME NEW n \in Notification, LeaseExpires(n)
      PROVE  [Delivery!DeliveryNext]_(Delivery!messages)
  <2>1. PICK early \in BOOLEAN :
          row' = [row EXCEPT ![n].expired = TRUE, ![n].suspect = @ \/ early]
    BY <1>4, Zenon DEF LeaseExpires, InHand
  <2>2. /\ \A m \in Notification \ {n} : row'[m] = row[m]
        /\ row'[n].retry = row[n].retry /\ row'[n].received = row[n].received
        /\ row'[n].status = row[n].status /\ row'[n].suspect \in {row[n].suspect, TRUE}
    BY <1>1, <2>1 DEF RowState
  <2>. QED
    BY <1>4, <2>2, TrackIsLost DEF LeaseExpires
<1>5. ASSUME NEW w \in Worker, ClaimPendingNotifications(w)
      PROVE  [Delivery!DeliveryNext]_(Delivery!messages)
  <2>1. \A n \in NextBatch : row[n].status \in {"pending", "processing"}
    BY DEF NextBatch, Claimable
  <2>2. \A n \in Notification :
          /\ row'[n].retry = row[n].retry /\ row'[n].received = row[n].received
          /\ row'[n].suspect = row[n].suspect
          /\ n \in NextBatch => row'[n].status = "processing"
          /\ n \notin NextBatch => row'[n] = row[n]
    <3>1. \A n \in Notification :
            row'[n] = IF n \in NextBatch
                      THEN [row[n] EXCEPT !.status = "processing", !.holder = w, !.expired = FALSE]
                      ELSE row[n]
      BY <1>5, Zenon DEF ClaimPendingNotifications
    <3>2. ASSUME NEW n \in NextBatch
          PROVE  /\ row'[n].retry = row[n].retry /\ row'[n].received = row[n].received
                 /\ row'[n].suspect = row[n].suspect /\ row'[n].status = "processing"
      <4>1. n \in Notification /\ row[n] \in RowState
        BY <1>1 DEF NextBatch, Claimable
      <4>2. row'[n] = [row[n] EXCEPT !.status = "processing", !.holder = w, !.expired = FALSE]
        BY <3>1, <4>1, Zenon
      <4>. QED
        BY <4>1, <4>2 DEF RowState
    <3>. QED
      BY <3>1, <3>2, Zenon
  <2>. QED
    BY <2>1, <2>2, MessagesRest
<1>6. ASSUME NEW w \in Worker, UpdateFails(w)
      PROVE  [Delivery!DeliveryNext]_(Delivery!messages)
  <2> DEFINE n == worker[w].now
  <2>1. n \in Notification /\ row[n].status # "unused"
    BY <1>6, Typed DEF UpdateFails, WorkerState, RowsExist, InHand
  <2>2. /\ \A m \in Notification \ {n} : row'[m] = row[m]
        /\ row'[n].retry = row[n].retry /\ row'[n].received = row[n].received
        /\ row'[n].status = row[n].status /\ row'[n].suspect \in {row[n].suspect, TRUE}
    BY <1>1, <1>6, <2>1 DEF UpdateFails, RowState
  <2> HIDE DEF n
  <2>. QED
    BY <2>1, <2>2, TrackIsLost
<1>7. ASSUME NEW w \in Worker, Crash(w)
      PROVE  [Delivery!DeliveryNext]_(Delivery!messages)
  <2> DEFINE n == worker[w].now
  <2>1. CASE n \in Notification /\ worker[w].outcome = "ok"
    <3>1. row[n].status # "unused"
      BY <2>1 DEF RowsExist, InHand
    <3>2. /\ \A m \in Notification \ {n} : row'[m] = row[m]
          /\ row'[n].retry = row[n].retry /\ row'[n].received = row[n].received
          /\ row'[n].status = row[n].status /\ row'[n].suspect \in {row[n].suspect, TRUE}
      BY <1>1, <1>7, <2>1 DEF Crash, RowState
    <3> HIDE DEF n
    <3>. QED
      BY <2>1, <3>1, <3>2, TrackIsLost
  <2>2. CASE ~(n \in Notification /\ worker[w].outcome = "ok")
    <3>1. \A m \in Notification : row'[m] = row[m]
      BY <1>1, <1>7, <2>2 DEF Crash
    <3>. QED
      BY <3>1, MessagesRest
  <2>. QED
    BY <2>1, <2>2
<1>. QED
  BY <1>2, <1>3, <1>4, <1>5, <1>6, <1>7
     DEF ReadRetryCount, LeaseLost, RowGone, Exit, Start, Stop

\* Every step of the outbox is one of a message, or none.
LEMMA DeliveryStep ==
  ASSUME Leases, Receipts, RowsExist, [OutboxNext]_outboxVars
  PROVE  [Delivery!DeliveryNext]_(Delivery!messages)
<1>1. CASE UNCHANGED outboxVars
  BY <1>1, MessagesRest DEF outboxVars
<1>2. ASSUME NEW n \in Notification, RetryNotification(n)
      PROVE  Delivery!DeliveryNext
  BY <1>2, MessageWaitsAnew, Bounds DEF RetryNotification
<1>3. CASE RetryKeepingCount
  <2>1. desk.id \in Notification /\ desk.retry \in 0 .. MaxRetries
    BY <1>3 DEF RetryKeepingCount, Leases, OutboxTypeOK
  <2>2. CASE row[desk.id].status = "deleted"
    BY <1>3, <2>2, MessagesRest DEF RetryKeepingCount
  <2>3. CASE row[desk.id].status # "deleted"
    <3>1. row[desk.id] \in RowState /\ row[desk.id].status # "unused"
      BY <1>3, <2>1, Typed DEF RetryKeepingCount, RowsExist
    <3>2. Found(desk.id)
      BY <2>3, <3>1 DEF RowState, Found
    <3>. QED
      BY <1>3, <2>1, <2>3, <3>2, MessageWaitsAnew DEF RetryKeepingCount
  <2>. QED
    BY <2>2, <2>3
<1>4. CASE OutboxNext
  <2>1. CASE \E n \in Notification :
               \/ EnqueueNotification(n, TRUE) \/ BackoffElapses(n) \/ LeaseExpires(n)
               \/ AdminStep(n)
    BY <1>2, <2>1, MessageEntersOrLeaves, MessageIsLeftAlone
       DEF AdminStep, EnqueueAdminNotification
  <2>2. CASE \E w \in Worker :
               \/ WorkerStep(w) \/ UpdateFails(w) \/ Start(w) \/ Stop(w) \/ Crash(w)
    BY <2>2, MessageGoesOut, MessageIsDecided, MessageIsLeftAlone DEF WorkerStep
  <2>. QED
    BY <1>3, <1>4, <2>1, <2>2 DEF OutboxNext
<1>. QED
  BY <1>1, <1>4

\* A row that exists stays, if only as deleted: no message becomes absent again.
LEMMA RowsStay ==
  ASSUME Leases, Leases', Receipts, RowsExist, [OutboxNext]_outboxVars,
         NEW n \in Notification, row[n].status # "unused"
  PROVE  row'[n].status # "unused"
<1>1. [Delivery!DeliveryNext]_(Delivery!messages)
  BY DeliveryStep
<1>2. States[n] # "absent"
  BY StateOfRow, Typed DEF States
<1>3. States'[n] # "absent"
  <2>1. CASE UNCHANGED Delivery!messages
    BY <1>2, <2>1 DEF Delivery!messages, States
  <2>2. ASSUME NEW m \in Notification, NEW new, States' = [States EXCEPT ![m] = new],
               new # "absent"
        PROVE  States'[n] # "absent"
    BY <1>2, <2>2 DEF States
  <2>3. ASSUME UNCHANGED States PROVE States'[n] # "absent"
    BY <1>2, <2>3
  <2>4. ASSUME NEW m \in Notification, NEW doubt, NEW count,
               \/ Delivery!Accept(m) \/ Delivery!LoseTrack(m) \/ Delivery!Confirm(m)
               \/ Delivery!Delete(m) \/ Delivery!Transmit(m, doubt)
               \/ Delivery!WaitAnew(m, count, doubt)
        PROVE  States'[n] # "absent"
    BY <2>2, <2>3, <2>4
       DEF Delivery!Accept, Delivery!LoseTrack, Delivery!Confirm, Delivery!Delete,
           Delivery!Transmit, Delivery!WaitAnew, Delivery!Becomes, States
  <2>5. ASSUME NEW m \in Notification, Delivery!Miss(m) PROVE States'[n] # "absent"
    <3>1. PICK new \in {"failed", "waiting"} : States' = [States EXCEPT ![m] = new]
      BY <2>5 DEF Delivery!Miss, Delivery!Becomes, States
    <3>. QED
      BY <2>2, <3>1
  <2>. QED
    BY <1>1, <2>1, <2>4, <2>5 DEF Delivery!DeliveryNext
<1>4. row'[n] \in RowState
  BY DEF Leases, OutboxTypeOK
<1>. QED
  BY <1>3, <1>4, StateOfRowNext DEF States

\* A worker takes up what it claims, and nothing else.
LEMMA HandsTake ==
  ASSUME Leases, [OutboxNext]_outboxVars, NEW w \in Worker, NEW n \in Notification,
         ~InHand(w, n), InHand(w, n)'
  PROVE  row'[n].status = "processing"
<1>1. worker[w] \in WorkerState /\ worker \in [Worker -> WorkerState] /\ n # NoRow
  BY Typed, Bounds
<1>2. OutboxNext /\ worker'[w] # worker[w]
  BY DEF outboxVars, InHand
<1>3. PICK v \in Worker : WorkerStep(v) \/ UpdateFails(v) \/ Start(v) \/ Stop(v) \/ Crash(v)
  BY <1>2 DEF OutboxNext, AdminStep, EnqueueNotification, BackoffElapses, LeaseExpires,
              EnqueueAdminNotification, RetryNotification, ReadRetryCount,
              DeleteNotification, RetryKeepingCount
<1>4. ASSUME NEW mode, worker' = [worker EXCEPT ![v] = Idle(mode)] PROVE FALSE
  BY <1>1, <1>4 DEF Idle, InHand
<1>5. CASE ClaimPendingNotifications(v)
  <2>1. n \in NextBatch
    <3>1. /\ worker'[v].todo = NextBatch /\ worker'[v].now = worker[v].now
          /\ \A u \in Worker \ {v} : worker'[u] = worker[u]
      <4>1. PICK seen : worker' = [worker EXCEPT ![v].todo = NextBatch, ![v].seen = seen]
        BY <1>5, Zenon DEF ClaimPendingNotifications
      <4>. QED
        BY <4>1, Typed DEF WorkerState
    <3>. QED
      BY <3>1 DEF InHand
  <2>2. row[n] \in RowState
    BY Typed
  <2>3. row'[n] = [row[n] EXCEPT !.status = "processing", !.holder = v, !.expired = FALSE]
    BY <1>5, <2>1, Zenon DEF ClaimPendingNotifications
  <2>. QED
    BY <2>2, <2>3 DEF RowState
<1>6. ASSUME NEW m \in Notification, Send(v, m) PROVE FALSE
  <2>1. PICK answer :
          worker' = [worker EXCEPT ![v].todo = @ \ {m}, ![v].now = m,
                                   ![v].outcome = answer.outcome]
    BY <1>6 DEF Send
  <2>2. m \in worker[v].todo
    BY <1>6 DEF Send
  <2>. QED
    BY <1>1, <2>1, <2>2 DEF WorkerState, InHand
<1>7. ASSUME Proceed(v), v = w PROVE FALSE
  <2>1. worker'[w].now = NoRow /\ worker'[w].todo = worker[w].todo
    BY <1>1, <1>7 DEF Proceed, WorkerState
  <2>. QED
    BY <1>1, <2>1 DEF InHand
<1>8. CASE RecordDelivered(v) \/ HandleDeliveryFailure(v) \/ LeaseLost(v)
  <2>1. Proceed(v)
    BY <1>8, Zenon DEF RecordDelivered, HandleDeliveryFailure, LeaseLost
  <2>2. v # w => worker'[w] = worker[w]
    BY <1>1, <2>1 DEF Proceed
  <2>. QED
    BY <1>2, <1>7, <2>1, <2>2
<1>9. CASE RowGone(v) \/ Start(v) \/ Exit(v) \/ Crash(v)
  BY <1>4, <1>9 DEF RowGone, AbortBatch, Start, Exit, Crash
<1>10. CASE UpdateFails(v)
  <2>1. CASE worker[v].outcome = "last"
    BY <1>4, <1>10, <2>1 DEF UpdateFails, AbortBatch
  <2>2. CASE worker[v].outcome # "last"
    <3>1. worker' = [worker EXCEPT ![v].outcome = "last"]
      BY <1>10, <2>2, Zenon DEF UpdateFails
    <3>2. worker'[w].todo = worker[w].todo /\ worker'[w].now = worker[w].now
      BY <1>1, <3>1 DEF WorkerState
    <3>. QED
      BY <3>2 DEF InHand
  <2>. QED
    BY <2>1, <2>2
<1>11. CASE Stop(v)
  BY <1>1, <1>11 DEF Stop, InHand, WorkerState
<1>. QED
  BY <1>3, <1>5, <1>6, <1>8, <1>9, <1>10, <1>11 DEF WorkerStep

\* Nobody comes to work on a row that does not exist.
LEMMA RowsExistStep ==
  Leases /\ Leases' /\ Receipts /\ RowsExist /\ [OutboxNext]_outboxVars => RowsExist'
<1> SUFFICES ASSUME Leases, Leases', Receipts, RowsExist, [OutboxNext]_outboxVars
             PROVE  RowsExist'
  OBVIOUS
<1>1. ASSUME NEW w \in Worker, NEW n \in Notification, InHand(w, n)'
      PROVE  row'[n].status # "unused"
  <2>1. CASE InHand(w, n)
    BY <2>1, RowsStay DEF RowsExist
  <2>2. CASE ~InHand(w, n)
    BY <1>1, <2>2, HandsTake
  <2>. QED
    BY <2>1, <2>2
<1>2. ASSUME desk' # None PROVE row'[desk'.id].status # "unused"
  <2>1. desk' \in [id : Notification, retry : 0 .. MaxRetries]
    BY <1>2 DEF Leases, OutboxTypeOK
  <2>2. CASE desk' = desk
    BY <1>2, <2>1, <2>2, RowsStay DEF RowsExist
  <2>3. CASE desk' # desk
    <3>1. ASSUME NEW w \in Worker,
                 WorkerStep(w) \/ UpdateFails(w) \/ Start(w) \/ Stop(w) \/ Crash(w)
          PROVE  UNCHANGED desk
      <4>1. WorkerStep(w) => UNCHANGED desk
        BY Zenon DEF WorkerStep, ClaimPendingNotifications, Send, RecordDelivered,
                     HandleDeliveryFailure, LeaseLost, RowGone, Exit
      <4>2. UpdateFails(w) \/ Start(w) \/ Stop(w) \/ Crash(w) => UNCHANGED desk
        BY Zenon DEF UpdateFails, Start, Stop, Crash
      <4>. QED
        BY <3>1, <4>1, <4>2
    <3>2. PICK n \in Notification : ReadRetryCount(n)
      BY <1>2, <2>3, <3>1
         DEF outboxVars, OutboxNext, AdminStep, EnqueueNotification, BackoffElapses,
             LeaseExpires, EnqueueAdminNotification, RetryNotification, DeleteNotification,
             RetryKeepingCount
    <3>3. desk' = [id |-> n, retry |-> row[n].retry] /\ row[n].status # "unused" /\ row' = row
      BY <3>2 DEF ReadRetryCount, Found, Stored, Settled
    <3>. QED
      BY <3>3
  <2>. QED
    BY <2>2, <2>3
<1>3. \A w \in Worker, n \in Notification : InHand(w, n)' => row'[n].status # "unused"
  BY <1>1
<1>. QED
  BY <1>2, <1>3 DEF RowsExist

LEMMA RowsExistInit == OutboxInit => RowsExist
BY Bounds, IdleType DEF OutboxInit, RowsExist, InHand

\* No message has entered.
LEMMA DeliveryInit == OutboxInit => Delivery!DeliveryInit
<1> SUFFICES ASSUME OutboxInit PROVE Delivery!DeliveryInit
  OBVIOUS
<1>1. \A n \in Notification : /\ row[n].status = "unused" /\ row[n].retry = 0
                              /\ row[n].received = 0 /\ row[n].suspect = FALSE
  BY DEF OutboxInit
<1>2. \A n \in Notification : StateOf(n) = "absent"
  BY <1>1 DEF StateOf
<1>. QED
  BY <1>1, <1>2 DEF Delivery!DeliveryInit

\* With its workers, leases, clocks, crashes and administrators the outbox is
\* nothing but MessageDelivery.
THEOREM OutboxKeepsDelivery == OutboxSpec => ImplementsDelivery
<1>1. OutboxSpec => [](Leases /\ Receipts /\ RowsExist)
  <2>1. Leases /\ Receipts /\ RowsExist /\ [OutboxNext]_outboxVars
          => Leases' /\ Receipts' /\ RowsExist'
    BY LeasesStep, ReceiptsStep, RowsExistStep
  <2>. QED
    BY <2>1, LeasesInit, ReceiptsInit, RowsExistInit, PTL DEF OutboxSpec
<1>2. Leases /\ Receipts /\ RowsExist /\ [OutboxNext]_outboxVars
        => [Delivery!DeliveryNext]_(Delivery!messages)
  BY DeliveryStep
<1>. QED
  BY <1>1, <1>2, DeliveryInit, PTL
     DEF OutboxSpec, ImplementsDelivery, Delivery!DeliverySpec

-----------------------------------------------------------------------------
(***************************************************************************)
(* What a worker may never do, and the retry limit.                        *)
(***************************************************************************)

\* What a worker's step does to the count and to a settled row.
Harmless ==
  \A n \in Notification :
    /\ row'[n].retry \in {row[n].retry, row[n].retry + 1}
    /\ row[n].status \in Settled \cup {"deleted"} => row'[n].status = row[n].status

\* A worker claims, sends, drops and loses rows without touching a retry count,
\* and counts a failure only of a row it holds, from a copy that is fresh.
LEMMA WorkersAreHarmless ==
  ASSUME Leases, NEW w \in Worker,
         WorkerStep(w) \/ UpdateFails(w) \/ Start(w) \/ Stop(w) \/ Crash(w)
  PROVE  Harmless
<1>1. \A n \in Notification : row[n] \in RowState /\ row[n].retry \in Nat
  BY Typed, Bounds DEF RowState
<1>2. worker[w].now \in Notification \/ worker[w].outcome = "none"
  BY Typed DEF WorkerState, Leases, WorkInOrder
<1>3. CASE ClaimPendingNotifications(w)
  <2>1. \A n \in NextBatch : row[n].status \in {"pending", "processing"}
    BY DEF NextBatch, Claimable
  <2>2. \A n \in Notification :
          /\ row'[n].retry = row[n].retry
          /\ n \notin NextBatch => row'[n] = row[n]
    BY <1>1, <1>3 DEF ClaimPendingNotifications, RowState
  <2>. QED
    BY <2>1, <2>2 DEF Harmless, Settled
<1>4. ASSUME NEW n \in Notification, Send(w, n) PROVE Harmless
  <2>1. PICK answer : row' = IF answer.got
                             THEN [row EXCEPT ![n].received = IF @ < 2 THEN @ + 1 ELSE 2,
                                              ![n].suspect = @ \/ answer.outcome # "ok"]
                             ELSE row
    BY <1>4 DEF Send
  <2>2. \A m \in Notification : row'[m].retry = row[m].retry /\ row'[m].status = row[m].status
    BY <1>1, <2>1, Typed DEF RowState
  <2>. QED
    BY <2>2 DEF Harmless
<1>5. CASE RecordDelivered(w) \/ HandleDeliveryFailure(w)
  <2> DEFINE n == worker[w].now
  <2>1. n \in Notification /\ Holds(w, n)
    BY <1>2, <1>5 DEF RecordDelivered, HandleDeliveryFailure
  <2>2. worker[w].seen[n] = row[n].retry
    BY <2>1 DEF Leases, CopiesAreFresh, InHand
  <2>3. /\ \A m \in Notification \ {n} : row'[m] = row[m]
        /\ row'[n].retry \in {row[n].retry, worker[w].seen[n] + 1}
    <3>1. row[n] \in RowState /\ row \in [Notification -> RowState]
      BY <2>1, Typed
    <3>2. CASE RecordDelivered(w)
      BY <2>1, <3>1, <3>2 DEF RecordDelivered, RowState
    <3>3. CASE HandleDeliveryFailure(w)
      BY <2>1, <3>1, <3>3 DEF HandleDeliveryFailure, RowState
    <3>. QED
      BY <1>5, <3>2, <3>3
  <2>. QED
    BY <2>1, <2>2, <2>3 DEF Harmless, Holds, Settled
<1>6. CASE LeaseLost(w) \/ RowGone(w) \/ Exit(w) \/ Start(w) \/ Stop(w)
  BY <1>6 DEF LeaseLost, RowGone, Exit, Start, Stop, Harmless
<1>7. CASE UpdateFails(w)
  <2>1. worker[w].now \in Notification
    BY <1>7, Typed DEF UpdateFails, WorkerState
  <2>2. \A m \in Notification : row'[m].retry = row[m].retry /\ row'[m].status = row[m].status
    BY <1>1, <1>7, <2>1, Typed DEF UpdateFails, RowState
  <2>. QED
    BY <2>2 DEF Harmless
<1>8. CASE Crash(w)
  <2>1. \A m \in Notification : row'[m].retry = row[m].retry /\ row'[m].status = row[m].status
    BY <1>1, <1>8 DEF Crash, RowState
  <2>. QED
    BY <2>1 DEF Harmless
<1>. QED
  BY <1>3, <1>4, <1>5, <1>6, <1>7, <1>8 DEF WorkerStep

\* No late answer, second claim or write from an old copy does harm: a worker's
\* step moves a retry count by one up at most and leaves settled rows alone.
THEOREM LateWorkersDoNoHarm == OutboxSpec => LateWorkersAreHarmless
<1>1. Leases /\ [OutboxNext]_outboxVars =>
        [\A w \in Worker : worker'[w] # worker[w] =>
           \A n \in Notification :
             /\ row'[n].retry \in {row[n].retry, row[n].retry + 1}
             /\ row[n].status \in Settled \cup {"deleted"}
                  => row'[n].status = row[n].status]_<<row, worker>>
  <2> SUFFICES ASSUME Leases, [OutboxNext]_outboxVars,
                      NEW w \in Worker, worker'[w] # worker[w]
               PROVE  Harmless
    BY DEF Harmless
  <2>1. OutboxNext /\ ~UNCHANGED worker
    BY DEF outboxVars
  <2>2. PICK v \in Worker :
          WorkerStep(v) \/ UpdateFails(v) \/ Start(v) \/ Stop(v) \/ Crash(v)
    BY <2>1 DEF OutboxNext, AdminStep, EnqueueNotification, BackoffElapses, LeaseExpires,
                EnqueueAdminNotification, RetryNotification, ReadRetryCount,
                DeleteNotification, RetryKeepingCount
  <2>. QED
    BY <2>2, WorkersAreHarmless
<1>. QED
  BY <1>1, OutboxInvariant, PTL DEF OutboxSpec, LateWorkersAreHarmless

\* While nobody retries with the count a row has reached, rows that wait are
\* below the limit as those at work are.
WaitingBelowLimit ==
  /\ desk = None
  /\ \A n \in Notification : row[n].status \in {"unused", "pending"} => row[n].retry < MaxRetries

\* Every row starts below the limit, and only a failure below the limit, or a
\* retry from zero, makes a row pending.
LEMMA WaitingStep ==
  ASSUME ~KeepCount, Leases, WaitingBelowLimit, [OutboxNext]_outboxVars
  PROVE  WaitingBelowLimit'
<1>1. \A n \in Notification : row[n] \in RowState /\ row[n].retry \in Nat
  BY Typed, Bounds DEF RowState
<1>2. CASE UNCHANGED outboxVars
  BY <1>2 DEF outboxVars, WaitingBelowLimit
<1>3. ASSUME NEW n \in Notification, UNCHANGED desk,
             \A m \in Notification \ {n} : row'[m] = row[m],
             \/ row'[n].status \notin {"unused", "pending"}
             \/ /\ row[n].status \in {"unused", "pending"}
                /\ row'[n].retry = row[n].retry
             \/ row'[n].retry < MaxRetries
      PROVE  WaitingBelowLimit'
  BY <1>3 DEF WaitingBelowLimit
<1>4. ASSUME NEW n \in Notification, NEW due \in BOOLEAN, EnqueueNotification(n, due)
      PROVE  WaitingBelowLimit'
  <2>1. /\ \A m \in Notification \ {n} : row'[m] = row[m]
        /\ row'[n].retry = row[n].retry /\ row[n].status = "unused"
    BY <1>1, <1>4, Typed DEF EnqueueNotification, RowState
  <2>. QED
    BY <1>3, <1>4, <2>1 DEF EnqueueNotification
<1>5. ASSUME NEW n \in Notification, BackoffElapses(n) \/ LeaseExpires(n)
      PROVE  WaitingBelowLimit'
  <2>1. /\ \A m \in Notification \ {n} : row'[m] = row[m]
        /\ row'[n].retry = row[n].retry /\ row'[n].status = row[n].status /\ UNCHANGED desk
    BY <1>1, <1>5, Typed DEF BackoffElapses, LeaseExpires, RowState
  <2>. QED
    BY <1>3, <2>1
<1>6. ASSUME NEW n \in Notification, RetryNotification(n) PROVE WaitingBelowLimit'
  <2>1. /\ \A m \in Notification \ {n} : row'[m] = row[m]
        /\ row'[n].retry = 0 /\ UNCHANGED desk
    BY <1>1, <1>6, Typed DEF RetryNotification, MakePending, RowState
  <2>. QED
    BY <1>3, <2>1, Bounds
<1>7. ASSUME NEW n \in Notification, DeleteNotification(n) PROVE WaitingBelowLimit'
  <2>1. /\ \A m \in Notification \ {n} : row'[m] = row[m]
        /\ row'[n].status = "deleted" /\ UNCHANGED desk
    BY <1>1, <1>7, Typed DEF DeleteNotification, Delete, RowState
  <2>. QED
    BY <1>3, <2>1
<1>8. ASSUME NEW n \in Notification PROVE ~ReadRetryCount(n) /\ ~RetryKeepingCount
  BY DEF ReadRetryCount, RetryKeepingCount, WaitingBelowLimit
<1>9. ASSUME NEW w \in Worker, HandleDeliveryFailure(w) PROVE WaitingBelowLimit'
  <2> DEFINE n == worker[w].now
             count == worker[w].seen[n] + 1
  <2>1. n \in Notification
    BY <1>9, Typed DEF HandleDeliveryFailure, Leases, WorkInOrder, WorkerState
  <2>2. /\ \A m \in Notification \ {n} : row'[m] = row[m]
        /\ row'[n].status = IF LimitReached(count) THEN "failed" ELSE "pending"
        /\ row'[n].retry = count
    <3>1. row[n] \in RowState
      BY <2>1, Typed
    <3>. QED
      BY <1>9, <2>1, <3>1, Typed DEF HandleDeliveryFailure, RowState
  <2>3. count \in Nat
    <3>1. worker[w].seen \in [Notification -> 0 .. MaxRetries]
      BY Typed DEF WorkerState
    <3>2. worker[w].seen[n] \in 0 .. MaxRetries
      BY <2>1, <3>1
    <3>. QED
      BY <3>2, Bounds
  <2>4. LimitReached(count) \/ count < MaxRetries
    BY <2>3, Bounds DEF LimitReached
  <2>5. row'[n].status \notin {"unused", "pending"} \/ row'[n].retry < MaxRetries
    BY <2>2, <2>4
  <2>6. UNCHANGED desk
    BY <1>9 DEF HandleDeliveryFailure
  <2> HIDE DEF count
  <2>. QED
    BY <1>3, <2>1, <2>2, <2>5, <2>6
<1>10. ASSUME NEW w \in Worker, RecordDelivered(w) PROVE WaitingBelowLimit'
  <2>1. worker[w].now \in Notification
    BY <1>10, Typed DEF RecordDelivered, Leases, WorkInOrder, WorkerState
  <2>2. /\ \A m \in Notification \ {worker[w].now} : row'[m] = row[m]
        /\ row'[worker[w].now].status = "delivered" /\ UNCHANGED desk
    <3>1. row[worker[w].now] \in RowState
      BY <2>1, Typed
    <3>. QED
      BY <1>10, <2>1, <3>1, Typed DEF RecordDelivered, RowState
  <2>. QED
    BY <1>3, <2>1, <2>2
<1>11. ASSUME UNCHANGED desk,
              \A n \in Notification :
                 /\ row'[n].retry = row[n].retry
                 /\ row'[n].status = row[n].status \/ row'[n].status = "processing"
       PROVE  WaitingBelowLimit'
  BY <1>11 DEF WaitingBelowLimit
<1>12. ASSUME NEW w \in Worker, NEW n \in Notification, Send(w, n) PROVE WaitingBelowLimit'
  <2>1. PICK answer : row' = IF answer.got
                             THEN [row EXCEPT ![n].received = IF @ < 2 THEN @ + 1 ELSE 2,
                                              ![n].suspect = @ \/ answer.outcome # "ok"]
                             ELSE row
    BY <1>12 DEF Send
  <2>2. \A m \in Notification : row'[m].retry = row[m].retry /\ row'[m].status = row[m].status
    BY <1>1, <2>1, Typed DEF RowState
  <2>. QED
    BY <1>11, <1>12, <2>2 DEF Send
<1>13. ASSUME NEW w \in Worker, ClaimPendingNotifications(w) \/ Crash(w)
       PROVE  WaitingBelowLimit'
  <2>1. \A n \in Notification :
          /\ row'[n].retry = row[n].retry
          /\ row'[n].status = row[n].status \/ row'[n].status = "processing"
    <3>1. CASE ClaimPendingNotifications(w)
      BY <1>1, <3>1 DEF ClaimPendingNotifications, RowState
    <3>2. CASE Crash(w)
      BY <1>1, <3>2 DEF Crash, RowState
    <3>. QED
      BY <1>13, <3>1, <3>2
  <2>2. UNCHANGED desk
    BY <1>13 DEF ClaimPendingNotifications, Crash
  <2>. QED
    BY <1>11, <2>1, <2>2
<1>14. ASSUME NEW w \in Worker, UpdateFails(w) PROVE WaitingBelowLimit'
  <2>1. worker[w].now \in Notification
    BY <1>14, Typed DEF UpdateFails, WorkerState
  <2>2. UNCHANGED desk /\ \A m \in Notification :
          row'[m].retry = row[m].retry /\ row'[m].status = row[m].status
    BY <1>1, <1>14, <2>1, Typed DEF UpdateFails, RowState
  <2>. QED
    BY <1>11, <2>2
<1>15. ASSUME NEW w \in Worker,
              LeaseLost(w) \/ RowGone(w) \/ Exit(w) \/ Start(w) \/ Stop(w)
       PROVE  WaitingBelowLimit'
  BY <1>11, <1>15 DEF LeaseLost, RowGone, Exit, Start, Stop
<1>. QED
  BY <1>2, <1>4, <1>5, <1>6, <1>7, <1>8, <1>9, <1>10, <1>12, <1>13, <1>14, <1>15
     DEF OutboxNext, WorkerStep, AdminStep, EnqueueAdminNotification, RetryKeepingCount,
         WaitingBelowLimit

\* No notification is stuck at the retry limit: where administrators do not keep
\* the count, what waits or is at work is below the limit, where a claim takes
\* it, and what failed is at the limit.
THEOREM PendingStaysBelowLimit ==
  ASSUME ~KeepCount
  PROVE  OutboxSpec => []PendingBelowLimit
<1>1. OutboxInit => WaitingBelowLimit
  BY Bounds DEF OutboxInit, WaitingBelowLimit
<1>2. Leases /\ WaitingBelowLimit /\ [OutboxNext]_outboxVars => WaitingBelowLimit'
  BY WaitingStep
<1>3. Leases /\ Receipts /\ WaitingBelowLimit => PendingBelowLimit
  BY DEF Leases, ClaimedBelowLimit, Receipts, FailedAtLimit, WaitingBelowLimit,
         PendingBelowLimit
<1>. QED
  BY <1>1, <1>2, <1>3, OutboxInvariant, PTL DEF OutboxSpec
=============================================================================
