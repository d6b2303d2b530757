-------------------------- MODULE MessageDelivery --------------------------
(***************************************************************************)
(* What the outbox promises of each message, with no rows, leases, workers *)
(* or database: a message waits until its receipt is confirmed or it was   *)
(* missed as often as is tried, goes out once unless something excuses     *)
(* that it goes out again, and is then left alone.  Only administrators    *)
(* make it wait anew, or delete it.                                        *)
(***************************************************************************)
EXTENDS Naturals

CONSTANTS Message,
          Tries       \* how often a delivery may be missed

VARIABLES
  state,    \* of each message: "absent", "waiting", "delivered", "failed" or "deleted"
  missed,   \* how often its delivery was missed
  copies,   \* how often the receiver got it since it began to wait, or twice for more
  excused   \* the sender cannot know that the receiver got none

messages == <<state, missed, copies, excused>>

DeliveryInit ==
  /\ state = [m \in Message |-> "absent"]
  /\ missed = [m \in Message |-> 0]
  /\ copies = [m \in Message |-> 0]
  /\ excused = [m \in Message |-> FALSE]

Becomes(m, new) == state' = [state EXCEPT ![m] = new]

Accept(m) ==
  /\ state[m] = "absent"
  /\ Becomes(m, "waiting")
  /\ UNCHANGED <<missed, copies, excused>>

\* The message goes out, perhaps without an answer.  One that nobody waits for
\* any more goes out if it was on its way when it was deleted, and not if it was
\* confirmed or given up; a second copy needs an excuse.
Transmit(m, doubt) ==
  /\ state[m] # "absent"
  /\ excused[m] \/ (copies[m] = 0 /\ state[m] \in {"waiting", "deleted"})
  /\ copies' = [copies EXCEPT ![m] = IF @ < 2 THEN @ + 1 ELSE 2]
  /\ excused' = [excused EXCEPT ![m] = @ \/ doubt]
  /\ UNCHANGED <<state, missed>>

\* The sender loses track of a message: it died, could not write, or was too slow.
LoseTrack(m) ==
  /\ state[m] # "absent"
  /\ excused' = [excused EXCEPT ![m] = TRUE]
  /\ UNCHANGED <<state, missed, copies>>

Confirm(m) ==
  /\ state[m] = "waiting" /\ copies[m] > 0
  /\ Becomes(m, "delivered")
  /\ UNCHANGED <<missed, copies, excused>>

Miss(m) ==
  /\ state[m] = "waiting" /\ missed[m] < Tries
  /\ missed' = [missed EXCEPT ![m] = @ + 1]
  /\ Becomes(m, IF missed[m] + 1 = Tries THEN "failed" ELSE "waiting")
  /\ UNCHANGED <<copies, excused>>

Present(m) == state[m] \in {"waiting", "delivered", "failed"}

\* An administrator has the message wait anew, with a count of misses that it
\* once had, or none.  It may be on its way at that moment.
WaitAnew(m, count, doubt) ==
  /\ Present(m)
  /\ Becomes(m, "waiting")
  /\ missed' = [missed EXCEPT ![m] = count]
  /\ copies' = [copies EXCEPT ![m] = 0]
  /\ excused' = [excused EXCEPT ![m] = doubt]

Delete(m) ==
  /\ Present(m)
  /\ Becomes(m, "deleted")
  /\ UNCHANGED <<missed, copies, excused>>

DeliveryNext ==
  \E m \in Message :
    \/ Accept(m) \/ LoseTrack(m) \/ Confirm(m) \/ Miss(m) \/ Delete(m)
    \/ \E doubt \in BOOLEAN : Transmit(m, doubt)
    \/ \E count \in 0 .. Tries, doubt \in BOOLEAN : WaitAnew(m, count, doubt)

DeliverySpec == DeliveryInit /\ [][DeliveryNext]_messages
=============================================================================
