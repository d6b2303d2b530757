----------------------------- MODULE MCProgress -----------------------------
(* What must eventually happen, for TLC: deliveries of notifications and      *)
(* retried signups.  They share no state.  A behaviour is one of one of them, *)
(* chosen at the start, with the fairness that the module of each states      *)
(* (FairOutboxSpec, RetriedSpec).                                             *)
EXTENDS NotificationOutbox, StudentAccounts, TLC

VARIABLE part

progressVars == <<part, outboxVars, vars>>

\* A step of one of the two.
OfOutbox(A) == part = "outbox" /\ A /\ UNCHANGED <<part, vars>>
OfSignups(A) == part = "signups" /\ A /\ UNCHANGED <<part, outboxVars>>

ProgressInit == part \in {"outbox", "signups"} /\ OutboxInit /\ AccountsInit

ProgressNext ==
  /\ UNCHANGED part
  /\ \/ part = "outbox" /\ OutboxNext /\ UNCHANGED vars
     \/ part = "signups" /\ Next /\ UNCHANGED outboxVars

ProgressSpec ==
  /\ ProgressInit /\ [][ProgressNext]_progressVars
  /\ \A w \in Worker : WF_progressVars(OfOutbox(WorkerStep(w)))
  /\ \A n \in Notification : /\ WF_progressVars(OfOutbox(BackoffElapses(n)))
                             /\ WF_progressVars(OfOutbox(LeaseExpires(n)))
  /\ \A h \in Handler : WF_progressVars(OfSignups(HandlerStep(h)))
  /\ \A h \in Client, n \in Nis, e \in Email : WF_progressVars(OfSignups(RegisterStudent(h, n, e)))
=============================================================================
