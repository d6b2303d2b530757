--------------------------- MODULE LeaveService ---------------------------
(***************************************************************************)
(* The leave-request handlers over the tables of StudentRecords: the       *)
(* permits service of the student and the leave operations of the admin    *)
(* service.  A handler first reads the request and refuses by what it      *)
(* read, then awaits other reads (the actor's profile, the attachment's    *)
(* file), and only then calls the store.  Other handlers run in between,   *)
(* so what it read may be stale by then.                                   *)
(***************************************************************************)
EXTENDS StudentRecords

CONSTANT Handler   \* concurrent invocations of the leave handlers

VARIABLE call      \* what each invocation is about to do, and to which request

NoCall == [op |-> "idle"]

Op == {"approve", "reject", "reopen", "finish",  \* decisions of the school
       "withdraw",                               \* deletePermit
       "remove",                                 \* deleteAdminLeaveRequest
       "removed", "created"}                     \* only the audit row is left

CallState == {NoCall} \cup [op : Op, req : Request]

CallTypeOK == call \in [Handler -> CallState]

LeaveInit == call = [h \in Handler |-> NoCall]

Ends(h) == call' = [call EXCEPT ![h] = NoCall]

-----------------------------------------------------------------------------
\* createPermit: the insert is its last step.
CreatePermit(r, d) ==
  /\ CreateLeaveRequest(r, d)
  /\ UNCHANGED call

\* createAdminLeaveRequest: the same insert, always pending, then an audit row.
CreateAdminLeaveRequest(h, r, d) ==
  /\ call[h] = NoCall
  /\ CreateLeaveRequest(r, d)
  /\ call' = [call EXCEPT ![h] = [op |-> "created", req |-> r]]

\* getLeaveRequestById and the refusals that rest on it: a decision is refused
\* for an approved request, a withdrawal for one that is no longer pending.
\* Force-finish and removal only need the row to exist.
ReadRequest(h, op, r) ==
  /\ call[h] = NoCall
  /\ LiveRequest(r)
  /\ op \in {"approve", "reject", "reopen"} => ~Approved(r)
  /\ op = "withdraw" => leave[r].status = "pending"
  /\ call' = [call EXCEPT ![h] = [op |-> op, req |-> r]]
  /\ UNCHANGED tables

\* approveLeaveRequest, with the duration it was given.
Approve(h, n) ==
  /\ call[h].op = "approve"
  /\ ApproveLeaveRequest(call[h].req, n)
  /\ Ends(h)

\* rejectLeaveRequest
Reject(h) ==
  /\ call[h].op = "reject"
  /\ RejectLeaveRequest(call[h].req)
  /\ Ends(h)

\* reopenLeaveRequest
Reopen(h) ==
  /\ call[h].op = "reopen"
  /\ ReopenLeaveRequest(call[h].req)
  /\ Ends(h)

\* forceFinishLeaveRequest
Finish(h, target) ==
  /\ call[h].op = "finish"
  /\ ForceFinishLeaveRequest(call[h].req, target)
  /\ Ends(h)

\* deletePermit, its last step.  A row that is already gone deletes nothing.
Withdraw(h) ==
  /\ call[h].op = "withdraw"
  /\ \/ DeleteLeaveRequest(call[h].req)
     \/ ~LiveRequest(call[h].req) /\ UNCHANGED tables
  /\ Ends(h)

\* Variant: the audit comes first.
Remove_AuditFirst(h) ==
  /\ call[h].op = "remove"
  /\ UNCHANGED tables
  /\ call' = [call EXCEPT ![h].op = "removed"]

\* deleteAdminLeaveRequest: the row, then its audit row.
Remove(h) ==
  /\ call[h].op = "remove"
  /\ \/ DeleteLeaveRequest(call[h].req)
     \/ ~LiveRequest(call[h].req) /\ UNCHANGED tables
  /\ call' = [call EXCEPT ![h].op = "removed"]

AuditCall(h) ==
  /\ \/ /\ call[h].op = "removed"
        /\ InsertAuditLog(<<"delete_leave_request", call[h].req>>)
     \/ /\ call[h].op = "created"
        /\ InsertAuditLog(<<"create_admin_leave_request", call[h].req>>)
  /\ Ends(h)

\* A transaction that throws, a database error, or the death of the process.
EndCall(h) ==
  /\ call[h] # NoCall
  /\ Ends(h)
  /\ UNCHANGED tables

LeaveNext ==
  \/ \E r \in Request, d \in Day :
       \/ CreatePermit(r, d)
       \/ \E h \in Handler : CreateAdminLeaveRequest(h, r, d)
  \/ \E h \in Handler :
       \/ \E r \in Request, op \in Op \ {"removed", "created"} : ReadRequest(h, op, r)
       \/ \E n \in 1 .. MaxDuration : Approve(h, n)
       \/ Reject(h)
       \/ Reopen(h)
       \/ \E target \in 1 .. LastOf(LastDay, MaxDuration) : Finish(h, target)
       \/ Withdraw(h)
       \/ Remove(h)
       \/ AuditCall(h)
       \/ EndCall(h)

-----------------------------------------------------------------------------
(***************************************************************************)
(* What the documents say of these handlers and the code does not keep.    *)
(***************************************************************************)

\* "An approved Leave Period is immutable and cannot be reopened or extended"
\* (INV-ASTRA-005): while its row exists, an approved request stays approved
\* and its end only moves earlier.
ApprovedIsImmutable ==
  [][\A r \in Request :
       Approved(r) /\ leave'[r].status # "deleted"
         => /\ leave'[r].status = "approved"
            /\ leave'[r].effectiveEnd <= leave[r].effectiveEnd]_leave

\* The reopening of a request "enqueues a push notification for the affected
\* student" (leave-reopen flow): every reopening adds an outbox row.
ReopeningNotifies ==
  [][\A r \in Request :
       leave[r].status = "rejected" /\ leave'[r].status = "pending"
         => outbox' # outbox]_<<leave, outbox>>
=============================================================================
