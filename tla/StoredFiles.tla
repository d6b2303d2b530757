----------------------------- MODULE StoredFiles -----------------------------
(***************************************************************************)
(* Uploaded files and the leave requests they are attached to: a row of    *)
(* files, an object in S3 under the path of the row, and upload URLs that  *)
(* the client may use, again too, until they expire.                       *)
(*                                                                         *)
(* The leave requests are one student's; the files attached to them are    *)
(* the student's or of whoever of the staff filed the request.  Every file *)
(* is a permit attachment (an avatar confirms and deletes alike), and a    *)
(* record and its object share a name: paths, drawn from the clock, are    *)
(* taken to differ.  A handler is a request that takes one step for each   *)
(* statement or S3 call it awaits, and may break off before any of them.   *)
(***************************************************************************)
EXTENDS NoValue

CONSTANTS File,    \* file records, and the object paths drawn for them
          Permit,  \* leave requests
          Client   \* requests under way at once

ASSUME FilesAssumption ==
  None \notin File \cup Permit \cup {"pending_upload", "available", "rejected", "deleted", "declared", "other"}

VARIABLES
  lifecycle, \* files.lifecycle, None before the record exists
  owner,     \* files.user_id: the student or one of the staff
  object,    \* the object at the path: as declared, not as declared, or none
  url,       \* files whose presigned upload URL has not expired
  permit,    \* leave_requests: attachment_url and approval_status
  request,   \* handlers under way
  excused    \* files that a known gap of the design has touched (history)

fileVars == <<lifecycle, owner, object, url, permit, request, excused>>

Lifecycle == {"pending_upload", "available", "rejected", "deleted"}

NoRequest == [op |-> "none", step |-> "none", file |-> None, permit |-> None]

Request ==
  {NoRequest}
  \cup [op : {"confirm"}, step : {"stat", "reject", "discard", "publish"}, file : File, permit : {None}]
  \cup [op : {"attach"}, step : {"stat", "reject", "discard", "publish", "insert"},
        file : File \cup {None}, permit : {None}]
  \cup [op : {"upload"}, step : {"record", "insert"}, file : File, permit : {None}]
  \cup [op : {"delete"}, step : {"remove", "mark"}, file : File, permit : {None}]
  \cup [op : {"withdraw"}, step : {"mark", "unlink", "drop"}, file : File \cup {None}, permit : Permit]

FilesTypeOK ==
  /\ lifecycle \in [File -> Lifecycle \cup {None}]
  /\ owner \in [File -> {"student", "staff", None}]
  /\ object \in [File -> {"declared", "other", None}]
  /\ url \subseteq {f \in File : lifecycle[f] # None}
  /\ permit \in [Permit -> [file : File \cup {None}, status : {"pending", "approved"}] \cup {None}]
  /\ request \in [Client -> Request]
  /\ excused \subseteq File
  /\ \A q \in Permit : permit[q] # None /\ permit[q].file # None => lifecycle[permit[q].file] # None

FilesInit ==
  /\ lifecycle = [f \in File |-> None] /\ owner = [f \in File |-> None]
  /\ object = [f \in File |-> None]
  /\ url = {}
  /\ permit = [q \in Permit |-> None]
  /\ request = [c \in Client |-> NoRequest]
  /\ excused = {}

-----------------------------------------------------------------------------
\* Requests.

At(c, step) == request[c].step = step

GoesTo(c, step) == request' = [request EXCEPT ![c].step = step]

Answers(c) == request' = [request EXCEPT ![c] = NoRequest]

Of(f) == {c \in Client : request[c].file = f /\ f # None}

\* One request is about to verify the file while another is about to remove it.
Verifying == {"stat", "reject", "discard", "publish"}

Removing == {"remove", "mark", "unlink"}

Meets(f, step) ==
  \E c \in Of(f) : \/ step \in Verifying /\ request[c].step \in Removing
                   \/ step \in Removing /\ request[c].step \in Verifying

\* A request on a file starts; a gap is the meeting of a verification and a
\* removal, or what the request itself leaves open.
Starts(c, op, step, f, q, gap) ==
  /\ request' = [request EXCEPT ![c] = [op |-> op, step |-> step, file |-> f, permit |-> q]]
  /\ excused' = IF gap \/ Meets(f, step) THEN excused \cup {f} ELSE excused

SetLifecycle(f, state) == lifecycle' = [lifecycle EXCEPT ![f] = state]

Waiting(c) == request[c] = NoRequest

-----------------------------------------------------------------------------
\* Uploads.

\* createUploadIntent: a record, and a URL the client may PUT to.
CreateUploadIntent(f) ==
  /\ lifecycle[f] = None /\ object[f] = None /\ Of(f) = {}
  /\ SetLifecycle(f, "pending_upload") /\ url' = url \cup {f}
  /\ \E user \in {"student", "staff"} : owner' = [owner EXCEPT ![f] = user]
  /\ UNCHANGED <<object, permit, request, excused>>

\* The client stores something, perhaps not what it declared.  That is a gap
\* once the record is no longer pending or a handler has looked at the object.
ClientPut(f) ==
  /\ f \in url
  /\ \E content \in {"declared", "other"} : object' = [object EXCEPT ![f] = content]
  /\ excused' = IF lifecycle[f] = "pending_upload" /\ Of(f) = {} THEN excused ELSE excused \cup {f}
  /\ UNCHANGED <<lifecycle, owner, url, permit, request>>

UrlExpires(f) ==
  /\ f \in url
  /\ url' = url \ {f}
  /\ UNCHANGED <<lifecycle, owner, object, permit, request, excused>>

-----------------------------------------------------------------------------
\* Confirming an upload.

\* confirmFileUpload goes on only with a pending record.
ConfirmFileUpload(c) ==
  /\ Waiting(c)
  /\ \E f \in File : /\ lifecycle[f] = "pending_upload"
                     /\ Starts(c, "confirm", "stat", f, None, FALSE)
  /\ UNCHANGED <<lifecycle, owner, object, url, permit>>

\* What a HEAD of the object leads to: createPermit takes a missing object for
\* an upload still to come, a confirmation answers that it has not completed.
Verdict(c) ==
  CASE object[request[c].file] = "other" -> "reject"
    [] object[request[c].file] = "declared" -> "publish"
    [] OTHER -> IF request[c].op = "attach" THEN "publish" ELSE "none"

\* Variant: the size is not compared.
StatObject_Exists(c) ==
  /\ At(c, "stat")
  /\ IF object[request[c].file] # None THEN GoesTo(c, "publish") ELSE Answers(c)
  /\ UNCHANGED <<lifecycle, owner, object, url, permit, excused>>

StatObject(c) ==
  /\ At(c, "stat")
  /\ IF Verdict(c) = "none" THEN Answers(c) ELSE GoesTo(c, Verdict(c))
  /\ excused' = IF request[c].op = "attach" /\ object[request[c].file] = None
                THEN excused \cup {request[c].file} ELSE excused
  /\ UNCHANGED <<lifecycle, owner, object, url, permit>>

\* updateFileLifecycle, by id: whatever the row has become.
Reject(c) ==
  /\ At(c, "reject")
  /\ SetLifecycle(request[c].file, "rejected") /\ GoesTo(c, "discard")
  /\ UNCHANGED <<owner, object, url, permit, excused>>

Publish(c) ==
  /\ At(c, "publish")
  /\ SetLifecycle(request[c].file, "available")
  /\ IF request[c].op = "attach" THEN GoesTo(c, "insert") ELSE Answers(c)
  /\ UNCHANGED <<owner, object, url, permit, excused>>

\* The object of a rejected file is deleted; a failure to is passed over.
Discard(c) ==
  /\ At(c, "discard")
  /\ LET f == request[c].file IN
       \/ object' = [object EXCEPT ![f] = None] /\ UNCHANGED excused
       \/ excused' = excused \cup {f} /\ UNCHANGED object
  /\ Answers(c)
  /\ UNCHANGED <<lifecycle, owner, url, permit>>

-----------------------------------------------------------------------------
\* Leave requests and their attachments.

\* Variant: only a deleted file is refused.
CreatePermit_NotDeleted(c) ==
  /\ Waiting(c)
  /\ \E f \in File : /\ lifecycle[f] \notin {None, "deleted"} /\ owner[f] = "student"
                     /\ Starts(c, "attach", "publish", f, None, FALSE)
  /\ UNCHANGED <<lifecycle, owner, object, url, permit>>

\* createPermit: without an attachment, with a confirmed or a pending file of
\* the student's, or with an attachment in the request, which is uploaded first.
CreatePermit(c) ==
  /\ Waiting(c)
  /\ \/ Starts(c, "attach", "insert", None, None, FALSE)
     \/ \E f \in File :
          /\ owner[f] = "student"
          /\ \/ lifecycle[f] = "pending_upload" /\ Starts(c, "attach", "stat", f, None, FALSE)
             \/ lifecycle[f] = "available" /\ Starts(c, "attach", "insert", f, None, FALSE)
  /\ UNCHANGED <<lifecycle, owner, object, url, permit>>

\* createAdminLeaveRequest, by one of the staff or by the student: a pending
\* file of the actor's is published without a look at its object.
CreateAdminLeaveRequest(c) ==
  /\ Waiting(c)
  /\ \/ Starts(c, "attach", "insert", None, None, FALSE)
     \/ \E f \in File :
          \/ /\ lifecycle[f] = "pending_upload"
             /\ Starts(c, "attach", "publish", f, None, object[f] # "declared")
          \/ lifecycle[f] = "available" /\ Starts(c, "attach", "insert", f, None, FALSE)
  /\ UNCHANGED <<lifecycle, owner, object, url, permit>>

UploadPermitAttachment(c) ==
  /\ Waiting(c)
  /\ \E f \in File : /\ lifecycle[f] = None /\ object[f] = None /\ Of(f) = {}
                     /\ object' = [object EXCEPT ![f] = "declared"]
                     /\ Starts(c, "upload", "record", f, None, FALSE)
  /\ UNCHANGED <<lifecycle, owner, url, permit>>

CreateFileRecord(c) ==
  /\ At(c, "record")
  /\ SetLifecycle(request[c].file, "available") /\ GoesTo(c, "insert")
  /\ owner' = [owner EXCEPT ![request[c].file] = "student"]
  /\ UNCHANGED <<object, url, permit, excused>>

InsertPermit(c) ==
  /\ At(c, "insert")
  /\ \E q \in Permit :
       /\ permit[q] = None
       /\ permit' = [permit EXCEPT ![q] = [file |-> request[c].file, status |-> "pending"]]
  /\ Answers(c)
  /\ UNCHANGED <<lifecycle, owner, object, url, excused>>

\* An administrator decides.
Approve(q) ==
  /\ permit[q] # None /\ permit[q].status = "pending"
  /\ permit' = [permit EXCEPT ![q].status = "approved"]
  /\ UNCHANGED <<lifecycle, owner, object, url, request, excused>>

\* A leave request is removed: the attachment's record, which is looked for
\* among the student's files, then its object, then the request.  The record of
\* a file of the staff is not found and stays as it is.
Withdraws(c, q) ==
  LET f == permit[q].file IN
    \/ f = None /\ Starts(c, "withdraw", "drop", None, q, FALSE)
    \/ f # None /\ owner[f] = "student" /\ Starts(c, "withdraw", "mark", f, q, FALSE)
    \/ f # None /\ owner[f] # "student" /\ Starts(c, "withdraw", "unlink", f, q, TRUE)

\* deletePermit, by the student, of a pending request.
DeletePermit(c) ==
  /\ Waiting(c)
  /\ \E q \in Permit : permit[q] # None /\ permit[q].status = "pending" /\ Withdraws(c, q)
  /\ UNCHANGED <<lifecycle, owner, object, url, permit>>

\* deleteAdminLeaveRequest, of any request.
DeleteAdminLeaveRequest(c) ==
  /\ Waiting(c)
  /\ \E q \in Permit : permit[q] # None /\ Withdraws(c, q)
  /\ UNCHANGED <<lifecycle, owner, object, url, permit>>

\* deletePermitAttachment passes over a failure; the request is deleted by id.
Unlink(c) ==
  /\ At(c, "unlink")
  /\ LET f == request[c].file IN
       \/ object' = [object EXCEPT ![f] = None] /\ UNCHANGED excused
       \/ excused' = excused \cup {f} /\ UNCHANGED object
  /\ GoesTo(c, "drop")
  /\ UNCHANGED <<lifecycle, owner, url, permit>>

DropPermit(c) ==
  /\ At(c, "drop")
  /\ permit' = [permit EXCEPT ![request[c].permit] = None]
  /\ Answers(c)
  /\ UNCHANGED <<lifecycle, owner, object, url, excused>>

-----------------------------------------------------------------------------
\* Deleting a file.

\* deleteFile, whatever the record's state: the object, then the row.
DeleteFile(c) ==
  /\ Waiting(c)
  /\ \E f \in File : lifecycle[f] # None /\ Starts(c, "delete", "remove", f, None, FALSE)
  /\ UNCHANGED <<lifecycle, owner, object, url, permit>>

\* A failure of the storage ends the request (BreaksOff).
DeleteFileObject(c) ==
  /\ At(c, "remove")
  /\ object' = [object EXCEPT ![request[c].file] = None]
  /\ GoesTo(c, "mark")
  /\ UNCHANGED <<lifecycle, owner, url, permit, excused>>

\* deleteFileRecord, and the same update when a leave request is removed.
MarkFileDeleted(c) ==
  /\ At(c, "mark")
  /\ SetLifecycle(request[c].file, "deleted")
  /\ IF request[c].op = "withdraw" THEN GoesTo(c, "unlink") ELSE Answers(c)
  /\ UNCHANGED <<owner, object, url, permit, excused>>

-----------------------------------------------------------------------------
\* A statement or a call fails, or the process goes: the request takes no
\* further step.  Between its two stores that is a gap.
BreaksOff(c) ==
  /\ ~Waiting(c)
  /\ excused' = IF \/ request[c].step \in {"discard", "unlink"}
                   \/ request[c].op = "delete" /\ request[c].step = "mark"
                THEN excused \cup {request[c].file} ELSE excused
  /\ Answers(c)
  /\ UNCHANGED <<lifecycle, owner, object, url, permit>>

FilesNext ==
  \/ \E f \in File : CreateUploadIntent(f) \/ ClientPut(f) \/ UrlExpires(f)
  \/ \E q \in Permit : Approve(q)
  \/ \E c \in Client :
       \/ ConfirmFileUpload(c) \/ StatObject(c) \/ Reject(c) \/ Publish(c) \/ Discard(c)
       \/ CreatePermit(c) \/ CreateAdminLeaveRequest(c)
       \/ UploadPermitAttachment(c) \/ CreateFileRecord(c) \/ InsertPermit(c)
       \/ DeletePermit(c) \/ DeleteAdminLeaveRequest(c) \/ Unlink(c) \/ DropPermit(c)
       \/ DeleteFile(c) \/ DeleteFileObject(c) \/ MarkFileDeleted(c) \/ BreaksOff(c)

FilesSpec == FilesInit /\ [][FilesNext]_fileVars

-----------------------------------------------------------------------------
\* Properties.

\* Between requests, a file that no known gap has touched tells the truth
\* about its object: an available one is there and as declared, one that was
\* rejected or deleted has left nothing (confirmFileUpload, createPermit,
\* createAdminLeaveRequest, deleteFile, deletePermit, deleteAdminLeaveRequest).
\* The gaps are those the code leaves open: the upload URL is used once the
\* file was looked at or is no longer pending; createPermit attaches a file
\* whose object is not there; createAdminLeaveRequest attaches a pending one
\* whose object is not as declared; the removal of a leave request does not
\* find the record of a file of the staff; a verification and a removal meet;
\* a deletion fails unnoticed, or breaks off.
FilesMatchObjects ==
  \A f \in File \ excused : Of(f) = {} =>
    /\ lifecycle[f] = "available" => object[f] = "declared"
    /\ lifecycle[f] \in {"rejected", "deleted"} => object[f] = None

\* What the documents say without those exceptions.  A rejected file is never
\* made available again (invariants.md, INV-ASTRA-017) ...
RejectedIsNotRevived ==
  [][\A f \in File : lifecycle[f] = "rejected" => lifecycle'[f] # "available"]_fileVars

\* ... and a file becomes available once its object was verified (rule A06 of
\* confirmFileUpload).
PublishedIsVerified ==
  [][\A f \in File : lifecycle[f] # "available" /\ lifecycle'[f] = "available"
                       => object[f] = "declared"]_fileVars

\* A rejected file that no known gap has touched is never made available again,
\* however confirmations and leave requests meet on it: all publish by id, but
\* none what another one found not to be as declared (confirmFileUpload,
\* createPermit, createAdminLeaveRequest).
RejectedIsFinal ==
  [][\A f \in File \ excused : lifecycle[f] = "rejected" => lifecycle'[f] # "available"]_fileVars
=============================================================================
