----------------------------- MODULE Storage_proofs -----------------------------
(***************************************************************************)
(* Theorems about what is kept outside the database: files and their       *)
(* objects, face enrollments, and the counters of the rate limiter; and    *)
(* all of them, with the reports, beside each other.                       *)
(***************************************************************************)
EXTENDS MCStorage, AdiwiyataReports_proofs, FiniteSetTheorems, TLAPS

-----------------------------------------------------------------------------
(* Files and their objects.                                                 *)

\* What a record says of its object, or a request is about to make true.
RecordTrue(f) ==
  /\ lifecycle[f] = "available" =>
       object[f] = "declared" \/ \E c \in Of(f) : request[c].step = "mark" /\ request[c].op = "delete"
  /\ lifecycle[f] = "rejected" =>
       object[f] = None \/ (object[f] # "declared" /\ \E c \in Of(f) : request[c].step = "discard")
  /\ lifecycle[f] = "deleted" =>
       object[f] = None \/ \E c \in Of(f) : request[c].step = "unlink"

\* What a request has established of its file by the step it takes next.
KnowsFile(c, f) ==
  LET step == request[c].step IN
    /\ step = "stat" => lifecycle[f] \in {"pending_upload", "available", "rejected"}
    /\ step = "publish" => lifecycle[f] \in {"pending_upload", "available"} /\ object[f] = "declared"
    /\ step = "reject" => lifecycle[f] \in {"pending_upload", "rejected"} /\ object[f] # "declared"
    /\ step = "discard" => lifecycle[f] = "rejected"
    /\ step = "record" => lifecycle[f] = None /\ object[f] = "declared"
    /\ step = "mark" /\ request[c].op = "delete" => object[f] = None
    /\ step = "unlink" => lifecycle[f] = "deleted"

\* No request verifies what another removes, and none works on a file whose
\* record is yet to be created.
KeptApart(f) ==
  \A c, d \in Of(f) :
    /\ ~(request[c].step \in Verifying /\ request[d].step \in Removing)
    /\ request[c].step = "record" => c = d

FileSound(f) ==
  /\ RecordTrue(f) /\ KeptApart(f)
  /\ \A c \in Of(f) : KnowsFile(c, f)

\* A request that works on a file has one, and its record exists.
RequestsKnow ==
  \A c \in Client :
    /\ request[c].step \notin {"none", "insert", "drop"} => request[c].file \in File
    /\ request[c].file # None /\ request[c].step # "record" => lifecycle[request[c].file] # None

FilesInv == FilesTypeOK /\ RequestsKnow /\ \A f \in File \ excused : FileSound(f)

\* The fields of a request, by its step.
LEMMA RequestFields ==
  ASSUME FilesTypeOK, NEW c \in Client
  PROVE  /\ request[c].file \in File \cup {None}
         /\ request[c].op \in {"none", "confirm", "attach", "upload", "delete", "withdraw"}
         /\ request[c].step \in {"none", "stat", "reject", "discard", "publish", "insert", "record",
                                 "remove", "mark", "unlink", "drop"}
         /\ request[c].step = "none" <=> request[c] = NoRequest
         /\ request[c].step \in {"stat", "reject", "discard", "publish"} => request[c].op \in {"confirm", "attach"}
         /\ request[c].step = "insert" => request[c].op \in {"attach", "upload"}
         /\ request[c].step = "record" => request[c].op = "upload"
         /\ request[c].step = "remove" => request[c].op = "delete"
         /\ request[c].step = "mark" => request[c].op \in {"delete", "withdraw"}
         /\ request[c].step \in {"unlink", "drop"} => request[c].op = "withdraw"
         /\ request[c].op = "withdraw" => request[c].permit \in Permit
<1>1. request[c] \in Request
  BY DEF FilesTypeOK
<1>. QED
  BY <1>1 DEF Request, NoRequest

\* A request that takes its next step is still of its kind.
LEMMA RequestGoes ==
  ASSUME FilesTypeOK, NEW c \in Client, NEW step, GoesTo(c, step),
         \/ request[c].op \in {"confirm", "attach"} /\ step \in {"reject", "discard", "publish"}
         \/ request[c].op \in {"attach", "upload"} /\ step = "insert"
         \/ request[c].op = "delete" /\ step = "mark"
         \/ request[c].op = "withdraw" /\ step \in {"unlink", "drop"}
  PROVE  /\ request' \in [Client -> Request]
         /\ request'[c].step = step /\ request'[c].file = request[c].file
         /\ request'[c].op = request[c].op
         /\ \A d \in Client \ {c} : request'[d] = request[d]
<1>1. request[c] \in Request /\ request \in [Client -> Request]
  BY DEF FilesTypeOK
<1>2. PICK next : next = [request[c] EXCEPT !.step = step]
  OBVIOUS
<1>3. next \in Request /\ next.step = step /\ next.file = request[c].file /\ next.op = request[c].op
  BY <1>1, <1>2 DEF Request, NoRequest
<1>4. request' = [request EXCEPT ![c] = next]
  BY <1>2 DEF GoesTo
<1>. QED
  BY <1>1, <1>3, <1>4

\* A request that is answered is none.
LEMMA RequestEnds ==
  ASSUME FilesTypeOK, NEW c \in Client, Answers(c)
  PROVE  /\ request' \in [Client -> Request]
         /\ request'[c].step = "none" /\ request'[c].file = None
         /\ \A d \in Client \ {c} : request'[d] = request[d]
BY DEF FilesTypeOK, Answers, Request, NoRequest

\* A request that starts; a file that stays without a gap is verified and
\* removed by none but it, or not by it.
LEMMA RequestStarts ==
  ASSUME FilesTypeOK, NEW c \in Client, NEW op, NEW step, NEW f, NEW q, NEW gap,
         Starts(c, op, step, f, q, gap),
         \/ op = "confirm" /\ step = "stat" /\ f \in File /\ q = None
         \/ op = "attach" /\ step \in {"stat", "publish"} /\ f \in File /\ q = None
         \/ op = "attach" /\ step = "insert" /\ f \in File \cup {None} /\ q = None
         \/ op = "upload" /\ step = "record" /\ f \in File /\ q = None
         \/ op = "delete" /\ step = "remove" /\ f \in File /\ q = None
         \/ op = "withdraw" /\ step \in {"mark", "unlink"} /\ f \in File /\ q \in Permit
         \/ op = "withdraw" /\ step = "drop" /\ f = None /\ q \in Permit,
         f = None => ~gap
  PROVE  /\ request' \in [Client -> Request]
         /\ request'[c].step = step /\ request'[c].file = f /\ request'[c].op = op
         /\ \A d \in Client \ {c} : request'[d] = request[d]
         /\ excused \subseteq excused' /\ excused' \subseteq File
         /\ f \in File \ excused' => ~gap /\ ~Meets(f, step)
<1>1. request \in [Client -> Request] /\ excused \subseteq File
  BY DEF FilesTypeOK
<1>2. PICK next : next = [op |-> op, step |-> step, file |-> f, permit |-> q]
  OBVIOUS
<1>3. next \in Request /\ next.step = step /\ next.file = f /\ next.op = op
  BY <1>2 DEF Request
<1>4. request' = [request EXCEPT ![c] = next]
  BY <1>2 DEF Starts
<1>5. f = None => ~Meets(f, step)
  BY DEF Meets, Of
<1>6. excused \subseteq excused' /\ (f \in File \ excused' => ~gap /\ ~Meets(f, step))
  BY DEF Starts
<1>7. excused' \subseteq File
  <2>1. CASE f = None
    BY <1>1, <1>5, <2>1 DEF Starts
  <2>2. CASE f # None
    BY <1>1, <2>2 DEF Starts
  <2>. QED
    BY <2>1, <2>2
<1>. QED
  BY <1>1, <1>3, <1>4, <1>6, <1>7

\* A file whose record, object and requests a step leaves alone stays sound.
LEMMA OtherFileSound ==
  ASSUME FilesInv, NEW f \in File \ excused', excused \subseteq excused',
         lifecycle'[f] = lifecycle[f], object'[f] = object[f],
         \A c \in Client : request[c].file = f \/ request'[c].file = f => request'[c] = request[c]
  PROVE  FileSound(f)'
<1>1. FileSound(f)
  BY DEF FilesInv
<1>2. \A c \in Client : c \in Of(f)' <=> c \in Of(f)
  BY DEF Of
<1>3. Of(f)' = Of(f)
  BY <1>2 DEF Of
<1>4. \A c \in Of(f) : request'[c] = request[c]
  BY DEF Of
<1>5. RecordTrue(f)'
  BY <1>1, <1>3, <1>4 DEF FileSound, RecordTrue
<1>6. KeptApart(f)'
  BY <1>1, <1>3, <1>4 DEF FileSound, KeptApart
<1>7. \A c \in Of(f) : KnowsFile(c, f)'
  BY <1>1, <1>4 DEF FileSound, KnowsFile
<1>. QED
  BY <1>3, <1>5, <1>6, <1>7 DEF FileSound

\* The file that the step of a request touches: the request was verifying or
\* removing it before, or does not meet what the others do.
LEMMA OwnFileSound ==
  ASSUME FilesInv, NEW f \in File \ excused', excused \subseteq excused', NEW c \in Client,
         \A d \in Client \ {c} : request'[d] = request[d],
         RecordTrue(f)',
         \A d \in Of(f) \ {c} : KnowsFile(d, f)',
         request'[c].file = f => KnowsFile(c, f)',
         lifecycle[f] # None \/ Of(f) \subseteq {c},
         request'[c].file = f /\ request'[c].step = "record" => Of(f) \subseteq {c},
         request'[c].file = f /\ request'[c].step \in Verifying =>
           ~Meets(f, request'[c].step) \/ (request[c].file = f /\ request[c].step \in Verifying),
         request'[c].file = f /\ request'[c].step \in Removing =>
           ~Meets(f, request'[c].step) \/ (request[c].file = f /\ request[c].step \in Removing)
  PROVE  FileSound(f)'
<1>1. FileSound(f) /\ f # None
  BY FilesAssumption DEF FilesInv
<1>2. \A d \in Client \ {c} : d \in Of(f)' <=> d \in Of(f)
  BY DEF Of
<1>3. c \in Of(f)' <=> request'[c].file = f
  BY <1>1 DEF Of
<1>4. \A d \in Of(f)' : KnowsFile(d, f)'
  BY <1>2, <1>3 DEF Of
<1>5. \A d \in Of(f) \ {c} : request[d].step # "record"
  BY <1>1 DEF FileSound, KnowsFile, Of
<1>6. \A d, e \in Of(f) \ {c} : ~(request[d].step \in Verifying /\ request[e].step \in Removing)
  BY <1>1 DEF FileSound, KeptApart
<1>7. ASSUME NEW d \in Of(f) \ {c}, request'[c].file = f
      PROVE  /\ ~(request'[c].step \in Verifying /\ request[d].step \in Removing)
             /\ ~(request'[c].step \in Removing /\ request[d].step \in Verifying)
  <2>1. CASE request[c].file = f
    <3>1. c \in Of(f)
      BY <1>1, <2>1 DEF Of
    <3>. QED
      BY <1>1, <1>7, <3>1 DEF FileSound, KeptApart, Meets
  <2>2. CASE request[c].file # f
    BY <1>7, <2>2 DEF Meets
  <2>. QED
    BY <2>1, <2>2
<1>8. ~(request'[c].step \in Verifying /\ request'[c].step \in Removing)
  BY DEF Verifying, Removing
<1>9. KeptApart(f)'
  <2>. SUFFICES ASSUME NEW d \in Of(f)', NEW e \in Of(f)'
                PROVE  /\ ~(request'[d].step \in Verifying /\ request'[e].step \in Removing)
                       /\ request'[d].step = "record" => d = e
    BY DEF KeptApart, Verifying, Removing
  <2>1. d \in Client /\ e \in Client
    BY DEF Of
  <2>2. CASE d = c /\ e = c
    BY <1>8, <2>2
  <2>3. CASE d = c /\ e # c
    BY <1>2, <1>3, <1>7, <2>1, <2>3
  <2>4. CASE d # c /\ e = c
    BY <1>2, <1>3, <1>5, <1>7, <2>1, <2>4
  <2>5. CASE d # c /\ e # c
    BY <1>2, <1>5, <1>6, <2>1, <2>5
  <2>. QED
    BY <2>2, <2>3, <2>4, <2>5
<1>. QED
  BY <1>4, <1>9 DEF FileSound

\* A step of one request on one file keeps what is known of all.
LEMMA RequestStepKeeps ==
  ASSUME FilesInv, FilesTypeOK', NEW c \in Client, NEW f \in File \cup {None},
         request[c].file \in {f, None}, request'[c].file \in {f, None},
         \A d \in Client \ {c} : request'[d] = request[d],
         excused \subseteq excused',
         \A g \in File \ {f} : lifecycle'[g] = lifecycle[g] /\ object'[g] = object[g],
         f # None /\ lifecycle[f] # None => lifecycle'[f] # None,
         f \in File \ excused' => FileSound(f)',
         request'[c].step \notin {"none", "insert", "drop"} => request'[c].file = f /\ f \in File,
         request'[c].file = f /\ f # None /\ request'[c].step # "record" => lifecycle'[f] # None
  PROVE  FilesInv'
<1>1. None \notin File
  BY FilesAssumption
<1>2. RequestsKnow'
  <2>1. \A d \in Client \ {c} : request[d].file \in File \cup {None}
    BY RequestFields DEF FilesInv
  <2>2. \A g \in File : lifecycle[g] # None => lifecycle'[g] # None
    BY <1>1
  <2>. QED
    BY <2>1, <2>2 DEF FilesInv, RequestsKnow
<1>3. ASSUME NEW g \in File \ excused'
      PROVE  FileSound(g)'
  <2>1. CASE g = f
    BY <2>1, <1>3
  <2>2. CASE g # f
    <3>1. request[c].file # g /\ request'[c].file # g
      BY <1>1, <2>2
    <3>2. \A d \in Client : request[d].file = g \/ request'[d].file = g => request'[d] = request[d]
      BY <3>1
    <3>. QED
      BY <2>2, <3>2, OtherFileSound
  <2>. QED
    BY <2>1, <2>2
<1>. QED
  BY <1>2, <1>3 DEF FilesInv

\* What a request under way may rely on.
LEMMA RequestKnows ==
  ASSUME FilesInv, NEW c \in Client, request[c].file \in File
  PROVE  /\ c \in Of(request[c].file)
         /\ request[c].file \notin excused => FileSound(request[c].file) /\ KnowsFile(c, request[c].file)
         /\ request[c].step # "record" => lifecycle[request[c].file] # None
<1>1. request[c].file # None
  BY FilesAssumption
<1>2. c \in Of(request[c].file)
  BY <1>1 DEF Of
<1>. QED
  BY <1>1, <1>2 DEF FilesInv, FileSound, RequestsKnow, Of

\* A request that neither makes a record true nor stops doing so changes
\* nothing for the others.
LEMMA QuietStep ==
  ASSUME FilesInv, NEW f \in File \ excused', excused \subseteq excused', NEW c \in Client,
         lifecycle'[f] = lifecycle[f], object'[f] = object[f],
         \A d \in Client \ {c} : request'[d] = request[d],
         request[c].file = f => /\ request[c].step \notin {"discard", "unlink"}
                                /\ ~(request[c].step = "mark" /\ request[c].op = "delete")
  PROVE  RecordTrue(f)' /\ \A d \in Of(f) \ {c} : KnowsFile(d, f)'
<1>1. FileSound(f)
  BY DEF FilesInv
<1>2. \A d \in Of(f) \ {c} : request'[d] = request[d] /\ d \in Of(f)'
  BY DEF Of
<1>3. c \in Of(f) => request[c].file = f
  BY DEF Of
<1>4. RecordTrue(f)'
  BY <1>1, <1>2, <1>3 DEF FileSound, RecordTrue
<1>5. \A d \in Of(f) \ {c} : KnowsFile(d, f)'
  BY <1>1, <1>2 DEF FileSound, KnowsFile
<1>. QED
  BY <1>4, <1>5

\* Setting a record's lifecycle keeps the types: it is never None again.
LEMMA LifecycleStays ==
  ASSUME FilesTypeOK, NEW f \in File, NEW state \in Lifecycle, SetLifecycle(f, state),
         UNCHANGED <<object, url, permit, excused>>, request' \in [Client -> Request],
         owner' = owner \/ owner' = [owner EXCEPT ![f] = "student"]
  PROVE  /\ FilesTypeOK'
         /\ lifecycle'[f] = state
         /\ \A g \in File \ {f} : lifecycle'[g] = lifecycle[g] /\ object'[g] = object[g]
         /\ \A g \in File : object'[g] = object[g]
<1>1. None \notin Lifecycle
  BY FilesAssumption DEF Lifecycle
<1>2. \A g \in File : lifecycle[g] # None => lifecycle'[g] # None
  BY <1>1 DEF SetLifecycle, FilesTypeOK
<1>3. owner' \in [File -> {"student", "staff", None}]
  BY DEF FilesTypeOK
<1>. QED
  BY <1>2, <1>3 DEF SetLifecycle, FilesTypeOK

\* In the beginning no record, object or request exists.
LEMMA FilesInitially == FilesInit => FilesInv
<1>. SUFFICES ASSUME FilesInit PROVE FilesInv
  OBVIOUS
<1>1. \A c \in Client : request[c].file = None /\ request[c].step = "none"
  BY DEF FilesInit, NoRequest
<1>2. FilesTypeOK
  BY DEF FilesInit, FilesTypeOK, Request
<1>3. RequestsKnow
  BY <1>1 DEF RequestsKnow
<1>4. \A f \in File : Of(f) = {}
  BY <1>1 DEF Of
<1>5. \A f \in File : RecordTrue(f)
  BY FilesAssumption DEF FilesInit, RecordTrue
<1>. QED
  BY <1>2, <1>3, <1>4, <1>5 DEF FilesInv, FileSound, KeptApart

\* The client and the clock: they leave requests alone, and what they do to a
\* file that is not pending in no one's hands is a gap.
LEMMA ClientKeepsFiles ==
  ASSUME FilesInv, NEW f \in File, CreateUploadIntent(f) \/ ClientPut(f) \/ UrlExpires(f)
  PROVE  FilesInv'
<1>1. /\ UNCHANGED request /\ excused \subseteq excused'
      /\ \A g \in File \ {f} : lifecycle'[g] = lifecycle[g] /\ object'[g] = object[g]
      /\ \A g \in File : lifecycle[g] # None => lifecycle'[g] # None
  BY FilesAssumption
  DEF CreateUploadIntent, ClientPut, UrlExpires, SetLifecycle, FilesInv, FilesTypeOK
<1>2. FilesTypeOK'
  <2>1. CASE CreateUploadIntent(f)
    BY <2>1, FilesAssumption DEF CreateUploadIntent, SetLifecycle, FilesInv, FilesTypeOK, Lifecycle
  <2>2. CASE ClientPut(f)
    BY <2>2 DEF ClientPut, FilesInv, FilesTypeOK
  <2>3. CASE UrlExpires(f)
    BY <2>3 DEF UrlExpires, FilesInv, FilesTypeOK
  <2>. QED
    BY <2>1, <2>2, <2>3
<1>3. RequestsKnow'
  <2>1. \A d \in Client : request[d].file \in File \cup {None}
    BY RequestFields DEF FilesInv
  <2>. QED
    BY <1>1, <2>1 DEF FilesInv, RequestsKnow
<1>4. \A g \in File : Of(g)' = Of(g)
  BY <1>1 DEF Of
<1>5. ASSUME NEW g \in File \ excused'
      PROVE  FileSound(g)'
  <2>1. CASE g # f \/ UrlExpires(f)
    <3>1. lifecycle'[g] = lifecycle[g] /\ object'[g] = object[g]
      BY <1>1, <2>1 DEF UrlExpires
    <3>. QED
      BY <1>1, <3>1, OtherFileSound
  <2>2. CASE g = f /\ ~UrlExpires(f)
    <3>1. Of(g) = {} /\ lifecycle'[g] = "pending_upload"
      BY <1>5, <2>2 DEF CreateUploadIntent, ClientPut, SetLifecycle, FilesInv, FilesTypeOK
    <3>2. RecordTrue(g)'
      BY <3>1 DEF RecordTrue
    <3>. QED
      BY <3>1, <3>2, <1>4 DEF FileSound, KeptApart
  <2>. QED
    BY <2>1, <2>2
<1>. QED
  BY <1>2, <1>3, <1>5 DEF FilesInv

\* An administrator's decision is about no file.
LEMMA ApprovalKeepsFiles ==
  ASSUME FilesInv, NEW q \in Permit, Approve(q)
  PROVE  FilesInv'
<1>1. UNCHANGED <<lifecycle, owner, object, url, request, excused>>
  BY DEF Approve
<1>2. FilesTypeOK'
  BY DEF Approve, FilesInv, FilesTypeOK
<1>3. RequestsKnow'
  BY <1>1 DEF FilesInv, RequestsKnow
<1>4. \A f \in File \ excused' : FileSound(f)'
  BY <1>1, OtherFileSound
<1>. QED
  BY <1>2, <1>3, <1>4 DEF FilesInv

\* A request that starts changes nothing, and where it meets what excludes it
\* the file has a gap.
LEMMA GapStartKeepsFiles ==
  ASSUME FilesInv, NEW c \in Client, Waiting(c),
         NEW op, NEW step, NEW f, NEW q, NEW gap, Starts(c, op, step, f, q, gap),
         \/ op = "confirm" /\ step = "stat" /\ f \in File /\ q = None
         \/ op = "attach" /\ step \in {"stat", "publish"} /\ f \in File /\ q = None
         \/ op = "attach" /\ step = "insert" /\ f \in File \cup {None} /\ q = None
         \/ op = "delete" /\ step = "remove" /\ f \in File /\ q = None
         \/ op = "withdraw" /\ step \in {"mark", "unlink"} /\ f \in File /\ q \in Permit
         \/ op = "withdraw" /\ step = "drop" /\ f = None /\ q \in Permit,
         f = None => ~gap,
         f # None => lifecycle[f] # None,
         step = "stat" => lifecycle[f] = "pending_upload",
         step = "publish" => lifecycle[f] = "pending_upload" /\ (object[f] = "declared" \/ gap),
         step = "unlink" => gap,
         UNCHANGED <<lifecycle, owner, object, url, permit>>
  PROVE  FilesInv'
<1>1. request[c].file = None /\ request[c].step = "none"
  BY DEF Waiting, NoRequest
<1>2. /\ request' \in [Client -> Request]
      /\ request'[c].step = step /\ request'[c].file = f /\ request'[c].op = op
      /\ \A d \in Client \ {c} : request'[d] = request[d]
      /\ excused \subseteq excused' /\ excused' \subseteq File
      /\ f \in File \ excused' => ~gap /\ ~Meets(f, step)
  BY RequestStarts DEF FilesInv
<1>3. FilesTypeOK'
  BY <1>2 DEF FilesInv, FilesTypeOK
<1>4. step \in {"stat", "publish", "insert", "remove", "mark", "unlink", "drop"} /\ f \in File \cup {None}
  OBVIOUS
<1>5. ASSUME f \in File \ excused'
      PROVE  FileSound(f)'
  <2>1. f # None /\ ~gap /\ ~Meets(f, step)
    BY <1>2, <1>5, FilesAssumption
  <2>2. RecordTrue(f)' /\ \A d \in Of(f) \ {c} : KnowsFile(d, f)'
    BY <1>1, <1>2, <1>5, <2>1, QuietStep
  <2>3. KnowsFile(c, f)'
    BY <1>2, <1>4, <2>1 DEF KnowsFile
  <2>. QED
    BY <1>2, <1>5, <2>1, <2>2, <2>3, OwnFileSound
<1>. QED
  BY <1>1, <1>2, <1>3, <1>4, <1>5, RequestStepKeeps

LEMMA StartKeepsFiles ==
  ASSUME FilesInv, NEW c \in Client, Waiting(c),
         NEW op, NEW step, NEW f, NEW q, Starts(c, op, step, f, q, FALSE),
         \/ op = "confirm" /\ step = "stat" /\ f \in File /\ q = None
         \/ op = "attach" /\ step = "stat" /\ f \in File /\ q = None
         \/ op = "attach" /\ step = "insert" /\ f \in File \cup {None} /\ q = None
         \/ op = "delete" /\ step = "remove" /\ f \in File /\ q = None
         \/ op = "withdraw" /\ step = "mark" /\ f \in File /\ q \in Permit
         \/ op = "withdraw" /\ step = "drop" /\ f = None /\ q \in Permit,
         f # None => lifecycle[f] # None,
         step = "stat" => lifecycle[f] = "pending_upload",
         UNCHANGED <<lifecycle, owner, object, url, permit>>
  PROVE  FilesInv'
<1>1. PICK gap : gap = FALSE
  OBVIOUS
<1>2. Starts(c, op, step, f, q, gap)
  BY <1>1
<1>3. step # "publish" /\ step # "unlink" /\ ~gap
  BY <1>1
<1>. QED
  BY <1>2, <1>3, GapStartKeepsFiles

LEMMA ConfirmKeepsFiles ==
  ASSUME FilesInv, NEW c \in Client, ConfirmFileUpload(c)
  PROVE  FilesInv'
<1>1. PICK f \in File : lifecycle[f] = "pending_upload" /\ Starts(c, "confirm", "stat", f, None, FALSE)
  BY DEF ConfirmFileUpload
<1>2. Waiting(c) /\ UNCHANGED <<lifecycle, owner, object, url, permit>>
  BY DEF ConfirmFileUpload
<1>. QED
  BY <1>1, <1>2, FilesAssumption, StartKeepsFiles

\* A leave request takes a pending upload to be looked at, or a confirmed file
\* as it is.
LEMMA CreatePermitKeepsFiles ==
  ASSUME FilesInv, NEW c \in Client, CreatePermit(c)
  PROVE  FilesInv'
<1>1. Waiting(c) /\ UNCHANGED <<lifecycle, owner, object, url, permit>>
  BY DEF CreatePermit
<1>2. CASE Starts(c, "attach", "insert", None, None, FALSE)
  BY <1>1, <1>2, StartKeepsFiles
<1>3. ASSUME NEW f \in File, lifecycle[f] = "pending_upload", Starts(c, "attach", "stat", f, None, FALSE)
      PROVE  FilesInv'
  BY <1>1, <1>3, FilesAssumption, StartKeepsFiles
<1>4. ASSUME NEW f \in File, lifecycle[f] = "available", Starts(c, "attach", "insert", f, None, FALSE)
      PROVE  FilesInv'
  BY <1>1, <1>4, FilesAssumption, StartKeepsFiles
<1>. QED
  BY <1>2, <1>3, <1>4 DEF CreatePermit

\* The staff's route takes a pending upload as it is, too: that is a gap unless
\* the object is as declared.
LEMMA CreateAdminKeepsFiles ==
  ASSUME FilesInv, NEW c \in Client, CreateAdminLeaveRequest(c)
  PROVE  FilesInv'
<1>1. Waiting(c) /\ UNCHANGED <<lifecycle, owner, object, url, permit>>
  BY DEF CreateAdminLeaveRequest
<1>2. CASE Starts(c, "attach", "insert", None, None, FALSE)
  BY <1>1, <1>2, StartKeepsFiles
<1>3. ASSUME NEW f \in File, lifecycle[f] = "pending_upload",
             Starts(c, "attach", "publish", f, None, object[f] # "declared")
      PROVE  FilesInv'
  <2>1. PICK gap : gap = (object[f] # "declared")
    OBVIOUS
  <2>2. Starts(c, "attach", "publish", f, None, gap) /\ (object[f] = "declared" \/ gap) /\ f # None
    BY <1>3, <2>1, FilesAssumption
  <2>. QED
    BY <1>1, <1>3, <2>2, FilesAssumption, GapStartKeepsFiles
<1>4. ASSUME NEW f \in File, lifecycle[f] = "available", Starts(c, "attach", "insert", f, None, FALSE)
      PROVE  FilesInv'
  BY <1>1, <1>4, FilesAssumption, StartKeepsFiles
<1>. QED
  BY <1>2, <1>3, <1>4 DEF CreateAdminLeaveRequest

\* A removal starts with the file that its leave request refers to, if any;
\* where its record is not found there is a gap.
LEMMA WithdrawalKeepsFiles ==
  ASSUME FilesInv, NEW c \in Client, DeletePermit(c) \/ DeleteAdminLeaveRequest(c)
  PROVE  FilesInv'
<1>1. Waiting(c) /\ UNCHANGED <<lifecycle, owner, object, url, permit>>
  BY DEF DeletePermit, DeleteAdminLeaveRequest
<1>2. PICK q \in Permit : permit[q] # None /\ Withdraws(c, q)
  BY DEF DeletePermit, DeleteAdminLeaveRequest
<1>3. PICK f : f = permit[q].file
  OBVIOUS
<1>4. f \in File \cup {None} /\ (f # None => lifecycle[f] # None)
  BY <1>2, <1>3 DEF FilesInv, FilesTypeOK
<1>5. \/ f = None /\ Starts(c, "withdraw", "drop", None, q, FALSE)
      \/ f # None /\ Starts(c, "withdraw", "mark", f, q, FALSE)
      \/ f # None /\ Starts(c, "withdraw", "unlink", f, q, TRUE)
  BY <1>2, <1>3 DEF Withdraws
<1>6. CASE f = None /\ Starts(c, "withdraw", "drop", None, q, FALSE)
  BY <1>1, <1>6, StartKeepsFiles
<1>7. CASE f # None /\ Starts(c, "withdraw", "mark", f, q, FALSE)
  BY <1>1, <1>4, <1>7, StartKeepsFiles
<1>8. CASE f # None /\ Starts(c, "withdraw", "unlink", f, q, TRUE)
  BY <1>1, <1>4, <1>8, GapStartKeepsFiles
<1>. QED
  BY <1>5, <1>6, <1>7, <1>8

\* A deletion starts on any file that has a record.
LEMMA DeletionKeepsFiles ==
  ASSUME FilesInv, NEW c \in Client, DeleteFile(c)
  PROVE  FilesInv'
<1>1. Waiting(c) /\ UNCHANGED <<lifecycle, owner, object, url, permit>>
  BY DEF DeleteFile
<1>2. PICK f \in File : lifecycle[f] # None /\ Starts(c, "delete", "remove", f, None, FALSE)
  BY DEF DeleteFile
<1>. QED
  BY <1>1, <1>2, FilesAssumption, StartKeepsFiles

\* An attachment of the request's own is stored under a path that no one else
\* knows.
LEMMA UploadKeepsFiles ==
  ASSUME FilesInv, NEW c \in Client, UploadPermitAttachment(c)
  PROVE  FilesInv'
<1>1. UNCHANGED <<lifecycle, owner, url, permit>> /\ request[c].file = None
  BY DEF UploadPermitAttachment, Waiting, NoRequest
<1>2. PICK f \in File : /\ lifecycle[f] = None /\ Of(f) = {}
                        /\ object' = [object EXCEPT ![f] = "declared"]
                        /\ Starts(c, "upload", "record", f, None, FALSE)
  BY DEF UploadPermitAttachment
<1>3. /\ request' \in [Client -> Request]
      /\ request'[c].step = "record" /\ request'[c].file = f /\ request'[c].op = "upload"
      /\ \A d \in Client \ {c} : request'[d] = request[d]
      /\ excused \subseteq excused' /\ excused' \subseteq File
  <2>1. PICK gap : gap = FALSE
    OBVIOUS
  <2>2. Starts(c, "upload", "record", f, None, gap) /\ ~gap
    BY <1>2, <2>1
  <2>. QED
    BY <2>2, RequestStarts DEF FilesInv
<1>4. /\ object' \in [File -> {"declared", "other", None}] /\ object'[f] = "declared"
      /\ \A g \in File \ {f} : object'[g] = object[g]
  BY <1>2 DEF FilesInv, FilesTypeOK
<1>5. FilesTypeOK'
  BY <1>1, <1>3, <1>4 DEF FilesInv, FilesTypeOK
<1>6. ASSUME f \in File \ excused'
      PROVE  FileSound(f)'
  <2>1. RecordTrue(f)'
    BY <1>1, <1>2, FilesAssumption DEF RecordTrue
  <2>2. KnowsFile(c, f)'
    BY <1>1, <1>2, <1>3, <1>4 DEF KnowsFile
  <2>3. "record" \notin Verifying \cup Removing
    BY DEF Verifying, Removing
  <2>. QED
    BY <1>2, <1>3, <1>6, <2>1, <2>2, <2>3, OwnFileSound
<1>. QED
  BY <1>1, <1>2, <1>3, <1>4, <1>5, <1>6, RequestStepKeeps

\* Requests that go on: a request looks at the object, and a file is rejected
\* by what it saw, or published.
LEMMA LookKeepsFiles ==
  ASSUME FilesInv, NEW c \in Client, StatObject(c)
  PROVE  FilesInv'
<1>1. PICK f \in File : f = request[c].file
  BY DEF FilesInv, RequestsKnow, StatObject, At
<1>2. request[c].step = "stat" /\ request[c].op \in {"confirm", "attach"}
  BY RequestFields DEF FilesInv, StatObject, At
<1>3. UNCHANGED <<lifecycle, owner, object, url, permit>>
  BY DEF StatObject
<1>4. excused \subseteq excused' /\ excused' \subseteq File
  BY <1>1 DEF StatObject, FilesInv, FilesTypeOK
<1>5. lifecycle[f] # None
  BY <1>1, <1>2, RequestKnows
<1>6. f \in File \ excused' => FileSound(f) /\ KnowsFile(c, f) /\ c \in Of(f)
  BY <1>1, <1>4, RequestKnows
<1>7. CASE Verdict(c) = "none"
  <2>1. Answers(c)
    BY <1>7 DEF StatObject
  <2>2. /\ request' \in [Client -> Request]
        /\ request'[c].step = "none" /\ request'[c].file = None
        /\ \A d \in Client \ {c} : request'[d] = request[d]
    BY <2>1, RequestEnds DEF FilesInv
  <2>3. FilesTypeOK'
    BY <1>3, <1>4, <2>2 DEF FilesInv, FilesTypeOK
  <2>4. ASSUME f \in File \ excused'
        PROVE  FileSound(f)'
    <3>1. RecordTrue(f)' /\ \A d \in Of(f) \ {c} : KnowsFile(d, f)'
      BY <1>2, <1>3, <1>4, <2>2, <2>4, QuietStep
    <3>. QED
      BY <1>4, <1>5, <2>2, <2>4, <3>1, FilesAssumption, OwnFileSound
  <2>. QED
    BY <1>1, <1>3, <1>4, <1>5, <2>2, <2>3, <2>4, RequestStepKeeps, FilesAssumption
<1>8. CASE Verdict(c) # "none"
  <2>1. PICK step : step = Verdict(c)
    OBVIOUS
  <2>2. step \in {"reject", "publish"} /\ GoesTo(c, step)
    BY <1>1, <1>8, <2>1 DEF StatObject, Verdict, FilesInv, FilesTypeOK
  <2>3. /\ request' \in [Client -> Request]
        /\ request'[c].step = step /\ request'[c].file = f /\ request'[c].op = request[c].op
        /\ \A d \in Client \ {c} : request'[d] = request[d]
    BY <1>1, <1>2, <2>2, RequestGoes DEF FilesInv
  <2>4. FilesTypeOK'
    BY <1>3, <1>4, <2>3 DEF FilesInv, FilesTypeOK
  <2>5. object[f] \in {"declared", "other", None}
    BY <1>1 DEF FilesInv, FilesTypeOK
  <2>6. /\ step = "publish" /\ f \notin excused' => object[f] = "declared"
        /\ step = "reject" => object[f] # "declared"
    <3>1. object[f] = "other" => step = "reject"
      BY <1>1, <2>1, FilesAssumption DEF Verdict
    <3>2. object[f] = "declared" => step = "publish"
      BY <1>1, <2>1, FilesAssumption DEF Verdict
    <3>3. object[f] = None => f \in excused' \/ step = "none"
      BY <1>1, <1>2, <2>1, FilesAssumption DEF Verdict, StatObject
    <3>. QED
      BY <2>2, <2>5, <3>1, <3>2, <3>3
  <2>7. ASSUME f \in File \ excused'
        PROVE  FileSound(f)'
    <3>1. RecordTrue(f)' /\ \A d \in Of(f) \ {c} : KnowsFile(d, f)'
      BY <1>2, <1>3, <1>4, <2>3, <2>7, QuietStep
    <3>2. \A d \in Of(f) : ~(request[d].step = "mark" /\ request[d].op = "delete")
      BY <1>2, <1>6, <2>7 DEF FileSound, KeptApart, Verifying, Removing
    <3>3. lifecycle[f] = "available" => object[f] = "declared"
      BY <1>6, <2>7, <3>2 DEF FileSound, RecordTrue
    <3>4. lifecycle[f] = "rejected" => object[f] # "declared"
      BY <1>6, <2>7, FilesAssumption DEF FileSound, RecordTrue
    <3>5. lifecycle[f] \in {"pending_upload", "available", "rejected"}
      BY <1>2, <1>6, <2>7 DEF KnowsFile
    <3>6. KnowsFile(c, f)'
      BY <1>3, <2>2, <2>3, <2>6, <2>7, <3>3, <3>4, <3>5 DEF KnowsFile
    <3>7. request[c].step \in Verifying /\ step \notin Removing
      BY <1>2, <2>2 DEF Verifying, Removing
    <3>. QED
      BY <1>1, <1>4, <1>5, <2>2, <2>3, <2>7, <3>1, <3>6, <3>7, OwnFileSound
  <2>. QED
    BY <1>1, <1>3, <1>4, <1>5, <2>2, <2>3, <2>4, <2>7, RequestStepKeeps
<1>. QED
  BY <1>7, <1>8

\* What a request rejects, no other one publishes.
LEMMA RejectionKeepsFiles ==
  ASSUME FilesInv, NEW c \in Client, Reject(c)
  PROVE  FilesInv'
<1>1. PICK f \in File : f = request[c].file
  BY DEF FilesInv, RequestsKnow, Reject, At
<1>2. request[c].step = "reject" /\ request[c].op \in {"confirm", "attach"}
  BY RequestFields DEF FilesInv, Reject, At
<1>3. /\ request' \in [Client -> Request]
      /\ request'[c].step = "discard" /\ request'[c].file = f
      /\ \A d \in Client \ {c} : request'[d] = request[d]
  BY <1>1, <1>2, RequestGoes DEF FilesInv, Reject
<1>4. /\ FilesTypeOK' /\ lifecycle'[f] = "rejected" /\ excused' = excused
      /\ \A g \in File \ {f} : lifecycle'[g] = lifecycle[g] /\ object'[g] = object[g]
      /\ object'[f] = object[f]
  BY <1>1, <1>3, LifecycleStays DEF FilesInv, Reject, Lifecycle
<1>5. lifecycle[f] # None
  BY <1>1, <1>2, RequestKnows
<1>6. ASSUME f \in File \ excused'
      PROVE  FileSound(f)'
  <2>1. FileSound(f) /\ KnowsFile(c, f) /\ c \in Of(f)
    BY <1>1, <1>4, <1>6, RequestKnows
  <2>2. object[f] # "declared"
    BY <1>2, <2>1 DEF KnowsFile
  <2>3. c \in Of(f)' /\ KnowsFile(c, f)'
    BY <1>3, <1>4, FilesAssumption DEF Of, KnowsFile
  <2>4. RecordTrue(f)'
    BY <1>3, <1>4, <2>2, <2>3 DEF RecordTrue
  <2>5. \A d \in Of(f) : request[d].step \notin Removing /\ request[d].step # "record"
    BY <1>2, <2>1 DEF FileSound, KeptApart, Verifying, Removing
  <2>6. \A d \in Of(f) \ {c} : KnowsFile(d, f)'
    BY <1>3, <1>4, <2>1, <2>2, <2>5 DEF FileSound, KnowsFile, Of, Removing
  <2>7. request[c].step \in Verifying /\ "discard" \notin Removing
    BY <1>2 DEF Verifying, Removing
  <2>. QED
    BY <1>1, <1>3, <1>4, <1>5, <1>6, <2>3, <2>4, <2>6, <2>7, OwnFileSound
<1>. QED
  BY <1>1, <1>3, <1>4, <1>6, FilesAssumption, RequestStepKeeps

\* A file is published once its object was found as declared, or was not looked
\* for and is excused.
LEMMA PublishingKeepsFiles ==
  ASSUME FilesInv, NEW c \in Client, Publish(c)
  PROVE  FilesInv'
<1>1. PICK f \in File : f = request[c].file
  BY DEF FilesInv, RequestsKnow, Publish, At
<1>2. request[c].step = "publish" /\ request[c].op \in {"confirm", "attach"}
  BY RequestFields DEF FilesInv, Publish, At
<1>3. /\ request' \in [Client -> Request]
      /\ \/ request'[c].step = "insert" /\ request'[c].file = f
         \/ request'[c].step = "none" /\ request'[c].file = None
      /\ \A d \in Client \ {c} : request'[d] = request[d]
  <2>1. CASE request[c].op = "attach"
    BY <1>1, <2>1, RequestGoes DEF FilesInv, Publish
  <2>2. CASE request[c].op # "attach"
    BY <2>2, RequestEnds DEF FilesInv, Publish
  <2>. QED
    BY <2>1, <2>2
<1>4. /\ FilesTypeOK' /\ lifecycle'[f] = "available" /\ excused' = excused
      /\ \A g \in File \ {f} : lifecycle'[g] = lifecycle[g] /\ object'[g] = object[g]
      /\ object'[f] = object[f]
  BY <1>1, <1>3, LifecycleStays DEF FilesInv, Publish, Lifecycle
<1>5. lifecycle[f] # None
  BY <1>1, <1>2, RequestKnows
<1>6. ASSUME f \in File \ excused'
      PROVE  FileSound(f)'
  <2>1. FileSound(f) /\ KnowsFile(c, f) /\ c \in Of(f)
    BY <1>1, <1>4, <1>6, RequestKnows
  <2>2. object[f] = "declared"
    BY <1>2, <2>1 DEF KnowsFile
  <2>3. RecordTrue(f)'
    BY <1>4, <2>2 DEF RecordTrue
  <2>4. \A d \in Of(f) : request[d].step \notin Removing
    BY <1>2, <2>1 DEF FileSound, KeptApart, Verifying, Removing
  <2>5. \A d \in Of(f) : request[d].step \notin {"reject", "discard", "record"}
    <3>1. lifecycle[f] = "pending_upload" \/ lifecycle[f] = "available"
      BY <1>2, <2>1 DEF KnowsFile
    <3>. QED
      BY <1>5, <2>1, <2>2, <3>1 DEF FileSound, KnowsFile
  <2>6. \A d \in Of(f) \ {c} : KnowsFile(d, f)'
    BY <1>3, <1>4, <2>1, <2>2, <2>4, <2>5 DEF FileSound, KnowsFile, Of, Removing
  <2>7. {"insert", "none"} \cap (Verifying \cup Removing) = {}
    BY DEF Verifying, Removing
  <2>8. request'[c].file = f => KnowsFile(c, f)'
    BY <1>3, FilesAssumption DEF KnowsFile
  <2>. QED
    BY <1>3, <1>4, <1>5, <1>6, <2>3, <2>6, <2>7, <2>8, OwnFileSound
<1>. QED
  BY <1>1, <1>3, <1>4, <1>6, FilesAssumption, RequestStepKeeps

\* A deletion of an object that may fail: then the file is excused.
LEMMA DiscardKeepsFiles ==
  ASSUME FilesInv, NEW c \in Client, Discard(c)
  PROVE  FilesInv'
<1>1. PICK f \in File : f = request[c].file
  BY DEF FilesInv, RequestsKnow, Discard, At
<1>2. UNCHANGED <<lifecycle, owner, url, permit>> /\ request[c].step = "discard"
      /\ \/ object' = [object EXCEPT ![f] = None] /\ UNCHANGED excused
         \/ excused' = excused \cup {f} /\ UNCHANGED object
  BY <1>1 DEF Discard, At
<1>3. /\ request' \in [Client -> Request]
      /\ request'[c].step = "none" /\ request'[c].file = None
      /\ \A d \in Client \ {c} : request'[d] = request[d]
  BY RequestEnds DEF FilesInv, Discard
<1>4. /\ object' \in [File -> {"declared", "other", None}]
      /\ \A g \in File \ {f} : object'[g] = object[g]
      /\ f \notin excused' => object'[f] = None
      /\ excused \subseteq excused' /\ excused' \subseteq File
  BY <1>2 DEF FilesInv, FilesTypeOK
<1>5. FilesTypeOK'
  BY <1>2, <1>3, <1>4 DEF FilesInv, FilesTypeOK
<1>6. lifecycle[f] # None
  BY <1>1, <1>2, RequestKnows
<1>7. ASSUME f \in File \ excused'
      PROVE  FileSound(f)'
  <2>1. FileSound(f) /\ KnowsFile(c, f) /\ c \in Of(f)
    BY <1>1, <1>4, <1>7, RequestKnows
  <2>2. object'[f] = None /\ lifecycle[f] = "rejected"
    BY <1>2, <1>4, <1>7, <2>1 DEF KnowsFile
  <2>3. RecordTrue(f)'
    BY <1>2, <2>2 DEF RecordTrue
  <2>4. \A d \in Of(f) \ {c} : KnowsFile(d, f)'
    BY <1>2, <1>3, <1>6, <2>1, <2>2, FilesAssumption DEF FileSound, KnowsFile, Of
  <2>. QED
    BY <1>3, <1>4, <1>6, <1>7, <2>3, <2>4, FilesAssumption, OwnFileSound
<1>. QED
  BY <1>1, <1>2, <1>3, <1>4, <1>5, <1>7, FilesAssumption, RequestStepKeeps

\* The record follows the object that was just stored.
LEMMA RecordingKeepsFiles ==
  ASSUME FilesInv, NEW c \in Client, CreateFileRecord(c)
  PROVE  FilesInv'
<1>1. PICK f \in File : f = request[c].file
  BY DEF FilesInv, RequestsKnow, CreateFileRecord, At
<1>2. request[c].step = "record" /\ request[c].op = "upload"
  BY RequestFields DEF FilesInv, CreateFileRecord, At
<1>3. /\ request' \in [Client -> Request]
      /\ request'[c].step = "insert" /\ request'[c].file = f
      /\ \A d \in Client \ {c} : request'[d] = request[d]
  BY <1>1, <1>2, RequestGoes DEF FilesInv, CreateFileRecord
<1>4. /\ FilesTypeOK' /\ lifecycle'[f] = "available" /\ excused' = excused
      /\ \A g \in File \ {f} : lifecycle'[g] = lifecycle[g] /\ object'[g] = object[g]
      /\ object'[f] = object[f]
  BY <1>1, <1>3, LifecycleStays DEF FilesInv, CreateFileRecord, Lifecycle
<1>5. ASSUME f \in File \ excused'
      PROVE  FileSound(f)'
  <2>1. FileSound(f) /\ KnowsFile(c, f) /\ c \in Of(f)
    BY <1>1, <1>4, <1>5, RequestKnows
  <2>2. Of(f) \subseteq {c} /\ object[f] = "declared"
    BY <1>2, <2>1 DEF FileSound, KeptApart, KnowsFile
  <2>3. RecordTrue(f)' /\ KnowsFile(c, f)'
    BY <1>3, <1>4, <2>2 DEF RecordTrue, KnowsFile
  <2>4. "insert" \notin Verifying \cup Removing
    BY DEF Verifying, Removing
  <2>. QED
    BY <1>3, <1>4, <1>5, <2>2, <2>3, <2>4, OwnFileSound
<1>. QED
  BY <1>1, <1>3, <1>4, <1>5, FilesAssumption, RequestStepKeeps

\* The leave request is inserted with its attachment, or with none.
LEMMA InsertionKeepsFiles ==
  ASSUME FilesInv, NEW c \in Client, InsertPermit(c)
  PROVE  FilesInv'
<1>1. PICK f \in File \cup {None} : f = request[c].file
  BY RequestFields DEF FilesInv
<1>2. request[c].step = "insert" /\ UNCHANGED <<lifecycle, owner, object, url, excused>>
  BY DEF InsertPermit, At
<1>3. /\ request' \in [Client -> Request]
      /\ request'[c].step = "none" /\ request'[c].file = None
      /\ \A d \in Client \ {c} : request'[d] = request[d]
  BY RequestEnds DEF FilesInv, InsertPermit
<1>4. f # None => lifecycle[f] # None
  BY <1>1, <1>2, RequestKnows
<1>5. PICK q \in Permit, row \in [file : File \cup {None}, status : {"pending", "approved"}] :
        row.file = f /\ permit' = [permit EXCEPT ![q] = row]
  BY <1>1 DEF InsertPermit
<1>6. FilesTypeOK'
  BY <1>2, <1>3, <1>4, <1>5 DEF FilesInv, FilesTypeOK
<1>7. ASSUME f \in File \ excused'
      PROVE  FileSound(f)'
  <2>1. RecordTrue(f)' /\ \A d \in Of(f) \ {c} : KnowsFile(d, f)'
    BY <1>2, <1>3, <1>7, QuietStep
  <2>. QED
    BY <1>2, <1>3, <1>4, <1>7, <2>1, FilesAssumption, OwnFileSound
<1>. QED
  BY <1>1, <1>2, <1>3, <1>6, <1>7, FilesAssumption, RequestStepKeeps

\* A removal deletes the object after the record was marked; a failure excuses
\* the file.
LEMMA UnlinkingKeepsFiles ==
  ASSUME FilesInv, NEW c \in Client, Unlink(c)
  PROVE  FilesInv'
<1>1. PICK f \in File : f = request[c].file
  BY DEF FilesInv, RequestsKnow, Unlink, At
<1>2. request[c].step = "unlink" /\ request[c].op = "withdraw"
  BY RequestFields DEF FilesInv, Unlink, At
<1>3. UNCHANGED <<lifecycle, owner, url, permit>>
      /\ \/ object' = [object EXCEPT ![f] = None] /\ UNCHANGED excused
         \/ excused' = excused \cup {f} /\ UNCHANGED object
  BY <1>1 DEF Unlink
<1>4. /\ request' \in [Client -> Request]
      /\ request'[c].step = "drop" /\ request'[c].file = f
      /\ \A d \in Client \ {c} : request'[d] = request[d]
  BY <1>1, <1>2, RequestGoes DEF FilesInv, Unlink
<1>5. /\ object' \in [File -> {"declared", "other", None}]
      /\ \A g \in File \ {f} : object'[g] = object[g]
      /\ f \notin excused' => object'[f] = None
      /\ excused \subseteq excused' /\ excused' \subseteq File
  BY <1>3 DEF FilesInv, FilesTypeOK
<1>6. FilesTypeOK'
  BY <1>3, <1>4, <1>5 DEF FilesInv, FilesTypeOK
<1>7. lifecycle[f] # None
  BY <1>1, <1>2, RequestKnows
<1>8. ASSUME f \in File \ excused'
      PROVE  FileSound(f)'
  <2>1. FileSound(f) /\ KnowsFile(c, f) /\ c \in Of(f)
    BY <1>1, <1>5, <1>8, RequestKnows
  <2>2. object'[f] = None /\ lifecycle[f] = "deleted"
    BY <1>2, <1>5, <1>8, <2>1 DEF KnowsFile
  <2>3. RecordTrue(f)'
    BY <1>3, <2>2 DEF RecordTrue
  <2>4. \A d \in Of(f) : request[d].step \notin Verifying
    BY <1>2, <2>1 DEF FileSound, KeptApart, Verifying, Removing
  <2>5. \A d \in Of(f) \ {c} : KnowsFile(d, f)'
    BY <1>3, <1>4, <1>7, <2>1, <2>2, <2>4 DEF FileSound, KnowsFile, Of, Verifying
  <2>6. "drop" \notin Verifying \cup Removing
    BY DEF Verifying, Removing
  <2>7. KnowsFile(c, f)'
    BY <1>4 DEF KnowsFile
  <2>. QED
    BY <1>4, <1>5, <1>7, <1>8, <2>3, <2>5, <2>6, <2>7, OwnFileSound
<1>. QED
  BY <1>1, <1>3, <1>4, <1>5, <1>6, <1>7, <1>8, RequestStepKeeps

\* A removal ends with the leave request.
LEMMA DropKeepsFiles ==
  ASSUME FilesInv, NEW c \in Client, DropPermit(c)
  PROVE  FilesInv'
<1>1. PICK f \in File \cup {None} : f = request[c].file
  BY RequestFields DEF FilesInv
<1>2. request[c].step = "drop" /\ UNCHANGED <<lifecycle, owner, object, url, excused>>
  BY DEF DropPermit, At
<1>3. /\ request' \in [Client -> Request]
      /\ request'[c].step = "none" /\ request'[c].file = None
      /\ \A d \in Client \ {c} : request'[d] = request[d]
  BY RequestEnds DEF FilesInv, DropPermit
<1>4. request[c].permit \in Permit /\ permit' = [permit EXCEPT ![request[c].permit] = None]
  BY <1>2, RequestFields DEF FilesInv, DropPermit
<1>5. FilesTypeOK'
  BY <1>2, <1>3, <1>4 DEF FilesInv, FilesTypeOK
<1>6. f # None => lifecycle[f] # None
  BY <1>1, <1>2, RequestKnows
<1>7. ASSUME f \in File \ excused'
      PROVE  FileSound(f)'
  <2>1. RecordTrue(f)' /\ \A d \in Of(f) \ {c} : KnowsFile(d, f)'
    BY <1>2, <1>3, <1>7, QuietStep
  <2>. QED
    BY <1>2, <1>3, <1>6, <1>7, <2>1, FilesAssumption, OwnFileSound
<1>. QED
  BY <1>1, <1>2, <1>3, <1>5, <1>7, FilesAssumption, RequestStepKeeps

\* A deletion removes the object first, so that the record may then say so.
LEMMA RemovalKeepsFiles ==
  ASSUME FilesInv, NEW c \in Client, DeleteFileObject(c)
  PROVE  FilesInv'
<1>1. PICK f \in File : f = request[c].file
  BY DEF FilesInv, RequestsKnow, DeleteFileObject, At
<1>2. request[c].step = "remove" /\ request[c].op = "delete"
  BY RequestFields DEF FilesInv, DeleteFileObject, At
<1>3. UNCHANGED <<lifecycle, owner, url, permit, excused>> /\ object' = [object EXCEPT ![f] = None]
  BY <1>1 DEF DeleteFileObject
<1>4. /\ request' \in [Client -> Request]
      /\ request'[c].step = "mark" /\ request'[c].file = f /\ request'[c].op = "delete"
      /\ \A d \in Client \ {c} : request'[d] = request[d]
  BY <1>1, <1>2, RequestGoes DEF FilesInv, DeleteFileObject
<1>5. /\ object' \in [File -> {"declared", "other", None}]
      /\ \A g \in File \ {f} : object'[g] = object[g]
      /\ object'[f] = None
  BY <1>3 DEF FilesInv, FilesTypeOK
<1>6. FilesTypeOK'
  BY <1>3, <1>4, <1>5 DEF FilesInv, FilesTypeOK
<1>7. lifecycle[f] # None
  BY <1>1, <1>2, RequestKnows
<1>8. ASSUME f \in File \ excused'
      PROVE  FileSound(f)'
  <2>1. FileSound(f) /\ KnowsFile(c, f) /\ c \in Of(f)
    BY <1>1, <1>3, <1>8, RequestKnows
  <2>2. c \in Of(f)' /\ KnowsFile(c, f)'
    BY <1>4, <1>5, FilesAssumption DEF Of, KnowsFile
  <2>3. RecordTrue(f)'
    BY <1>4, <1>5, <2>2 DEF RecordTrue
  <2>4. \A d \in Of(f) : request[d].step \notin Verifying
    BY <1>2, <2>1 DEF FileSound, KeptApart, Verifying, Removing
  <2>5. \A d \in Of(f) \ {c} : KnowsFile(d, f)'
    BY <1>3, <1>4, <1>5, <1>7, <2>1, <2>4 DEF FileSound, KnowsFile, Of, Verifying
  <2>6. request[c].step \in Removing /\ "mark" \notin Verifying
    BY <1>2 DEF Verifying, Removing
  <2>. QED
    BY <1>1, <1>3, <1>4, <1>7, <1>8, <2>2, <2>3, <2>5, <2>6, OwnFileSound
<1>. QED
  BY <1>1, <1>3, <1>4, <1>5, <1>6, <1>7, <1>8, RequestStepKeeps

\* The record is marked: of a deletion after the object is gone, of a removed
\* leave request before it goes.
LEMMA MarkingKeepsFiles ==
  ASSUME FilesInv, NEW c \in Client, MarkFileDeleted(c)
  PROVE  FilesInv'
<1>1. PICK f \in File : f = request[c].file
  BY DEF FilesInv, RequestsKnow, MarkFileDeleted, At
<1>2. request[c].step = "mark" /\ request[c].op \in {"delete", "withdraw"}
  BY RequestFields DEF FilesInv, MarkFileDeleted, At
<1>3. /\ request' \in [Client -> Request]
      /\ \/ request[c].op = "withdraw" /\ request'[c].step = "unlink" /\ request'[c].file = f
         \/ request[c].op = "delete" /\ request'[c].step = "none" /\ request'[c].file = None
      /\ \A d \in Client \ {c} : request'[d] = request[d]
  <2>1. CASE request[c].op = "withdraw"
    BY <1>1, <2>1, RequestGoes DEF FilesInv, MarkFileDeleted
  <2>2. CASE request[c].op = "delete"
    BY <2>2, RequestEnds DEF FilesInv, MarkFileDeleted
  <2>. QED
    BY <1>2, <2>1, <2>2
<1>4. /\ FilesTypeOK' /\ lifecycle'[f] = "deleted" /\ excused' = excused
      /\ \A g \in File \ {f} : lifecycle'[g] = lifecycle[g] /\ object'[g] = object[g]
      /\ object'[f] = object[f]
  BY <1>1, <1>3, LifecycleStays DEF FilesInv, MarkFileDeleted, Lifecycle
<1>5. lifecycle[f] # None
  BY <1>1, <1>2, RequestKnows
<1>6. ASSUME f \in File \ excused'
      PROVE  FileSound(f)'
  <2>1. FileSound(f) /\ KnowsFile(c, f) /\ c \in Of(f)
    BY <1>1, <1>4, <1>6, RequestKnows
  <2>2. request[c].op = "delete" => object[f] = None
    BY <1>2, <2>1 DEF KnowsFile
  <2>3. request[c].op = "withdraw" => c \in Of(f)'
    BY <1>2, <1>3, FilesAssumption DEF Of
  <2>4. RecordTrue(f)'
    BY <1>2, <1>3, <1>4, <2>2, <2>3 DEF RecordTrue
  <2>5. \A d \in Of(f) : request[d].step \notin Verifying
    BY <1>2, <2>1 DEF FileSound, KeptApart, Verifying, Removing
  <2>6. \A d \in Of(f) \ {c} : KnowsFile(d, f)'
    BY <1>3, <1>4, <1>5, <2>1, <2>5 DEF FileSound, KnowsFile, Of, Verifying
  <2>7. request[c].step \in Removing /\ {"unlink", "none"} \cap Verifying = {} /\ "none" \notin Removing
    BY <1>2 DEF Verifying, Removing
  <2>8. request'[c].file = f => KnowsFile(c, f)'
    BY <1>3, <1>4, FilesAssumption DEF KnowsFile
  <2>. QED
    BY <1>1, <1>3, <1>4, <1>5, <1>6, <2>4, <2>6, <2>7, <2>8, OwnFileSound
<1>. QED
  BY <1>1, <1>3, <1>4, <1>6, FilesAssumption, RequestStepKeeps

\* A request that breaks off between its two stores leaves an excused file.
LEMMA BreakKeepsFiles ==
  ASSUME FilesInv, NEW c \in Client, BreaksOff(c)
  PROVE  FilesInv'
<1>1. PICK f \in File \cup {None} : f = request[c].file
  BY RequestFields DEF FilesInv
<1>2. UNCHANGED <<lifecycle, owner, object, url, permit>> /\ request[c].step # "none"
  BY RequestFields DEF FilesInv, BreaksOff, Waiting
<1>3. /\ request' \in [Client -> Request]
      /\ request'[c].step = "none" /\ request'[c].file = None
      /\ \A d \in Client \ {c} : request'[d] = request[d]
  BY RequestEnds DEF FilesInv, BreaksOff
<1>4. excused \subseteq excused' /\ excused' \subseteq File
  BY <1>1, <1>2, RequestFields DEF BreaksOff, FilesInv, FilesTypeOK, RequestsKnow
<1>5. f \notin excused' => /\ request[c].step \notin {"discard", "unlink"}
                           /\ ~(request[c].op = "delete" /\ request[c].step = "mark")
  BY <1>1 DEF BreaksOff
<1>6. FilesTypeOK'
  BY <1>2, <1>3, <1>4 DEF FilesInv, FilesTypeOK
<1>7. ASSUME f \in File \ excused'
      PROVE  FileSound(f)'
  <2>1. RecordTrue(f)' /\ \A d \in Of(f) \ {c} : KnowsFile(d, f)'
    BY <1>2, <1>3, <1>4, <1>5, <1>7, QuietStep
  <2>2. FileSound(f) /\ c \in Of(f)
    BY <1>1, <1>4, <1>7, RequestKnows
  <2>3. lifecycle[f] # None \/ Of(f) \subseteq {c}
    BY <1>1, <1>7, <2>2, RequestKnows DEF FileSound, KeptApart
  <2>. QED
    BY <1>3, <1>4, <1>7, <2>1, <2>3, FilesAssumption, OwnFileSound
<1>. QED
  BY <1>1, <1>2, <1>3, <1>4, <1>6, <1>7, FilesAssumption, RequestStepKeeps

\* Every step keeps what is known of the files.
LEMMA FilesStep == FilesInv /\ [FilesNext]_fileVars => FilesInv'
<1>. SUFFICES ASSUME FilesInv, [FilesNext]_fileVars
              PROVE  FilesInv'
  OBVIOUS
<1>1. CASE \E f \in File : CreateUploadIntent(f) \/ ClientPut(f) \/ UrlExpires(f)
  BY <1>1, ClientKeepsFiles
<1>2. CASE \E q \in Permit : Approve(q)
  BY <1>2, ApprovalKeepsFiles
<1>3. ASSUME NEW c \in Client,
             \/ ConfirmFileUpload(c) \/ StatObject(c) \/ Reject(c) \/ Publish(c) \/ Discard(c)
             \/ CreatePermit(c) \/ CreateAdminLeaveRequest(c)
             \/ UploadPermitAttachment(c) \/ CreateFileRecord(c) \/ InsertPermit(c)
             \/ DeletePermit(c) \/ DeleteAdminLeaveRequest(c) \/ Unlink(c) \/ DropPermit(c)
             \/ DeleteFile(c) \/ DeleteFileObject(c) \/ MarkFileDeleted(c) \/ BreaksOff(c)
      PROVE  FilesInv'
  BY <1>3, ConfirmKeepsFiles, LookKeepsFiles, RejectionKeepsFiles, PublishingKeepsFiles,
     DiscardKeepsFiles, CreatePermitKeepsFiles, CreateAdminKeepsFiles, UploadKeepsFiles,
     RecordingKeepsFiles, InsertionKeepsFiles, WithdrawalKeepsFiles, UnlinkingKeepsFiles,
     DropKeepsFiles, DeletionKeepsFiles, RemovalKeepsFiles, MarkingKeepsFiles, BreakKeepsFiles
<1>4. CASE UNCHANGED fileVars
  <2>1. UNCHANGED <<lifecycle, owner, object, url, permit, request, excused>>
    BY <1>4 DEF fileVars
  <2>2. FilesTypeOK'
    BY <2>1 DEF FilesInv, FilesTypeOK
  <2>3. RequestsKnow'
    BY <2>1 DEF FilesInv, RequestsKnow
  <2>4. \A f \in File \ excused' : FileSound(f)'
    BY <2>1, OtherFileSound
  <2>. QED
    BY <2>2, <2>3, <2>4 DEF FilesInv
<1>. QED
  BY <1>1, <1>2, <1>3, <1>4 DEF FilesNext

\* Between requests nobody is about to make the record true, so it is.
LEMMA SoundFilesMatch == FilesInv => FilesMatchObjects
BY DEF FilesInv, FileSound, RecordTrue, FilesMatchObjects

\* Only a publication and a new record make a file available, and neither meets
\* a rejected one that no gap has touched.
LEMMA RejectedStays ==
  ASSUME FilesInv, [FilesNext]_fileVars, NEW f \in File \ excused, lifecycle[f] = "rejected"
  PROVE  lifecycle'[f] # "available"
<1>1. SUFFICES ASSUME lifecycle'[f] = "available"
               PROVE  FALSE
  OBVIOUS
<1>2. lifecycle' # lifecycle
  BY <1>1
<1>3. ~(CreateUploadIntent(f))
  BY FilesAssumption DEF CreateUploadIntent
<1>4. \A g \in File : CreateUploadIntent(g) => g = f
  BY <1>1 DEF CreateUploadIntent, SetLifecycle, FilesInv, FilesTypeOK
<1>5. PICK c \in Client : Reject(c) \/ Publish(c) \/ CreateFileRecord(c) \/ MarkFileDeleted(c)
  BY <1>2, <1>3, <1>4
  DEF FilesNext, fileVars, ClientPut, UrlExpires, Approve, ConfirmFileUpload, StatObject, Discard,
      CreatePermit, CreateAdminLeaveRequest, UploadPermitAttachment, InsertPermit, DeletePermit,
      DeleteAdminLeaveRequest, Unlink, DropPermit, DeleteFile, DeleteFileObject, BreaksOff
<1>6. request[c].file = f /\ request[c].step \in {"publish", "record"}
  BY <1>1, <1>5
  DEF Reject, Publish, CreateFileRecord, MarkFileDeleted, SetLifecycle, At, FilesInv, FilesTypeOK
<1>7. KnowsFile(c, f)
  BY <1>6, RequestKnows
<1>. QED
  BY <1>6, <1>7, FilesAssumption DEF KnowsFile

-----------------------------------------------------------------------------
(* Face enrollment.                                                         *)

\* An enrollment is at an image that exists until it has none left.
CountsImages ==
  \A c \in Caller :
    /\ caller[c].step \in {"upload", "record"} => caller[c].at \in Index
    /\ Awaits(c, "enroll", "robin") => caller[c].at = 1

\* A call is alone while every other caller is free.
AloneIsAlone ==
  \A c \in Caller : caller[c] # Free /\ caller[c].alone => \A d \in Caller \ {c} : caller[d] = Free

\* What is settled is settled between changes; no status call is about to
\* adopt an enrollment that was removed.
SettledRests ==
  \A c \in Caller :
    /\ settled # None => caller[c].op \notin {"enroll", "remove"}
    /\ settled = "removed" => caller[c].step \notin {"reread", "save"}

\* The records and images an enrollment has made up to image k, beside those it
\* is to retire.
MadeUpTo(c, k) ==
  LET a == caller[c].attempt IN
    /\ robin = a
    /\ \A i \in 1 .. k : image[i] = a
    /\ Current = caller[c].previous \cup {a} \X (1 .. k)
    /\ \A i \in Index : <<a, i>> \notin caller[c].previous

\* How far a change has come that no other call met.
ChangeHolds(c) ==
  LET a == caller[c].attempt IN
    /\ Awaits(c, "enroll", "robin") =>
         /\ Current = caller[c].previous
         /\ \A i \in Index : <<a, i>> \notin caller[c].previous
    /\ Awaits(c, "enroll", "upload") \/ Awaits(c, "enroll", "record") => MadeUpTo(c, caller[c].at - 1)
    /\ Awaits(c, "enroll", "record") => image[caller[c].at] = a
    /\ Awaits(c, "enroll", "retire") \/ Awaits(c, "enroll", "save") => MadeUpTo(c, Images)
    /\ Awaits(c, "enroll", "save") => caller[c].previous = {}
    /\ caller[c].op = "remove" /\ caller[c].step # "robin" => robin = None
    /\ Awaits(c, "remove", "save") => Current = {}

FacesInv ==
  /\ FacesTypeOK /\ CountsImages /\ AloneIsAlone /\ SettledRests
  /\ \A c \in Caller : caller[c].alone => ChangeHolds(c)
  /\ ChangesSettle

\* The fields of a call, by what it does.
LEMMA CallFields ==
  ASSUME FacesTypeOK, NEW c \in Caller
  PROVE  /\ caller[c] \in FaceCall
         /\ caller[c].op = "none" => caller[c] = Free
         /\ caller[c].step = "none" => caller[c] = Free
         /\ caller[c].op \in {"none", "enroll", "remove", "status"}
         /\ caller[c].op = "enroll" =>
              /\ caller[c].step \in {"robin", "upload", "record", "rollback", "retire", "save"}
              /\ caller[c].attempt \in Attempt /\ caller[c].previous \in SUBSET FaceRecord
              /\ caller[c].at \in 1 .. Images + 1
         /\ caller[c].op = "remove" => caller[c].step \in {"robin", "images", "records", "save"}
         /\ caller[c].op = "status" => caller[c].step \in {"robin", "reread", "save"}
         /\ caller[c].alone \in BOOLEAN
<1>1. caller[c] \in FaceCall
  BY DEF FacesTypeOK
<1>. QED
  BY <1>1 DEF FaceCall, Free

\* What a caller that does nothing is.
LEMMA FreeFields ==
  /\ Free \in FaceCall /\ Free.op = "none" /\ Free.step = "none" /\ Free.alone = TRUE
  /\ Free.at = 1
BY DEF Free, FaceCall

\* A call that takes its next step.
LEMMA CallGoes ==
  ASSUME FacesTypeOK, NEW c \in Caller, NEW step, StepsTo(c, step),
         \/ caller[c].op = "enroll" /\ step \in {"upload", "record", "retire", "save"}
         \/ caller[c].op = "remove" /\ step \in {"images", "records", "save"}
         \/ caller[c].op = "status" /\ step \in {"reread", "save"}
  PROVE  /\ caller' \in [Caller -> FaceCall] /\ caller'[c] # Free
         /\ caller'[c].step = step /\ caller'[c].op = caller[c].op
         /\ caller'[c].attempt = caller[c].attempt /\ caller'[c].at = caller[c].at
         /\ caller'[c].previous = caller[c].previous /\ caller'[c].alone = caller[c].alone
         /\ \A d \in Caller \ {c} : caller'[d] = caller[d]
<1>1. caller[c] \in FaceCall /\ caller \in [Caller -> FaceCall]
  BY DEF FacesTypeOK
<1>2. PICK next : next = [caller[c] EXCEPT !.step = step]
  OBVIOUS
<1>3. /\ next \in FaceCall /\ next # Free
      /\ next.step = step /\ next.op = caller[c].op /\ next.attempt = caller[c].attempt
      /\ next.at = caller[c].at /\ next.previous = caller[c].previous /\ next.alone = caller[c].alone
  BY <1>1, <1>2 DEF FaceCall, Free
<1>4. caller' = [caller EXCEPT ![c] = next]
  BY <1>2 DEF StepsTo
<1>. QED
  BY <1>1, <1>3, <1>4

\* A call that returns.
LEMMA CallReturns ==
  ASSUME FacesTypeOK, NEW c \in Caller, Returns(c)
  PROVE  /\ caller' \in [Caller -> FaceCall] /\ caller'[c] = Free
         /\ \A d \in Caller \ {c} : caller'[d] = caller[d]
BY FreeFields DEF FacesTypeOK, Returns

\* A call that begins: it is alone with free callers only, and leaves no other
\* that is under way alone.
LEMMA CallBegins ==
  ASSUME FacesTypeOK, NEW c \in Caller, NEW call \in FaceCall, call.op # "none", Begins(c, call)
  PROVE  /\ caller' \in [Caller -> FaceCall] /\ caller'[c] # Free
         /\ caller'[c].step = call.step /\ caller'[c].op = call.op
         /\ caller'[c].attempt = call.attempt /\ caller'[c].at = call.at
         /\ caller'[c].previous = call.previous
         /\ caller'[c].alone => \A d \in Caller \ {c} : caller'[d] = Free
         /\ \A d \in Caller \ {c} : /\ caller'[d].op = caller[d].op /\ caller'[d].step = caller[d].step
                                    /\ caller'[d].at = caller[d].at
                                    /\ caller'[d].alone => caller'[d] = Free
<1>1. PICK met : met = {d \in Caller : caller[d] # Free}
  OBVIOUS
<1>2. PICK first : first = [call EXCEPT !.alone = (met = {})]
  OBVIOUS
<1>3. /\ first \in FaceCall /\ first # Free /\ first.step = call.step /\ first.op = call.op
      /\ first.attempt = call.attempt /\ first.at = call.at /\ first.previous = call.previous
      /\ first.alone = (met = {})
  BY <1>2 DEF FaceCall, Free
<1>4. caller' = [d \in Caller |->
         IF d = c THEN first
         ELSE IF d \in met THEN [caller[d] EXCEPT !.alone = FALSE] ELSE caller[d]]
  BY <1>1, <1>2 DEF Begins
<1>5. caller'[c] = first
  BY <1>4
<1>6. ASSUME NEW d \in Caller \ {c}
      PROVE  /\ caller'[d] \in FaceCall
             /\ caller'[d].op = caller[d].op /\ caller'[d].step = caller[d].step
             /\ caller'[d].at = caller[d].at
             /\ caller'[d].alone => caller'[d] = Free
             /\ met = {} => caller'[d] = Free
  <2>1. caller[d] \in FaceCall
    BY DEF FacesTypeOK
  <2>2. CASE d \in met
    <3>1. PICK other : other = [caller[d] EXCEPT !.alone = FALSE]
      OBVIOUS
    <3>2. /\ other \in FaceCall /\ other.op = caller[d].op /\ other.step = caller[d].step
          /\ other.at = caller[d].at /\ other.alone = FALSE
      BY <1>1, <2>1, <2>2, <3>1 DEF FaceCall, Free
    <3>3. caller'[d] = other
      BY <1>4, <2>2, <3>1
    <3>. QED
      BY <2>2, <3>2, <3>3
  <2>3. CASE d \notin met
    BY <1>1, <1>4, <2>1, <2>3
  <2>. QED
    BY <2>2, <2>3
<1>7. caller' \in [Caller -> FaceCall]
  BY <1>3, <1>4, <1>5, <1>6
<1>. QED
  BY <1>3, <1>5, <1>6, <1>7

\* In the beginning nothing is enrolled, and that is settled.
LEMMA FacesInitially == FacesInit => FacesInv
<1>. SUFFICES ASSUME FacesInit PROVE FacesInv
  OBVIOUS
<1>1. \A c \in Caller : caller[c] = Free
  BY DEF FacesInit
<1>2. FacesTypeOK
  BY FreeFields, FacesAssumption DEF FacesInit, FacesTypeOK, Shown
<1>3. CountsImages /\ AloneIsAlone /\ SettledRests
  BY <1>1, FreeFields DEF CountsImages, AloneIsAlone, SettledRests, Awaits
<1>4. \A c \in Caller : ChangeHolds(c)
  BY <1>1, FreeFields DEF ChangeHolds, Awaits
<1>5. ChangesSettle
  <2>1. Current = {}
    BY DEF FacesInit, Current
  <2>. QED
    BY <2>1, FacesAssumption DEF FacesInit, ChangesSettle
<1>. QED
  BY <1>2, <1>3, <1>4, <1>5 DEF FacesInv

\* A step of a call under way: if it is alone, every other caller is free, and
\* if another is, this one is.
LEMMA CallKeeps ==
  ASSUME FacesInv, FacesTypeOK', NEW c \in Caller, caller[c] # Free,
         \A d \in Caller \ {c} : caller'[d] = caller[d],
         caller'[c] # Free => caller'[c].alone = caller[c].alone,
         caller'[c].step \in {"upload", "record"} => caller'[c].at \in Index,
         ~(caller'[c].op = "enroll" /\ caller'[c].step = "robin"),
         caller'[c] # Free /\ caller[c].alone => ChangeHolds(c)',
         \/ settled' = settled
         \/ settled' = None
         \/ caller[c].alone /\ caller'[c] = Free,
         settled' # None /\ caller'[c] # Free => caller'[c].op \notin {"enroll", "remove"},
         settled' = "removed" /\ caller'[c] # Free => caller'[c].step \notin {"reread", "save"},
         ChangesSettle'
  PROVE  FacesInv'
<1>1. \A d \in Caller \ {c} : caller[d] # Free => ~caller[d].alone
  BY DEF FacesInv, AloneIsAlone
<1>2. caller[c].alone => \A d \in Caller \ {c} : caller[d] = Free
  BY DEF FacesInv, AloneIsAlone
<1>3. CountsImages'
  BY DEF CountsImages, FacesInv, Awaits
<1>4. AloneIsAlone'
  BY <1>1, <1>2 DEF AloneIsAlone
<1>5. SettledRests'
  <2>1. ASSUME NEW d \in Caller \ {c}
        PROVE  /\ settled' # None => caller'[d].op \notin {"enroll", "remove"}
               /\ settled' = "removed" => caller'[d].step \notin {"reread", "save"}
    <3>1. CASE settled' = settled
      BY <3>1 DEF FacesInv, SettledRests
    <3>2. CASE settled' = None
      BY <3>2, FacesAssumption
    <3>3. CASE caller[c].alone
      BY <1>2, <3>3, FreeFields
    <3>. QED
      BY <3>1, <3>2, <3>3
  <2>2. /\ settled' # None => caller'[c].op \notin {"enroll", "remove"}
        /\ settled' = "removed" => caller'[c].step \notin {"reread", "save"}
    BY FreeFields
  <2>. QED
    BY <2>1, <2>2 DEF SettledRests
<1>6. ASSUME NEW d \in Caller, caller'[d].alone
      PROVE  ChangeHolds(d)'
  <2>1. CASE caller'[d] = Free
    BY <2>1, FreeFields DEF ChangeHolds, Awaits
  <2>2. CASE caller'[d] # Free
    <3>1. d = c
      BY <1>1, <1>6, <2>2
    <3>. QED
      BY <1>6, <2>2, <3>1
  <2>. QED
    BY <2>1, <2>2
<1>. QED
  BY <1>3, <1>4, <1>5, <1>6 DEF FacesInv

\* A call that begins meets those under way; what is settled rests unless it
\* is a change.
LEMMA CallsMeet ==
  ASSUME FacesInv, NEW c \in Caller, NEW call \in FaceCall, Begins(c, call),
         call.op \in {"enroll", "remove", "status"}, call.step = "robin",
         call.at = 1, UNCHANGED <<robin, image, record, enrolled>>,
         IF call.op = "status" THEN settled' = settled ELSE settled' = None,
         call.op = "enroll" =>
           /\ call.previous = Current
           /\ \A i \in Index : <<call.attempt, i>> \notin Current
  PROVE  FacesInv'
<1>1. /\ caller' \in [Caller -> FaceCall] /\ caller'[c] # Free
      /\ caller'[c].step = call.step /\ caller'[c].op = call.op
      /\ caller'[c].attempt = call.attempt /\ caller'[c].at = call.at
      /\ caller'[c].previous = call.previous
      /\ caller'[c].alone => \A d \in Caller \ {c} : caller'[d] = Free
      /\ \A d \in Caller \ {c} : /\ caller'[d].op = caller[d].op /\ caller'[d].step = caller[d].step
                                 /\ caller'[d].at = caller[d].at
                                 /\ caller'[d].alone => caller'[d] = Free
  BY CallBegins DEF FacesInv
<1>2. settled' \in {settled, None}
  OBVIOUS
<1>3. FacesTypeOK'
  BY <1>1, <1>2 DEF FacesInv, FacesTypeOK
<1>4. CountsImages'
  BY <1>1 DEF CountsImages, FacesInv, Awaits
<1>5. AloneIsAlone'
  BY <1>1 DEF AloneIsAlone
<1>6. SettledRests'
  BY <1>1, <1>2, FacesAssumption DEF SettledRests, FacesInv
<1>7. Current' = Current
  BY DEF Current
<1>8. ASSUME NEW d \in Caller, caller'[d].alone
      PROVE  ChangeHolds(d)'
  <2>1. CASE caller'[d] = Free
    BY <2>1, FreeFields DEF ChangeHolds, Awaits
  <2>2. CASE d = c
    BY <1>1, <1>7, <2>2 DEF ChangeHolds, Awaits
  <2>. QED
    BY <1>1, <1>8, <2>1, <2>2
<1>9. ChangesSettle'
  <2>1. CASE settled' = settled
    BY <1>7, <2>1 DEF FacesInv, ChangesSettle
  <2>2. CASE settled' = None
    BY <2>2, FacesAssumption DEF ChangesSettle
  <2>. QED
    BY <1>2, <2>1, <2>2
<1>. QED
  BY <1>3, <1>4, <1>5, <1>6, <1>8, <1>9 DEF FacesInv

\* While a change is under way nothing is settled.
LEMMA ChangeUnsettles ==
  ASSUME FacesInv, NEW c \in Caller, caller[c].op \in {"enroll", "remove"}
  PROVE  settled = None /\ caller[c] # Free
BY FreeFields DEF FacesInv, SettledRests

\* Where nothing is settled there is nothing to hold.
LEMMA UnsettledHolds ==
  ASSUME settled' = None
  PROVE  ChangesSettle'
BY FacesAssumption DEF ChangesSettle

\* An enrollment starts with images of its own and the records it is to retire.
LEMMA EnrollFaceKeeps ==
  ASSUME FacesInv, NEW c \in Caller, EnrollFace(c)
  PROVE  FacesInv'
<1>1. PICK a \in Attempt :
        /\ \A i \in Index : record[<<a, i>>] = "none" /\ image[i] # a
        /\ Begins(c, [op |-> "enroll", step |-> "robin", attempt |-> a, at |-> 1,
                      previous |-> Current, alone |-> TRUE])
  BY DEF EnrollFace, Previous
<1>2. PICK call : call = [op |-> "enroll", step |-> "robin", attempt |-> a, at |-> 1,
                          previous |-> Current, alone |-> TRUE]
  OBVIOUS
<1>3. /\ call \in FaceCall /\ call.op = "enroll" /\ call.step = "robin" /\ call.at = 1
      /\ call.previous = Current /\ call.attempt = a
  BY <1>2, FacesAssumption DEF FaceCall, Current
<1>4. \A i \in Index : <<call.attempt, i>> \notin Current
  BY <1>1, <1>3 DEF Current
<1>5. Begins(c, call) /\ UNCHANGED <<robin, image, record, enrolled>> /\ settled' = None
  BY <1>1, <1>2 DEF EnrollFace
<1>. QED
  BY <1>3, <1>4, <1>5, CallsMeet

\* A removal starts, and unsettles what was settled.
LEMMA RemoveEnrollmentKeeps ==
  ASSUME FacesInv, NEW c \in Caller, RemoveEnrollment(c)
  PROVE  FacesInv'
<1>1. PICK call : call = [Free EXCEPT !.op = "remove", !.step = "robin"]
  OBVIOUS
<1>2. call \in FaceCall /\ call.op = "remove" /\ call.step = "robin" /\ call.at = 1
  BY <1>1 DEF FaceCall, Free
<1>3. Begins(c, call) /\ UNCHANGED <<robin, image, record, enrolled>> /\ settled' = None
  BY <1>1 DEF RemoveEnrollment
<1>. QED
  BY <1>2, <1>3, CallsMeet

\* A status call starts, and leaves what is settled.
LEMMA GetStatusKeeps ==
  ASSUME FacesInv, NEW c \in Caller, GetEnrollmentStatus(c)
  PROVE  FacesInv'
<1>1. PICK call : call = [Free EXCEPT !.op = "status", !.step = "robin"]
  OBVIOUS
<1>2. call \in FaceCall /\ call.op = "status" /\ call.step = "robin" /\ call.at = 1
  BY <1>1 DEF FaceCall, Free
<1>3. Begins(c, call) /\ UNCHANGED <<robin, image, record, enrolled, settled>>
  BY <1>1 DEF GetEnrollmentStatus
<1>. QED
  BY <1>2, <1>3, CallsMeet

\* Robin holds the attempt's embeddings before its first image is stored.
LEMMA RobinEnrollKeeps ==
  ASSUME FacesInv, NEW c \in Caller, RobinEnroll(c)
  PROVE  FacesInv'
<1>1. caller[c].op = "enroll" /\ caller[c].step = "robin" /\ settled = None /\ caller[c] # Free
  BY ChangeUnsettles DEF RobinEnroll, Awaits
<1>2. caller[c].attempt \in Attempt /\ caller[c].at = 1
  BY <1>1, CallFields DEF FacesInv, CountsImages, Awaits
<1>3. /\ caller' \in [Caller -> FaceCall] /\ caller'[c] # Free
      /\ caller'[c].step = "upload" /\ caller'[c].op = "enroll"
      /\ caller'[c].attempt = caller[c].attempt /\ caller'[c].at = caller[c].at
      /\ caller'[c].previous = caller[c].previous /\ caller'[c].alone = caller[c].alone
      /\ \A d \in Caller \ {c} : caller'[d] = caller[d]
  BY <1>1, CallGoes DEF FacesInv, RobinEnroll
<1>4. UNCHANGED <<image, record, enrolled, settled>> /\ robin' = caller[c].attempt
  BY DEF RobinEnroll
<1>5. FacesTypeOK'
  BY <1>2, <1>3, <1>4 DEF FacesInv, FacesTypeOK
<1>6. Current' = Current
  BY <1>4 DEF Current
<1>7. caller[c].alone => ChangeHolds(c)'
  <2>1. SUFFICES ASSUME caller[c].alone
                 PROVE  ChangeHolds(c)'
    OBVIOUS
  <2>2. ChangeHolds(c)
    BY <2>1 DEF FacesInv
  <2>3. MadeUpTo(c, 0)'
    <3>1. 1 .. 0 = {}
      OBVIOUS
    <3>. QED
      BY <1>1, <1>3, <1>4, <1>6, <2>2, <3>1 DEF MadeUpTo, ChangeHolds, Awaits
  <2>. QED
    BY <1>2, <1>3, <2>3 DEF ChangeHolds, Awaits
<1>8. caller'[c].at \in Index
  BY <1>2, <1>3, FacesAssumption DEF Index
<1>. QED
  BY <1>1, <1>3, <1>4, <1>5, <1>7, <1>8, UnsettledHolds, FacesAssumption, CallKeeps

\* An image is stored over the previous one, past those already made.
LEMMA UploadImageKeeps ==
  ASSUME FacesInv, NEW c \in Caller, UploadImage(c)
  PROVE  FacesInv'
<1>1. caller[c].op = "enroll" /\ caller[c].step = "upload" /\ settled = None /\ caller[c] # Free
  BY ChangeUnsettles DEF UploadImage, Awaits
<1>2. caller[c].attempt \in Attempt /\ caller[c].at \in Index
  BY <1>1, CallFields DEF FacesInv, CountsImages
<1>3. /\ caller' \in [Caller -> FaceCall] /\ caller'[c] # Free
      /\ caller'[c].step = "record" /\ caller'[c].op = "enroll"
      /\ caller'[c].attempt = caller[c].attempt /\ caller'[c].at = caller[c].at
      /\ caller'[c].previous = caller[c].previous /\ caller'[c].alone = caller[c].alone
      /\ \A d \in Caller \ {c} : caller'[d] = caller[d]
  BY <1>1, CallGoes DEF FacesInv, UploadImage
<1>4. /\ UNCHANGED <<robin, record, enrolled, settled>>
      /\ image' = [image EXCEPT ![caller[c].at] = caller[c].attempt]
  BY DEF UploadImage
<1>5. /\ image' \in [Index -> Attempt \cup {None}] /\ image'[caller[c].at] = caller[c].attempt
      /\ \A i \in Index \ {caller[c].at} : image'[i] = image[i]
  BY <1>2, <1>4 DEF FacesInv, FacesTypeOK
<1>6. FacesTypeOK'
  BY <1>3, <1>4, <1>5 DEF FacesInv, FacesTypeOK
<1>7. Current' = Current
  BY <1>4 DEF Current
<1>8. caller[c].alone => ChangeHolds(c)'
  <2>1. SUFFICES ASSUME caller[c].alone
                 PROVE  ChangeHolds(c)'
    OBVIOUS
  <2>2. MadeUpTo(c, caller[c].at - 1)
    BY <1>1, <2>1 DEF FacesInv, ChangeHolds, Awaits
  <2>3. PICK k : k = caller[c].at - 1
    OBVIOUS
  <2>4. \A i \in 1 .. k : i \in Index \ {caller[c].at}
    BY <1>2, <2>3, FacesAssumption DEF Index
  <2>5. MadeUpTo(c, k)'
    BY <1>3, <1>4, <1>5, <1>7, <2>2, <2>3, <2>4 DEF MadeUpTo
  <2>6. caller'[c].at - 1 = k
    BY <1>3, <2>3
  <2>. QED
    BY <1>3, <1>5, <2>5, <2>6 DEF ChangeHolds, Awaits
<1>. QED
  BY <1>1, <1>2, <1>3, <1>4, <1>6, <1>8, UnsettledHolds, FacesAssumption, CallKeeps

\* The record of the image just stored makes one more image complete.
LEMMA CreateImageRecordKeeps ==
  ASSUME FacesInv, NEW c \in Caller, CreateImageRecord(c)
  PROVE  FacesInv'
<1>1. caller[c].op = "enroll" /\ caller[c].step = "record" /\ settled = None /\ caller[c] # Free
  BY ChangeUnsettles DEF CreateImageRecord, Awaits
<1>2. PICK a \in Attempt, k \in Index : a = caller[c].attempt /\ k = caller[c].at
  BY <1>1, CallFields DEF FacesInv, CountsImages
<1>3. k \in 1 .. Images /\ Images \in Nat
  BY FacesAssumption DEF Index
<1>4. PICK next : next = [caller[c] EXCEPT !.at = k + 1, !.step = IF k = Images THEN "retire" ELSE "upload"]
  OBVIOUS
<1>5. caller[c] \in FaceCall
  BY CallFields DEF FacesInv
<1>6. /\ next \in FaceCall /\ next # Free /\ next.op = "enroll" /\ next.attempt = a
      /\ next.at = k + 1 /\ next.previous = caller[c].previous /\ next.alone = caller[c].alone
      /\ next.step = IF k = Images THEN "retire" ELSE "upload"
  <2>1. PICK step : step = IF k = Images THEN "retire" ELSE "upload"
    OBVIOUS
  <2>2. caller[c] \in [op : {"enroll"},
                       step : {"robin", "upload", "record", "rollback", "retire", "save"},
                       attempt : Attempt, at : 1 .. Images + 1, previous : SUBSET FaceRecord,
                       alone : BOOLEAN]
    BY <1>1, <1>5 DEF FaceCall
  <2>3. next = [caller[c] EXCEPT !.at = k + 1, !.step = step]
    BY <1>4, <2>1
  <2>4. k + 1 \in 1 .. Images + 1 /\ step \in {"upload", "retire"}
    BY <1>3, <2>1
  <2>5. /\ next \in [op : {"enroll"},
                     step : {"robin", "upload", "record", "rollback", "retire", "save"},
                     attempt : Attempt, at : 1 .. Images + 1, previous : SUBSET FaceRecord,
                     alone : BOOLEAN]
        /\ next.op = "enroll" /\ next.attempt = a /\ next.at = k + 1 /\ next.step = step
        /\ next.previous = caller[c].previous /\ next.alone = caller[c].alone
    BY <1>2, <2>2, <2>3, <2>4
  <2>. QED
    BY <2>1, <2>5, FreeFields DEF FaceCall
<1>7. caller' = [caller EXCEPT ![c] = next]
  BY <1>2, <1>4 DEF CreateImageRecord
<1>8. /\ caller' \in [Caller -> FaceCall] /\ caller'[c] = next
      /\ \A d \in Caller \ {c} : caller'[d] = caller[d]
  BY <1>6, <1>7 DEF FacesInv, FacesTypeOK
<1>9. /\ UNCHANGED <<robin, image, enrolled, settled>>
      /\ record' = [record EXCEPT ![<<a, k>>] = "available"]
  BY <1>2 DEF CreateImageRecord
<1>10. <<a, k>> \in FaceRecord
  BY DEF FaceRecord
<1>11. FacesTypeOK'
  BY <1>8, <1>9, <1>10 DEF FacesInv, FacesTypeOK
<1>12. Current' = Current \cup {<<a, k>>}
  BY <1>9, <1>10 DEF Current, FacesInv, FacesTypeOK
<1>13. caller[c].alone => ChangeHolds(c)'
  <2>1. SUFFICES ASSUME caller[c].alone
                 PROVE  ChangeHolds(c)'
    OBVIOUS
  <2>2. MadeUpTo(c, k - 1) /\ image[k] = a
    BY <1>1, <1>2, <2>1 DEF FacesInv, ChangeHolds, Awaits
  <2>3. 1 .. k = (1 .. k - 1) \cup {k}
    BY <1>3
  <2>4. {a} \X (1 .. k) = ({a} \X (1 .. k - 1)) \cup {<<a, k>>}
    BY <2>3
  <2>5. /\ robin = a /\ \A i \in 1 .. k - 1 : image[i] = a
        /\ Current = caller[c].previous \cup ({a} \X (1 .. k - 1))
        /\ \A i \in Index : <<a, i>> \notin caller[c].previous
    BY <1>2, <2>2 DEF MadeUpTo
  <2>6. MadeUpTo(c, k)'
    BY <1>6, <1>8, <1>9, <1>12, <2>2, <2>3, <2>4, <2>5 DEF MadeUpTo
  <2>7. CASE k = Images
    BY <1>6, <1>8, <2>6, <2>7 DEF ChangeHolds, Awaits
  <2>8. CASE k # Images
    <3>1. caller'[c].at - 1 = k
      BY <1>3, <1>6, <1>8
    <3>. QED
      BY <1>6, <1>8, <2>6, <2>8, <3>1 DEF ChangeHolds, Awaits
  <2>. QED
    BY <2>7, <2>8
<1>14. caller'[c].step \in {"upload", "record"} => caller'[c].at \in Index
  BY <1>3, <1>6, <1>8 DEF Index
<1>15. caller'[c].step # "robin"
  BY <1>6, <1>8
<1>. QED
  BY <1>1, <1>6, <1>8, <1>9, <1>11, <1>13, <1>14, <1>15, UnsettledHolds, FacesAssumption, CallKeeps

\* Records are retired that the attempt found, never those it made.
LEMMA RetireRecordKeeps ==
  ASSUME FacesInv, NEW c \in Caller, RetireRecord(c)
  PROVE  FacesInv'
<1>1. caller[c].op = "enroll" /\ caller[c].step = "retire" /\ settled = None /\ caller[c] # Free
  BY ChangeUnsettles DEF RetireRecord, Awaits
<1>2. UNCHANGED <<robin, image, enrolled, settled>>
  BY DEF RetireRecord
<1>3. caller[c].alone => MadeUpTo(c, Images)
  BY <1>1 DEF FacesInv, ChangeHolds, Awaits
<1>4. CASE caller[c].previous = {}
  <2>1. /\ caller' \in [Caller -> FaceCall] /\ caller'[c] # Free
        /\ caller'[c].step = "save" /\ caller'[c].op = "enroll"
        /\ caller'[c].attempt = caller[c].attempt /\ caller'[c].at = caller[c].at
        /\ caller'[c].previous = caller[c].previous /\ caller'[c].alone = caller[c].alone
        /\ \A d \in Caller \ {c} : caller'[d] = caller[d]
    BY <1>1, <1>4, CallGoes DEF FacesInv, RetireRecord
  <2>2. UNCHANGED record
    BY <1>4 DEF RetireRecord
  <2>3. FacesTypeOK'
    BY <1>2, <2>1, <2>2 DEF FacesInv, FacesTypeOK
  <2>4. Current' = Current
    BY <2>2 DEF Current
  <2>5. caller[c].alone => MadeUpTo(c, Images)'
    BY <1>2, <1>3, <2>1, <2>4 DEF MadeUpTo
  <2>6. caller[c].alone => ChangeHolds(c)'
    BY <1>4, <2>1, <2>5 DEF ChangeHolds, Awaits
  <2>. QED
    BY <1>1, <1>2, <2>1, <2>3, <2>6, UnsettledHolds, FacesAssumption, CallKeeps
<1>5. CASE caller[c].previous # {}
  <2>1. PICK r \in caller[c].previous :
          /\ record' = [record EXCEPT ![r] = "deleted"]
          /\ caller' = [caller EXCEPT ![c].previous = @ \ {r}]
    BY <1>5 DEF RetireRecord
  <2>2. PICK next : next = [caller[c] EXCEPT !.previous = @ \ {r}]
    OBVIOUS
  <2>3. caller[c] \in FaceCall /\ r \in FaceRecord
    BY <1>1, CallFields DEF FacesInv
  <2>4. /\ next \in FaceCall /\ next # Free /\ next.op = "enroll" /\ next.step = "retire"
        /\ next.attempt = caller[c].attempt /\ next.alone = caller[c].alone
        /\ next.previous = caller[c].previous \ {r}
    BY <1>1, <2>2, <2>3 DEF FaceCall, Free
  <2>5. caller' = [caller EXCEPT ![c] = next]
    BY <2>1, <2>2
  <2>6. /\ caller' \in [Caller -> FaceCall] /\ caller'[c] = next
        /\ \A d \in Caller \ {c} : caller'[d] = caller[d]
    BY <2>4, <2>5 DEF FacesInv, FacesTypeOK
  <2>7. FacesTypeOK'
    BY <1>2, <2>1, <2>3, <2>6 DEF FacesInv, FacesTypeOK
  <2>8. Current' = Current \ {r}
    BY <2>1, <2>3 DEF Current, FacesInv, FacesTypeOK
  <2>9. caller[c].alone => MadeUpTo(c, Images)'
    <3>1. SUFFICES ASSUME caller[c].alone
                   PROVE  MadeUpTo(c, Images)'
      OBVIOUS
    <3>2. PICK a : a = caller[c].attempt
      OBVIOUS
    <3>3. /\ robin = a /\ \A i \in 1 .. Images : image[i] = a
          /\ Current = caller[c].previous \cup ({a} \X (1 .. Images))
          /\ \A i \in Index : <<a, i>> \notin caller[c].previous
      BY <1>3, <3>1, <3>2 DEF MadeUpTo
    <3>4. r \notin {a} \X (1 .. Images)
      BY <3>3 DEF Index
    <3>5. Current' = (caller[c].previous \ {r}) \cup ({a} \X (1 .. Images))
      BY <2>8, <3>3, <3>4
    <3>. QED
      BY <1>2, <2>4, <2>6, <3>2, <3>3, <3>5 DEF MadeUpTo
  <2>10. caller[c].alone => ChangeHolds(c)'
    BY <2>4, <2>6, <2>9 DEF ChangeHolds, Awaits
  <2>11. caller'[c].step = "retire"
    BY <2>4, <2>6
  <2>. QED
    BY <1>1, <1>2, <2>4, <2>6, <2>7, <2>10, <2>11, UnsettledHolds, FacesAssumption, CallKeeps
<1>. QED
  BY <1>4, <1>5

\* An enrollment that no other call met leaves the three services as it made them.
LEMMA SaveEnrolledKeeps ==
  ASSUME FacesInv, NEW c \in Caller, SaveEnrolled(c)
  PROVE  FacesInv'
<1>1. caller[c].op = "enroll" /\ caller[c].step = "save" /\ settled = None /\ caller[c] # Free
  BY ChangeUnsettles DEF SaveEnrolled, Awaits
<1>2. PICK a \in Attempt : a = caller[c].attempt
  BY <1>1, CallFields DEF FacesInv
<1>3. /\ caller' \in [Caller -> FaceCall] /\ caller'[c] = Free
      /\ \A d \in Caller \ {c} : caller'[d] = caller[d]
  BY CallReturns DEF FacesInv, SaveEnrolled, Completes
<1>4. /\ UNCHANGED <<robin, image, record>> /\ enrolled' = "enrolled"
      /\ settled' = IF caller[c].alone THEN a ELSE None
  BY <1>2 DEF SaveEnrolled, Completes
<1>5. FacesTypeOK'
  BY <1>3, <1>4 DEF FacesInv, FacesTypeOK, Shown
<1>6. Current' = Current
  BY <1>4 DEF Current
<1>7. a # "removed" /\ a # None
  BY FacesAssumption
<1>8. ChangesSettle'
  <2>1. CASE caller[c].alone
    <3>1. MadeUpTo(c, Images) /\ caller[c].previous = {}
      BY <1>1, <2>1 DEF FacesInv, ChangeHolds, Awaits
    <3>2. robin = a /\ (\A i \in Index : image[i] = a) /\ Current = {a} \X Index
      BY <1>2, <3>1 DEF MadeUpTo, Index
    <3>. QED
      BY <1>4, <1>6, <1>7, <2>1, <3>2 DEF ChangesSettle
  <2>2. CASE ~caller[c].alone
    BY <1>4, <2>2, UnsettledHolds
  <2>. QED
    BY <2>1, <2>2
<1>. QED
  BY <1>1, <1>3, <1>4, <1>5, <1>8, FreeFields, FacesAssumption, CallKeeps

\* An attempt that fails on the way has settled nothing.
LEMMA UploadFailsKeeps ==
  ASSUME FacesInv, NEW c \in Caller, UploadFails(c)
  PROVE  FacesInv'
<1>1. caller[c].op = "enroll" /\ settled = None /\ caller[c] # Free
  BY ChangeUnsettles DEF UploadFails, Awaits
<1>2. PICK next : next = [caller[c] EXCEPT !.step = "rollback", !.at = 1]
  OBVIOUS
<1>3. caller[c] \in [op : {"enroll"},
                     step : {"robin", "upload", "record", "rollback", "retire", "save"},
                     attempt : Attempt, at : 1 .. Images + 1, previous : SUBSET FaceRecord,
                     alone : BOOLEAN]
  BY <1>1, CallFields DEF FacesInv, FaceCall
<1>4. 1 \in 1 .. Images + 1
  BY FacesAssumption
<1>5. /\ next \in [op : {"enroll"},
                   step : {"robin", "upload", "record", "rollback", "retire", "save"},
                   attempt : Attempt, at : 1 .. Images + 1, previous : SUBSET FaceRecord,
                   alone : BOOLEAN]
      /\ next.op = "enroll" /\ next.step = "rollback" /\ next.alone = caller[c].alone
  BY <1>2, <1>3, <1>4
<1>6. next \in FaceCall /\ next # Free
  BY <1>5, FreeFields DEF FaceCall
<1>7. caller' = [caller EXCEPT ![c] = next] /\ UNCHANGED <<robin, image, record, enrolled, settled>>
  BY <1>2 DEF UploadFails
<1>8. /\ caller' \in [Caller -> FaceCall] /\ caller'[c] = next
      /\ \A d \in Caller \ {c} : caller'[d] = caller[d]
  BY <1>6, <1>7 DEF FacesInv, FacesTypeOK
<1>9. FacesTypeOK'
  BY <1>7, <1>8 DEF FacesInv, FacesTypeOK
<1>10. ChangeHolds(c)'
  BY <1>5, <1>8 DEF ChangeHolds, Awaits
<1>11. caller'[c].step = "rollback"
  BY <1>5, <1>8
<1>. QED
  BY <1>1, <1>5, <1>7, <1>8, <1>9, <1>10, <1>11, UnsettledHolds, FacesAssumption, CallKeeps

\* Nor does it while it undoes what it made.
LEMMA RollbackKeeps ==
  ASSUME FacesInv, NEW c \in Caller, Rollback(c)
  PROVE  FacesInv'
<1>1. caller[c].op = "enroll" /\ caller[c].step = "rollback" /\ settled = None /\ caller[c] # Free
  BY ChangeUnsettles DEF Rollback, Awaits
<1>2. PICK a \in Attempt, k \in 1 .. Images + 1 : a = caller[c].attempt /\ k = caller[c].at
  BY <1>1, CallFields DEF FacesInv
<1>3. UNCHANGED <<robin, image, enrolled, settled>>
  BY DEF Rollback
<1>4. CASE k > Images \/ record[<<a, k>>] = "none"
  <2>1. Returns(c) /\ UNCHANGED record
    BY <1>2, <1>4 DEF Rollback
  <2>2. /\ caller' \in [Caller -> FaceCall] /\ caller'[c] = Free
        /\ \A d \in Caller \ {c} : caller'[d] = caller[d]
    BY <2>1, CallReturns DEF FacesInv
  <2>3. FacesTypeOK'
    BY <1>3, <2>1, <2>2 DEF FacesInv, FacesTypeOK
  <2>. QED
    BY <1>1, <1>3, <2>2, <2>3, UnsettledHolds, FreeFields, FacesAssumption, CallKeeps
<1>5. CASE ~(k > Images \/ record[<<a, k>>] = "none")
  <2>1. k \in Index /\ <<a, k>> \in FaceRecord /\ k + 1 \in 1 .. Images + 1
    BY <1>5, FacesAssumption DEF Index, FaceRecord
  <2>2. /\ record' \in {record, [record EXCEPT ![<<a, k>>] = "deleted"]}
        /\ caller' = [caller EXCEPT ![c].at = @ + 1]
    BY <1>2, <1>5 DEF Rollback
  <2>3. PICK next : next = [caller[c] EXCEPT !.at = k + 1]
    OBVIOUS
  <2>4. caller[c] \in [op : {"enroll"},
                       step : {"robin", "upload", "record", "rollback", "retire", "save"},
                       attempt : Attempt, at : 1 .. Images + 1, previous : SUBSET FaceRecord,
                       alone : BOOLEAN]
    BY <1>1, CallFields DEF FacesInv, FaceCall
  <2>5. /\ next \in [op : {"enroll"},
                     step : {"robin", "upload", "record", "rollback", "retire", "save"},
                     attempt : Attempt, at : 1 .. Images + 1, previous : SUBSET FaceRecord,
                     alone : BOOLEAN]
        /\ next.op = "enroll" /\ next.step = "rollback" /\ next.alone = caller[c].alone
    BY <1>1, <2>1, <2>3, <2>4
  <2>6. next \in FaceCall /\ next # Free
    BY <2>5, FreeFields DEF FaceCall
  <2>7. caller' = [caller EXCEPT ![c] = next]
    BY <1>2, <2>2, <2>3
  <2>8. /\ caller' \in [Caller -> FaceCall] /\ caller'[c] = next
        /\ \A d \in Caller \ {c} : caller'[d] = caller[d]
    BY <2>6, <2>7 DEF FacesInv, FacesTypeOK
  <2>9. record' \in [FaceRecord -> {"none", "available", "deleted"}]
    BY <2>1, <2>2 DEF FacesInv, FacesTypeOK
  <2>10. FacesTypeOK'
    BY <1>3, <2>8, <2>9 DEF FacesInv, FacesTypeOK
  <2>11. ChangeHolds(c)'
    BY <2>5, <2>8 DEF ChangeHolds, Awaits
  <2>12. caller'[c].step = "rollback"
    BY <2>5, <2>8
  <2>. QED
    BY <1>1, <1>3, <2>5, <2>8, <2>10, <2>11, <2>12, UnsettledHolds, FacesAssumption, CallKeeps
<1>. QED
  BY <1>4, <1>5

\* A removal has Robin forget the embeddings first, ...
LEMMA RobinDeleteKeeps ==
  ASSUME FacesInv, NEW c \in Caller, RobinDelete(c)
  PROVE  FacesInv'
<1>1. caller[c].op = "remove" /\ settled = None /\ caller[c] # Free
  BY ChangeUnsettles DEF RobinDelete, Awaits
<1>2. /\ caller' \in [Caller -> FaceCall] /\ caller'[c] # Free
      /\ caller'[c].step = "images" /\ caller'[c].op = "remove" /\ caller'[c].alone = caller[c].alone
      /\ \A d \in Caller \ {c} : caller'[d] = caller[d]
  BY <1>1, CallGoes DEF FacesInv, RobinDelete
<1>3. UNCHANGED <<image, record, enrolled, settled>> /\ robin' = None
  BY DEF RobinDelete
<1>4. FacesTypeOK'
  BY <1>2, <1>3 DEF FacesInv, FacesTypeOK
<1>5. ChangeHolds(c)'
  BY <1>2, <1>3 DEF ChangeHolds, Awaits
<1>. QED
  BY <1>1, <1>2, <1>3, <1>4, <1>5, UnsettledHolds, FacesAssumption, CallKeeps

\* ... deletes the images, as far as that succeeds, ...
LEMMA DeleteImagesKeeps ==
  ASSUME FacesInv, NEW c \in Caller, DeleteImages(c)
  PROVE  FacesInv'
<1>1. caller[c].op = "remove" /\ caller[c].step = "images" /\ settled = None /\ caller[c] # Free
  BY ChangeUnsettles DEF DeleteImages, Awaits
<1>2. /\ caller' \in [Caller -> FaceCall] /\ caller'[c] # Free
      /\ caller'[c].step = "records" /\ caller'[c].op = "remove" /\ caller'[c].alone = caller[c].alone
      /\ \A d \in Caller \ {c} : caller'[d] = caller[d]
  BY <1>1, CallGoes DEF FacesInv, DeleteImages
<1>3. UNCHANGED <<robin, record, enrolled, settled>>
  BY DEF DeleteImages
<1>4. image' \in [Index -> Attempt \cup {None}]
  BY DEF DeleteImages, FacesInv, FacesTypeOK
<1>5. FacesTypeOK'
  BY <1>2, <1>3, <1>4 DEF FacesInv, FacesTypeOK
<1>6. caller[c].alone => ChangeHolds(c)'
  BY <1>1, <1>2, <1>3 DEF FacesInv, ChangeHolds, Awaits
<1>. QED
  BY <1>1, <1>2, <1>3, <1>5, <1>6, UnsettledHolds, FacesAssumption, CallKeeps

\* ... and all current records, ...
LEMMA DeleteRecordsKeeps ==
  ASSUME FacesInv, NEW c \in Caller, DeleteRecords(c)
  PROVE  FacesInv'
<1>1. caller[c].op = "remove" /\ caller[c].step = "records" /\ settled = None /\ caller[c] # Free
  BY ChangeUnsettles DEF DeleteRecords, Awaits
<1>2. /\ caller' \in [Caller -> FaceCall] /\ caller'[c] # Free
      /\ caller'[c].step = "save" /\ caller'[c].op = "remove" /\ caller'[c].alone = caller[c].alone
      /\ \A d \in Caller \ {c} : caller'[d] = caller[d]
  BY <1>1, CallGoes DEF FacesInv, DeleteRecords
<1>3. UNCHANGED <<robin, image, enrolled, settled>>
  BY DEF DeleteRecords
<1>4. /\ record' \in [FaceRecord -> {"none", "available", "deleted"}]
      /\ \A r \in FaceRecord : record'[r] # "available"
  BY DEF DeleteRecords, Current, FacesInv, FacesTypeOK
<1>5. FacesTypeOK'
  BY <1>2, <1>3, <1>4 DEF FacesInv, FacesTypeOK
<1>6. Current' = {}
  BY <1>4 DEF Current
<1>7. caller[c].alone => ChangeHolds(c)'
  BY <1>1, <1>2, <1>3, <1>6 DEF FacesInv, ChangeHolds, Awaits
<1>. QED
  BY <1>1, <1>2, <1>3, <1>5, <1>7, UnsettledHolds, FacesAssumption, CallKeeps

\* ... and settles the removal if no other call met it.
LEMMA SaveRemovedKeeps ==
  ASSUME FacesInv, NEW c \in Caller, SaveRemoved(c)
  PROVE  FacesInv'
<1>1. caller[c].op = "remove" /\ caller[c].step = "save" /\ settled = None /\ caller[c] # Free
  BY ChangeUnsettles DEF SaveRemoved, Awaits
<1>2. /\ caller' \in [Caller -> FaceCall] /\ caller'[c] = Free
      /\ \A d \in Caller \ {c} : caller'[d] = caller[d]
  BY CallReturns DEF FacesInv, SaveRemoved, Completes
<1>3. /\ UNCHANGED <<robin, image, record>> /\ enrolled' \in {"none", "not_enrolled"}
      /\ settled' = IF caller[c].alone THEN "removed" ELSE None
  BY DEF SaveRemoved, Completes
<1>4. FacesTypeOK'
  BY <1>2, <1>3 DEF FacesInv, FacesTypeOK, Shown
<1>5. Current' = Current
  BY <1>3 DEF Current
<1>6. ChangesSettle'
  <2>1. CASE caller[c].alone
    <3>1. robin = None /\ Current = {}
      BY <1>1, <2>1 DEF FacesInv, ChangeHolds, Awaits
    <3>. QED
      BY <1>3, <1>5, <2>1, <3>1, FacesAssumption DEF ChangesSettle
  <2>2. CASE ~caller[c].alone
    BY <1>3, <2>2, UnsettledHolds
  <2>. QED
    BY <2>1, <2>2
<1>. QED
  BY <1>1, <1>2, <1>3, <1>4, <1>6, FreeFields, FacesAssumption, CallKeeps

\* A call that answers, or one for the status that Robin knows of, changes
\* nothing else.
LEMMA AnswerKeeps ==
  ASSUME FacesInv, NEW c \in Caller, caller[c] # Free, Returns(c),
         UNCHANGED <<robin, image, record, enrolled, settled>>
  PROVE  FacesInv'
<1>1. /\ caller' \in [Caller -> FaceCall] /\ caller'[c] = Free
      /\ \A d \in Caller \ {c} : caller'[d] = caller[d]
  BY CallReturns DEF FacesInv
<1>2. FacesTypeOK'
  BY <1>1 DEF FacesInv, FacesTypeOK
<1>3. ChangesSettle'
  BY DEF FacesInv, ChangesSettle, Current
<1>. QED
  BY <1>1, <1>2, <1>3, FreeFields, CallKeeps

\* A status call goes on only while no removal is settled.
LEMMA StatusGoesOn ==
  ASSUME FacesInv, NEW c \in Caller, NEW step \in {"reread", "save"},
         caller[c].op = "status", StepsTo(c, step), settled # "removed",
         UNCHANGED <<robin, image, record, enrolled, settled>>
  PROVE  FacesInv'
<1>1. /\ caller' \in [Caller -> FaceCall] /\ caller'[c] # Free
      /\ caller'[c].step = step /\ caller'[c].op = "status" /\ caller'[c].alone = caller[c].alone
      /\ \A d \in Caller \ {c} : caller'[d] = caller[d]
  BY CallGoes DEF FacesInv
<1>2. FacesTypeOK'
  BY <1>1 DEF FacesInv, FacesTypeOK
<1>3. ChangesSettle'
  BY DEF FacesInv, ChangesSettle, Current
<1>4. ChangeHolds(c)'
  BY <1>1 DEF ChangeHolds, Awaits
<1>. QED
  BY <1>1, <1>2, <1>3, <1>4, FreeFields, CallKeeps

\* Robin still knows of an enrollment, so none was removed by a change that
\* ran alone.
LEMMA RobinStatusKeeps ==
  ASSUME FacesInv, NEW c \in Caller, RobinStatus(c)
  PROVE  FacesInv'
<1>1. caller[c].op = "status" /\ caller[c] # Free
  BY FreeFields DEF RobinStatus, Awaits
<1>2. CASE robin # None
  <2>1. settled # "removed"
    BY <1>2 DEF FacesInv, ChangesSettle
  <2>. QED
    BY <1>1, <1>2, <2>1, StatusGoesOn DEF RobinStatus
<1>3. CASE robin = None
  BY <1>1, <1>3, AnswerKeeps DEF RobinStatus
<1>. QED
  BY <1>2, <1>3

\* Reading the state again keeps that so.
LEMMA RereadStatusKeeps ==
  ASSUME FacesInv, NEW c \in Caller, RereadStatus(c)
  PROVE  FacesInv'
<1>1. caller[c].op = "status" /\ caller[c].step = "reread" /\ caller[c] # Free
  BY FreeFields DEF RereadStatus, Awaits
<1>2. settled # "removed"
  BY <1>1 DEF FacesInv, SettledRests
<1>. QED
  BY <1>1, <1>2, StatusGoesOn, AnswerKeeps DEF RereadStatus

\* The state that a status call saves is the one that is settled, if any is.
LEMMA AdoptStatusKeeps ==
  ASSUME FacesInv, NEW c \in Caller, AdoptStatus(c)
  PROVE  FacesInv'
<1>1. caller[c].op = "status" /\ caller[c].step = "save" /\ caller[c] # Free
  BY FreeFields DEF AdoptStatus, Awaits
<1>2. settled # "removed"
  BY <1>1 DEF FacesInv, SettledRests
<1>3. /\ caller' \in [Caller -> FaceCall] /\ caller'[c] = Free
      /\ \A d \in Caller \ {c} : caller'[d] = caller[d]
  BY CallReturns DEF FacesInv, AdoptStatus
<1>4. UNCHANGED <<robin, image, record, settled>> /\ enrolled' = "enrolled"
  BY DEF AdoptStatus
<1>5. FacesTypeOK'
  BY <1>3, <1>4 DEF FacesInv, FacesTypeOK, Shown
<1>6. Current' = Current
  BY <1>4 DEF Current
<1>7. ChangesSettle'
  BY <1>2, <1>4, <1>6 DEF FacesInv, ChangesSettle
<1>. QED
  BY <1>1, <1>3, <1>4, <1>5, <1>7, FreeFields, CallKeeps

\* A call that breaks off may have changed what Robin holds, but only while
\* nothing is settled.
LEMMA CallBreaksOffKeeps ==
  ASSUME FacesInv, NEW c \in Caller, CallBreaksOff(c)
  PROVE  FacesInv'
<1>1. caller[c] # Free /\ Returns(c) /\ UNCHANGED <<image, record, enrolled, settled>>
  BY DEF CallBreaksOff
<1>2. CASE robin' = robin
  BY <1>1, <1>2, AnswerKeeps
<1>3. CASE robin' # robin
  <2>1. caller[c].op \in {"enroll", "remove"} /\ robin' \in {caller[c].attempt, None}
        /\ (robin' # None => caller[c].op = "enroll")
    <3>1. robin' \in (CASE Awaits(c, "enroll", "robin") -> {caller[c].attempt}
                        [] Awaits(c, "remove", "robin") -> {None}
                        [] OTHER -> {})
      BY <1>3 DEF CallBreaksOff
    <3>2. CASE Awaits(c, "enroll", "robin")
      <4>1. ~Awaits(c, "remove", "robin")
        BY <3>2 DEF Awaits
      <4>. QED
        BY <3>1, <3>2, <4>1 DEF Awaits
    <3>3. CASE Awaits(c, "remove", "robin")
      <4>1. ~Awaits(c, "enroll", "robin")
        BY <3>3 DEF Awaits
      <4>. QED
        BY <3>1, <3>3, <4>1 DEF Awaits
    <3>. QED
      BY <3>1, <3>2, <3>3
  <2>2. settled = None
    BY <2>1, ChangeUnsettles
  <2>3. robin' \in Attempt \cup {None}
    BY <2>1, CallFields DEF FacesInv
  <2>4. /\ caller' \in [Caller -> FaceCall] /\ caller'[c] = Free
        /\ \A d \in Caller \ {c} : caller'[d] = caller[d]
    BY <1>1, CallReturns DEF FacesInv
  <2>5. FacesTypeOK'
    BY <1>1, <2>3, <2>4 DEF FacesInv, FacesTypeOK
  <2>. QED
    BY <1>1, <2>2, <2>4, <2>5, UnsettledHolds, FreeFields, CallKeeps
<1>. QED
  BY <1>2, <1>3

\* Every step keeps what is known of the enrollment.
LEMMA FacesStep == FacesInv /\ [FacesNext]_faceVars => FacesInv'
<1>. SUFFICES ASSUME FacesInv, [FacesNext]_faceVars
              PROVE  FacesInv'
  OBVIOUS
<1>1. ASSUME NEW c \in Caller,
             \/ EnrollFace(c) \/ RobinEnroll(c) \/ UploadImage(c) \/ CreateImageRecord(c)
             \/ RetireRecord(c) \/ SaveEnrolled(c) \/ UploadFails(c) \/ Rollback(c)
             \/ RemoveEnrollment(c) \/ RobinDelete(c) \/ DeleteImages(c) \/ DeleteRecords(c)
             \/ SaveRemoved(c) \/ GetEnrollmentStatus(c) \/ RobinStatus(c) \/ RereadStatus(c)
             \/ AdoptStatus(c) \/ CallBreaksOff(c)
      PROVE  FacesInv'
  BY <1>1, EnrollFaceKeeps, RobinEnrollKeeps, UploadImageKeeps, CreateImageRecordKeeps,
     RetireRecordKeeps, SaveEnrolledKeeps, UploadFailsKeeps, RollbackKeeps, RemoveEnrollmentKeeps,
     RobinDeleteKeeps, DeleteImagesKeeps, DeleteRecordsKeeps, SaveRemovedKeeps, GetStatusKeeps,
     RobinStatusKeeps, RereadStatusKeeps, AdoptStatusKeeps, CallBreaksOffKeeps
<1>2. CASE UNCHANGED faceVars
  <2>1. UNCHANGED <<robin, image, record, enrolled, caller, settled>>
    BY <1>2 DEF faceVars
  <2>2. FacesTypeOK' /\ CountsImages' /\ AloneIsAlone' /\ SettledRests'
    BY <2>1 DEF FacesInv, FacesTypeOK, CountsImages, AloneIsAlone, SettledRests, Awaits
  <2>3. Current' = Current
    BY <2>1 DEF Current
  <2>4. \A c \in Caller : caller'[c].alone => ChangeHolds(c)'
    BY <2>1, <2>3 DEF FacesInv, ChangeHolds, MadeUpTo, Awaits
  <2>5. ChangesSettle'
    BY <2>1, <2>3 DEF FacesInv, ChangesSettle
  <2>. QED
    BY <2>2, <2>4, <2>5 DEF FacesInv
<1>. QED
  BY <1>1, <1>2 DEF FacesNext

-----------------------------------------------------------------------------
(* The rate limiter.                                                        *)

\* The number of the request before the first that Redis counts with the
\* present counter; an instance's list counts all.
Base == IF backend = "redis" THEN Len(served) - seq ELSE 0

KeyOf(host) == IF backend = "redis" THEN InRedis ELSE host

ScoreOf(j) == served[j].at + ahead[served[j].host]

\* Every hit is of a request of its key.
HitsAreRequests ==
  \A k \in Host \cup {InRedis} : \A hit \in window[k] :
    /\ hit[2] + Base \in DOMAIN served
    /\ hit[1] = ScoreOf(hit[2] + Base)
    /\ KeyOf(served[hit[2] + Base].host) = k

\* Every request that some instance would still count has its hit.
RequestsAreHits ==
  \A j \in DOMAIN served : served[j].at > instant + MaxSkew - Window =>
    j > Base /\ <<ScoreOf(j), j - Base>> \in window[KeyOf(served[j].host)]

\* Requests are in the order of their instants, and Redis keeps the set for a
\* Window after each.
InOrder ==
  /\ seq <= Len(served)
  /\ \A j \in DOMAIN served : /\ served[j].at <= instant
                              /\ backend = "redis" => served[j].at + Window <= expiry
                              /\ \A i \in 1 .. j : served[i].at <= served[j].at

\* The requests with the key of a host that were admitted within the Window less
\* the skew before request k.
AdmittedBy(k, host) ==
  {j \in 1 .. k : /\ served[j].admitted /\ KeyOf(served[j].host) = KeyOf(host)
                  /\ served[j].at > served[k].at - (Window - MaxSkew)}

AdmittedAreFew == \A k \in DOMAIN served, host \in Host : Cardinality(AdmittedBy(k, host)) <= Limit

RefusedAreMany ==
  \A i \in DOMAIN served : ~served[i].admitted => Cardinality(Before(i, Window + MaxSkew)) > Limit

RateInv ==
  /\ RateTypeOK /\ HitsAreRequests /\ RequestsAreHits /\ InOrder
  /\ AdmittedAreFew /\ RefusedAreMany

\* What is always known of the requests and of the windows.
LEMMA RateFields ==
  ASSUME RateTypeOK
  PROVE  /\ Len(served) \in 0 .. MaxRequests /\ DOMAIN served = 1 .. Len(served)
         /\ \A j \in DOMAIN served : /\ served[j].at \in 0 .. LastInstant /\ served[j].host \in Host
                                     /\ served[j].admitted \in BOOLEAN
         /\ \A host \in Host : ahead[host] \in 0 .. MaxSkew /\ KeyOf(host) \in Host \cup {InRedis}
         /\ \A k \in Host \cup {InRedis} : \A hit \in window[k] :
              hit[1] \in Score /\ hit[2] \in 1 .. MaxRequests /\ hit = <<hit[1], hit[2]>>
         /\ \A k \in Host \cup {InRedis} : IsFiniteSet(window[k])
         /\ Base \in Int
<1>1. /\ Len(served) \in 0 .. MaxRequests /\ DOMAIN served = 1 .. Len(served)
      /\ \A j \in DOMAIN served : /\ served[j].at \in 0 .. LastInstant /\ served[j].host \in Host
                                  /\ served[j].admitted \in BOOLEAN
  <2>1. PICK R : R = [at : 0 .. LastInstant, host : Host, admitted : BOOLEAN]
    OBVIOUS
  <2>2. served \in Seq(R) /\ Len(served) <= MaxRequests /\ MaxRequests \in Nat
    BY <2>1, RateAssumption DEF RateTypeOK
  <2>3. /\ Len(served) \in 0 .. MaxRequests /\ DOMAIN served = 1 .. Len(served)
        /\ \A j \in DOMAIN served : served[j] \in R
    BY <2>2
  <2>. QED
    BY <2>1, <2>3
<1>2. \A host \in Host : ahead[host] \in 0 .. MaxSkew /\ KeyOf(host) \in Host \cup {InRedis}
  BY DEF RateTypeOK, KeyOf
<1>3. \A k \in Host \cup {InRedis} : window[k] \in SUBSET (Score \X (1 .. MaxRequests))
  BY DEF RateTypeOK
<1>4. IsFiniteSet(Score \X (1 .. MaxRequests))
  <2>1. IsFiniteSet(Score) /\ IsFiniteSet(1 .. MaxRequests)
    BY RateAssumption, FS_Interval DEF Score
  <2>. QED
    BY <2>1, FS_Product
<1>5. \A k \in Host \cup {InRedis} : IsFiniteSet(window[k])
  BY <1>3, <1>4, FS_Subset
<1>6. \A k \in Host \cup {InRedis} : \A hit \in window[k] :
        hit[1] \in Score /\ hit[2] \in 1 .. MaxRequests /\ hit = <<hit[1], hit[2]>>
  BY <1>3
<1>7. Base \in Int
  BY <1>1 DEF Base, RateTypeOK
<1>. QED
  BY <1>1, <1>2, <1>5, <1>6, <1>7

\* In the beginning nothing was requested.
LEMMA RateInitially == RateInit => RateInv
<1>. SUFFICES ASSUME RateInit PROVE RateInv
  OBVIOUS
<1>1. served = <<>> /\ Len(served) = 0 /\ DOMAIN served = {}
  BY DEF RateInit
<1>2. RateTypeOK
  BY <1>1, RateAssumption DEF RateInit, RateTypeOK
<1>3. HitsAreRequests
  BY DEF RateInit, HitsAreRequests
<1>4. RequestsAreHits /\ InOrder /\ AdmittedAreFew /\ RefusedAreMany
  BY <1>1 DEF RateInit, RequestsAreHits, InOrder, AdmittedAreFew, RefusedAreMany
<1>. QED
  BY <1>2, <1>3, <1>4 DEF RateInv

\* When the set expires no request is left that an instance would still count.
LEMMA InstantKeeps ==
  ASSUME RateInv, InstantPasses
  PROVE  RateInv'
<1>1. instant' = instant + 1 /\ instant < LastInstant /\ UNCHANGED <<backend, ahead, expiry, served>>
  BY DEF InstantPasses
<1>2. /\ instant \in 0 .. LastInstant /\ expiry \in 0 .. LastInstant + Window
      /\ LastInstant \in Nat /\ Window \in Nat \ {0} /\ MaxSkew \in Nat /\ MaxRequests \in Nat
      /\ seq \in 0 .. MaxRequests
  BY RateAssumption DEF RateInv, RateTypeOK
<1>3. RateTypeOK
  BY DEF RateInv
<1>4. \/ /\ instant' >= expiry /\ window' = [window EXCEPT ![InRedis] = {}] /\ seq' = 0
      \/ UNCHANGED <<window, seq>>
  BY DEF InstantPasses
<1>5. RateTypeOK'
  BY <1>1, <1>2, <1>4 DEF RateInv, RateTypeOK
<1>6. \A j \in DOMAIN served : served[j].at \in Nat /\ served[j].at <= instant
  BY <1>3, RateFields DEF RateInv, InOrder
<1>7. InOrder'
  BY <1>1, <1>2, <1>3, <1>4, <1>6, RateFields DEF RateInv, InOrder
<1>8. \A host : KeyOf(host)' = KeyOf(host)
  BY <1>1 DEF KeyOf
<1>9. \A j : ScoreOf(j)' = ScoreOf(j)
  BY <1>1 DEF ScoreOf
<1>10. ASSUME UNCHANGED <<window, seq>>
       PROVE  HitsAreRequests' /\ RequestsAreHits'
  <2>1. Base' = Base
    BY <1>1, <1>10 DEF Base
  <2>2. HitsAreRequests'
    BY <1>1, <1>8, <1>9, <1>10, <2>1 DEF RateInv, HitsAreRequests
  <2>3. \A j \in DOMAIN served : served[j].at > instant' + MaxSkew - Window =>
          served[j].at > instant + MaxSkew - Window
    BY <1>1, <1>2, <1>6
  <2>4. RequestsAreHits'
    BY <1>1, <1>8, <1>9, <1>10, <2>1, <2>3 DEF RateInv, RequestsAreHits
  <2>. QED
    BY <2>2, <2>4
<1>11. ASSUME instant' >= expiry, window' = [window EXCEPT ![InRedis] = {}], seq' = 0
       PROVE  HitsAreRequests' /\ RequestsAreHits'
  <2>1. CASE backend = "redis"
    <3>1. \A k \in Host : window[k] = {}
      BY <1>3, <2>1, RateAssumption DEF RateInv, HitsAreRequests, KeyOf, InRedis
    <3>2. \A k \in Host \cup {InRedis} : window'[k] = {}
      BY <1>3, <1>11, <3>1 DEF RateTypeOK
    <3>3. HitsAreRequests'
      BY <3>2 DEF HitsAreRequests
    <3>4. \A j \in DOMAIN served : ~(served[j].at > instant' + MaxSkew - Window)
      BY <1>1, <1>2, <1>6, <1>11, <2>1 DEF RateInv, InOrder
    <3>5. RequestsAreHits'
      BY <1>1, <3>4 DEF RequestsAreHits
    <3>. QED
      BY <3>3, <3>5
  <2>2. CASE backend # "redis"
    <3>1. Base = 0 /\ Base' = 0
      BY <1>1, <2>2 DEF Base
    <3>2. \A k \in Host : window'[k] = window[k]
      BY <1>3, <1>11, RateAssumption DEF RateTypeOK, InRedis
    <3>3. window'[InRedis] = {}
      BY <1>3, <1>11 DEF RateTypeOK
    <3>4. HitsAreRequests'
      BY <1>1, <1>8, <1>9, <3>1, <3>2, <3>3 DEF RateInv, HitsAreRequests
    <3>5. \A j \in DOMAIN served : served[j].at > instant' + MaxSkew - Window =>
            served[j].at > instant + MaxSkew - Window
      BY <1>1, <1>2, <1>6
    <3>6. \A j \in DOMAIN served : KeyOf(served[j].host) \in Host
      BY <1>3, <2>2, RateFields DEF KeyOf
    <3>7. RequestsAreHits'
      BY <1>1, <1>8, <1>9, <3>1, <3>2, <3>5, <3>6 DEF RateInv, RequestsAreHits
    <3>. QED
      BY <3>4, <3>7
  <2>. QED
    BY <2>1, <2>2
<1>12. \A k, host : AdmittedBy(k, host)' = AdmittedBy(k, host)
  BY <1>1, <1>8 DEF AdmittedBy
<1>13. \A i : Before(i, Window + MaxSkew)' = Before(i, Window + MaxSkew)
  BY <1>1 DEF Before
<1>14. AdmittedAreFew' /\ RefusedAreMany'
  BY <1>1, <1>12, <1>13 DEF RateInv, AdmittedAreFew, RefusedAreMany
<1>. QED
  BY <1>4, <1>5, <1>7, <1>10, <1>11, <1>14 DEF RateInv

\* What a counted request leaves: the new hit is that of the new request,
\* beside those of its key that are not out of the window yet.
Counted(h, key, n, hit) ==
  /\ key = KeyOf(h) /\ n = Len(served) + 1 /\ hit = <<NowOf(h), n - Base>>
  /\ n \in 1 .. MaxRequests /\ n > Base /\ hit \in Score \X (1 .. MaxRequests)
  /\ DOMAIN served' = 1 .. n /\ Len(served') = n
  /\ \A j \in 1 .. n - 1 : served'[j] = served[j]
  /\ served'[n].at = instant /\ served'[n].host = h
  /\ served'[n].admitted <=> Cardinality(window'[key]) <= Limit
  /\ window'[key] = Trimmed(window[key], NowOf(h)) \cup {hit}
  /\ \A k \in (Host \cup {InRedis}) \ {key} : window'[k] = window[k]
  /\ Base' = Base

\* A request that is counted leaves just that.
LEMMA HitCounts ==
  ASSUME RateInv, NEW h \in Host, Hit(h)
  PROVE  /\ RateTypeOK'
         /\ \E key \in Host \cup {InRedis}, n \in 1 .. MaxRequests, hit \in Score \X (1 .. MaxRequests) :
              Counted(h, key, n, hit)
         /\ UNCHANGED <<backend, ahead, instant>>
         /\ backend = "redis" => seq' = seq + 1 /\ expiry' = instant + Window
         /\ backend # "redis" => UNCHANGED <<seq, expiry>>
<1>1. RateTypeOK
  BY DEF RateInv
<1>2. PICK key \in Host \cup {InRedis} : key = KeyOf(h)
  BY <1>1, RateFields
<1>3. PICK n : n = Len(served) + 1
  OBVIOUS
<1>4. PICK now : now = NowOf(h)
  OBVIOUS
<1>5. PICK hit : hit = <<now, n - Base>>
  OBVIOUS
<1>6. /\ Len(served) \in Nat /\ Len(served) < MaxRequests /\ MaxRequests \in Nat
      /\ seq \in Nat /\ seq <= Len(served) /\ instant \in 0 .. LastInstant
      /\ ahead[h] \in 0 .. MaxSkew /\ LastInstant \in Nat /\ MaxSkew \in Nat /\ Window \in Nat
      /\ backend \in {"memory", "redis"}
  BY <1>1, RateFields, RateAssumption DEF Hit, RateInv, InOrder, RateTypeOK
<1>7. now \in Score /\ n \in 1 .. MaxRequests /\ n > Base /\ n - Base \in 1 .. MaxRequests
  BY <1>3, <1>4, <1>6 DEF Score, NowOf, Base
<1>8. UNCHANGED <<backend, ahead, instant>>
  BY DEF Hit
<1>9. window' = [window EXCEPT ![key] = Trimmed(@, now) \cup {hit}]
  <2>1. CASE backend = "redis"
    <3>1. key = InRedis /\ hit = Member(now)
      <4>1. n - Base = seq + 1
        BY <1>3, <1>6, <2>1 DEF Base
      <4>. QED
        BY <1>2, <1>5, <2>1, <4>1 DEF KeyOf, Member
    <3>. QED
      BY <1>4, <2>1, <3>1 DEF Hit, Increment
  <2>2. CASE backend # "redis"
    <3>1. key = h /\ hit = <<now, Len(served) + 1>>
      <4>1. n - Base = Len(served) + 1
        BY <1>3, <1>6, <2>2 DEF Base
      <4>. QED
        BY <1>2, <1>5, <2>2, <4>1 DEF KeyOf
    <3>. QED
      BY <1>4, <2>2, <3>1 DEF Hit, Increment
  <2>. QED
    BY <2>1, <2>2
<1>10. /\ backend = "redis" => seq' = seq + 1 /\ expiry' = instant + Window
       /\ backend # "redis" => UNCHANGED <<seq, expiry>>
  BY DEF Hit, Increment
<1>11. PICK few \in BOOLEAN : few <=> Cardinality(window'[key]) <= Limit
  OBVIOUS
<1>12. PICK row : row = [at |-> instant, host |-> h, admitted |-> few]
  OBVIOUS
<1>13. served' = Append(served, row)
  <2>1. (Cardinality(window'[key]) <= Limit) = few
    BY <1>11
  <2>2. served' = Append(served, [at |-> instant, host |-> h, admitted |-> Cardinality(window'[key]) <= Limit])
    BY <1>2 DEF Hit, Increment, KeyOf
  <2>. QED
    BY <1>12, <2>1, <2>2
<1>14. row \in [at : 0 .. LastInstant, host : Host, admitted : BOOLEAN]
  BY <1>6, <1>12
<1>15. served \in Seq([at : 0 .. LastInstant, host : Host, admitted : BOOLEAN])
  BY <1>1 DEF RateTypeOK
<1>16. /\ served' \in Seq([at : 0 .. LastInstant, host : Host, admitted : BOOLEAN])
       /\ Len(served') = n /\ DOMAIN served' = 1 .. n
       /\ \A j \in 1 .. n - 1 : served'[j] = served[j]
       /\ served'[n] = row
  BY <1>3, <1>6, <1>13, <1>14, <1>15
<1>17. hit \in Score \X (1 .. MaxRequests)
  BY <1>5, <1>7
<1>18. /\ window' \in [Host \cup {InRedis} -> SUBSET (Score \X (1 .. MaxRequests))]
       /\ window'[key] = Trimmed(window[key], now) \cup {hit}
       /\ \A k \in (Host \cup {InRedis}) \ {key} : window'[k] = window[k]
  <2>1. PICK rest : rest = Trimmed(window[key], now) \cup {hit}
    OBVIOUS
  <2>2. rest \in SUBSET (Score \X (1 .. MaxRequests))
    BY <1>1, <1>17, <2>1 DEF Trimmed, RateTypeOK
  <2>3. window' = [window EXCEPT ![key] = rest]
    BY <1>9, <2>1
  <2>. QED
    BY <1>1, <2>1, <2>2, <2>3 DEF RateTypeOK
<1>19. Base' = Base
  BY <1>3, <1>6, <1>8, <1>10, <1>16 DEF Base
<1>20. seq' \in 0 .. MaxRequests /\ expiry' \in 0 .. LastInstant + Window
  <2>1. seq \in 0 .. MaxRequests /\ expiry \in 0 .. LastInstant + Window
    BY <1>1 DEF RateTypeOK
  <2>2. CASE backend = "redis"
    BY <1>6, <1>10, <2>2
  <2>3. CASE backend # "redis"
    BY <1>10, <2>1, <2>3
  <2>. QED
    BY <2>2, <2>3
<1>21. RateTypeOK'
  BY <1>1, <1>7, <1>8, <1>16, <1>18, <1>20 DEF RateTypeOK
<1>22. served'[n].at = instant /\ served'[n].host = h /\ served'[n].admitted = few
  BY <1>12, <1>16
<1>23. Counted(h, key, n, hit)
  BY <1>2, <1>3, <1>4, <1>5, <1>7, <1>11, <1>16, <1>17, <1>18, <1>19, <1>22 DEF Counted
<1>. QED
  BY <1>7, <1>8, <1>10, <1>17, <1>21, <1>23

\* An instance's clock is ahead by no more than the skew, so that what some
\* instance still counts stays in the window of its key.
LEMMA HitsStay ==
  ASSUME RateInv, NEW h \in Host, Hit(h)
  PROVE  HitsAreRequests' /\ RequestsAreHits' /\ InOrder'
<1>1. PICK key \in Host \cup {InRedis}, n \in 1 .. MaxRequests, hit \in Score \X (1 .. MaxRequests) :
        Counted(h, key, n, hit)
  BY HitCounts
<1>2. PICK now : now = NowOf(h)
  OBVIOUS
<1>3. /\ UNCHANGED <<backend, ahead, instant>>
      /\ backend = "redis" => seq' = seq + 1 /\ expiry' = instant + Window
      /\ backend # "redis" => UNCHANGED <<seq, expiry>>
  BY HitCounts
<1>4. RateTypeOK /\ HitsAreRequests /\ RequestsAreHits /\ InOrder
  BY DEF RateInv
<1>5. /\ key = KeyOf(h) /\ n = Len(served) + 1 /\ hit = <<now, n - Base>>
      /\ n \in Nat \ {0} /\ n > Base /\ DOMAIN served' = 1 .. n /\ Len(served') = n
      /\ \A j \in 1 .. n - 1 : served'[j] = served[j]
      /\ served'[n].at = instant /\ served'[n].host = h
      /\ window'[key] = Trimmed(window[key], now) \cup {hit}
      /\ \A k \in (Host \cup {InRedis}) \ {key} : window'[k] = window[k]
      /\ Base' = Base
  BY <1>1, <1>2 DEF Counted
<1>6. /\ DOMAIN served = 1 .. n - 1
      /\ \A j \in 1 .. n - 1 : /\ served[j].at \in Nat /\ served[j].host \in Host
                               /\ served[j].at <= instant /\ ahead[served[j].host] \in 0 .. MaxSkew
  BY <1>4, <1>5, RateFields DEF InOrder
<1>7. /\ instant \in Nat /\ Window \in Nat \ {0} /\ MaxSkew \in Nat /\ Base \in Int
      /\ ahead[h] \in 0 .. MaxSkew /\ now = instant + ahead[h]
      /\ seq \in Nat /\ expiry \in Nat
  BY <1>2, <1>4, RateFields, RateAssumption DEF RateTypeOK, NowOf
<1>8. \A host : KeyOf(host)' = KeyOf(host)
  BY <1>3 DEF KeyOf
<1>9. /\ \A j \in 1 .. n - 1 : ScoreOf(j)' = ScoreOf(j)
      /\ ScoreOf(n)' = now
  BY <1>3, <1>5, <1>7 DEF ScoreOf
<1>10. HitsAreRequests'
  <2>1. SUFFICES ASSUME NEW k \in Host \cup {InRedis}, NEW other \in window'[k]
                 PROVE  /\ other[2] + Base \in 1 .. n
                        /\ other[1] = ScoreOf(other[2] + Base)'
                        /\ KeyOf(served'[other[2] + Base].host) = k
    <3>1. \A x : KeyOf(x)' = KeyOf(x)
      BY <1>8
    <3>. QED
      BY <1>3, <1>5, <3>1 DEF HitsAreRequests, KeyOf, ScoreOf
  <2>2. CASE other = hit /\ k = key
    <3>1. other[2] + Base = n /\ other[1] = now
      BY <1>5, <1>7, <2>2
    <3>. QED
      BY <1>5, <1>9, <2>2, <3>1
  <2>3. CASE ~(other = hit /\ k = key)
    <3>1. other \in window[k]
      BY <1>5, <2>1, <2>3 DEF Trimmed
    <3>2. /\ other[2] + Base \in 1 .. n - 1 /\ other[1] = ScoreOf(other[2] + Base)
          /\ KeyOf(served[other[2] + Base].host) = k
      BY <1>4, <1>6, <3>1 DEF HitsAreRequests
    <3>. QED
      BY <1>5, <1>9, <3>2
  <2>. QED
    BY <2>2, <2>3
<1>11. RequestsAreHits'
  <2>1. SUFFICES ASSUME NEW j \in 1 .. n, served'[j].at > instant + MaxSkew - Window
                 PROVE  j > Base /\ <<ScoreOf(j)', j - Base>> \in window'[KeyOf(served'[j].host)]
    BY <1>3, <1>5, <1>8 DEF RequestsAreHits, KeyOf, ScoreOf
  <2>2. CASE j = n
    BY <1>5, <1>9, <2>2
  <2>3. CASE j # n
    <3>1. j \in 1 .. n - 1
      BY <1>5, <2>3
    <3>2. PICK own : own = KeyOf(served[j].host)
      OBVIOUS
    <3>3. own \in Host \cup {InRedis}
      BY <1>4, <1>6, <3>1, <3>2, RateFields
    <3>4. PICK old : old = <<ScoreOf(j), j - Base>>
      OBVIOUS
    <3>5. j > Base /\ old \in window[own]
      BY <1>4, <1>5, <1>6, <2>1, <3>1, <3>2, <3>4 DEF RequestsAreHits
    <3>6. old[1] > now - Window
      <4>1. ScoreOf(j) >= served[j].at /\ ScoreOf(j) \in Int
        <5>1. /\ served[j].at \in Nat /\ ahead[served[j].host] \in Nat
              /\ ahead[served[j].host] >= 0
          BY <1>6, <1>7, <3>1
        <5>. QED
          BY <5>1 DEF ScoreOf
      <4>2. served[j].at > instant + MaxSkew - Window /\ served[j].at \in Int
        <5>1. served'[j] = served[j] /\ served[j].at \in Int
          BY <1>5, <1>6, <3>1
        <5>. QED
          BY <2>1, <5>1
      <4>3. instant + MaxSkew - Window >= now - Window
        BY <1>7
      <4>4. instant + MaxSkew - Window \in Int /\ now - Window \in Int
        BY <1>7
      <4>5. ScoreOf(j) > now - Window
        BY <4>1, <4>2, <4>3, <4>4
      <4>. QED
        BY <3>4, <4>5
    <3>7. old \in window'[own]
      BY <1>5, <3>3, <3>5, <3>6 DEF Trimmed
    <3>. QED
      BY <1>5, <1>9, <3>1, <3>2, <3>4, <3>5, <3>7
  <2>. QED
    BY <2>2, <2>3
<1>12. InOrder'
  <2>1. seq' <= n
    BY <1>3, <1>4, <1>5, <1>7 DEF InOrder
  <2>2. ASSUME NEW j \in 1 .. n
        PROVE  /\ served'[j].at <= instant
               /\ backend = "redis" => served'[j].at + Window <= expiry'
               /\ \A i \in 1 .. j : served'[i].at <= served'[j].at
    <3>1. CASE j = n
      <4>1. \A i \in 1 .. n - 1 : served'[i].at <= instant
        BY <1>5, <1>6
      <4>2. served'[n].at = instant /\ instant \in Nat /\ UNCHANGED instant
        BY <1>3, <1>5, <1>7
      <4>3. \A i \in 1 .. n : i = n \/ i \in 1 .. n - 1
        BY <1>5
      <4>4. \A i \in 1 .. j : served'[i].at <= instant
        BY <3>1, <4>1, <4>2, <4>3, SMTT(30)
      <4>5. backend = "redis" => expiry' = instant + Window
        BY <1>3
      <4>6. served'[j].at = instant /\ instant <= instant
        BY <3>1, <4>2
      <4>7. \A i \in 1 .. j : served'[i].at <= served'[j].at
        BY <4>4, <4>6
      <4>8. backend = "redis" => served'[j].at + Window <= expiry'
        BY <1>7, <4>5, <4>6
      <4>. QED
        BY <4>6, <4>7, <4>8
    <3>2. CASE j # n
      <4>1. j \in 1 .. n - 1 /\ \A i \in 1 .. j : i \in 1 .. n - 1
        BY <1>5, <3>2
      <4>2. \A i \in 1 .. j : served'[i] = served[i]
        BY <1>5, <4>1
      <4>3. \A i \in 1 .. j : served[i].at <= served[j].at
        BY <1>4, <1>6, <4>1 DEF InOrder
      <4>4. served'[j] = served[j] /\ \A i \in 1 .. j : served'[i].at <= served'[j].at
        BY <1>5, <4>1, <4>2, <4>3
      <4>5. served[j].at <= instant /\ served[j].at \in Nat
        BY <1>6, <4>1
      <4>6. backend = "redis" => served[j].at + Window <= expiry'
        BY <1>3, <1>7, <4>5
      <4>. QED
        BY <4>4, <4>5, <4>6
    <3>. QED
      BY <3>1, <3>2
  <2>. QED
    BY <1>3, <1>5, <2>1, <2>2 DEF InOrder
<1>. QED
  BY <1>10, <1>11, <1>12

\* The requests that a new one shares a window with have their hits in it, and
\* the hits in it are of such requests: counting the ones bounds the others.
CountsBound ==
  RateTypeOK /\ HitsAreRequests /\ RequestsAreHits /\ InOrder =>
    \A key \in Host \cup {InRedis}, h \in Host, n \in DOMAIN served :
      /\ key = KeyOf(h) /\ n = Len(served) /\ served[n].at = instant /\ served[n].host = h
      /\ \A hit \in window[key] : hit[1] > NowOf(h) - Window
      => /\ Cardinality(AdmittedBy(n, h)) <= Cardinality(window[key])
         /\ Cardinality(window[key]) <= Cardinality(Before(n, Window + MaxSkew))
         /\ Cardinality(window[key]) \in Nat
         /\ Cardinality(Before(n, Window + MaxSkew)) \in Nat

\* A request whose score is in a window was made in it, but for the skew.
LEMMA SkewIsBounded ==
  ASSUME NEW at \in Nat, NEW lead \in 0 .. MaxSkew, NEW t \in Nat, at + lead > t - Window
  PROVE  at > t - (Window + MaxSkew)
BY RateAssumption

\* A window of a clock that is ahead begins later.
LEMMA ScoreInWindow ==
  ASSUME NEW score \in Nat, NEW t \in Nat, NEW lead \in 0 .. MaxSkew,
         score > (t + lead) - Window
  PROVE  score > t - Window
BY RateAssumption

\* In every state whose hits and requests correspond.
LEMMA WindowsCount == CountsBound
<1>. SUFFICES ASSUME RateTypeOK, HitsAreRequests, RequestsAreHits, InOrder,
                     NEW key \in Host \cup {InRedis}, NEW h \in Host, NEW n \in DOMAIN served,
                     key = KeyOf(h), n = Len(served), served[n].at = instant, served[n].host = h,
                     \A hit \in window[key] : hit[1] > NowOf(h) - Window
              PROVE  /\ Cardinality(AdmittedBy(n, h)) <= Cardinality(window[key])
                     /\ Cardinality(window[key]) <= Cardinality(Before(n, Window + MaxSkew))
                     /\ Cardinality(window[key]) \in Nat
                     /\ Cardinality(Before(n, Window + MaxSkew)) \in Nat
  BY DEF CountsBound
<1>1. /\ DOMAIN served = 1 .. n /\ n \in Nat \ {0} /\ IsFiniteSet(window[key]) /\ Base \in Int
      /\ \A j \in 1 .. n : /\ served[j].at \in Nat /\ served[j].host \in Host
                           /\ served[j].at <= instant /\ ahead[served[j].host] \in 0 .. MaxSkew
      /\ \A hit \in window[key] : hit[1] \in Nat /\ hit[2] \in Nat /\ hit = <<hit[1], hit[2]>>
  BY RateFields, RateAssumption DEF InOrder, Score
<1>2. /\ instant \in Nat /\ Window \in Nat \ {0} /\ MaxSkew \in Nat /\ ahead[h] \in 0 .. MaxSkew
      /\ NowOf(h) = instant + ahead[h]
  BY RateFields, RateAssumption DEF RateTypeOK, NowOf
<1>3. Cardinality(AdmittedBy(n, h)) <= Cardinality(window[key])
  <2>1. PICK S : S = AdmittedBy(n, h)
    OBVIOUS
  <2>2. \A j \in S : /\ j \in 1 .. n /\ KeyOf(served[j].host) = key
                     /\ served[j].at > instant + MaxSkew - Window
    BY <1>1, <1>2, <2>1 DEF AdmittedBy
  <2>3. \A j \in S : <<ScoreOf(j), j - Base>> \in window[key]
    BY <1>1, <2>2 DEF RequestsAreHits
  <2>4. PICK f : f = [j \in S |-> <<ScoreOf(j), j - Base>>]
    OBVIOUS
  <2>5. f \in [S -> window[key]]
    BY <2>3, <2>4
  <2>6. ASSUME NEW i \in S, NEW j \in S, f[i] = f[j]
        PROVE  i = j
    <3>1. i - Base = j - Base
      BY <2>4, <2>6
    <3>. QED
      BY <1>1, <2>2, <3>1
  <2>7. f \in Injection(S, window[key])
    BY <2>5, <2>6 DEF Injection, IsInjective
  <2>. QED
    BY <1>1, <2>1, <2>7, FS_Injection
<1>4. /\ Cardinality(window[key]) <= Cardinality(Before(n, Window + MaxSkew))
      /\ IsFiniteSet(Before(n, Window + MaxSkew))
  <2>1. PICK T : T = Before(n, Window + MaxSkew)
    OBVIOUS
  <2>2. IsFiniteSet(T)
    <3>1. IsFiniteSet(1 .. n)
      <4>1. n \in Int
        BY <1>1
      <4>. QED
        BY <4>1, FS_Interval
    <3>2. T \in SUBSET (1 .. n)
      BY <2>1 DEF Before
    <3>. QED
      BY <3>1, <3>2, FS_Subset
  <2>3. ASSUME NEW hit \in window[key]
        PROVE  hit[2] + Base \in T /\ hit[1] = ScoreOf(hit[2] + Base)
    <3>1. PICK j : j = hit[2] + Base
      OBVIOUS
    <3>2. j \in 1 .. n /\ hit[1] = ScoreOf(j) /\ KeyOf(served[j].host) = key
      BY <1>1, <3>1 DEF HitsAreRequests
    <3>3. hit[1] > NowOf(h) - Window
      OBVIOUS
    <3>4. served[j].at > instant - (Window + MaxSkew)
      <4>1. hit[1] = served[j].at + ahead[served[j].host]
        BY <3>2 DEF ScoreOf
      <4>2. served[j].at \in Nat /\ ahead[served[j].host] \in 0 .. MaxSkew
        BY <1>1, <3>2
      <4>3. hit[1] > instant - Window /\ instant \in Nat
        <5>1. PICK score \in Nat, t \in Nat, lead \in 0 .. MaxSkew :
                score = hit[1] /\ t = instant /\ lead = ahead[h]
          BY <1>1, <1>2
        <5>2. score > (t + lead) - Window
          BY <1>2, <3>3, <5>1
        <5>. QED
          BY <5>1, <5>2, ScoreInWindow
      <4>4. PICK at \in Nat, lead \in 0 .. MaxSkew :
              at = served[j].at /\ lead = ahead[served[j].host]
        BY <4>2
      <4>5. at + lead > instant - Window
        BY <4>1, <4>3, <4>4
      <4>6. at > instant - (Window + MaxSkew)
        BY <4>3, <4>5, SkewIsBounded
      <4>. QED
        BY <4>4, <4>6
    <3>5. backend = "memory" => served[j].host = h
      BY <3>2 DEF KeyOf
    <3>. QED
      BY <2>1, <3>1, <3>2, <3>4, <3>5 DEF Before
  <2>4. PICK f : f = [hit \in window[key] |-> hit[2] + Base]
    OBVIOUS
  <2>5. f \in [window[key] -> T]
    BY <2>3, <2>4
  <2>6. ASSUME NEW hit \in window[key], NEW other \in window[key], f[hit] = f[other]
        PROVE  hit = other
    <3>1. hit[2] + Base = other[2] + Base
      BY <2>4, <2>6
    <3>2. hit[1] = other[1]
      BY <2>3, <3>1
    <3>3. hit[2] = other[2]
      BY <1>1, <3>1
    <3>. QED
      BY <1>1, <3>2, <3>3
  <2>7. f \in Injection(window[key], T)
    BY <2>5, <2>6 DEF Injection, IsInjective
  <2>. QED
    BY <2>1, <2>2, <2>7, FS_Injection
<1>. QED
  BY <1>1, <1>3, <1>4, FS_CardinalityType

\* The same after a step.
LEMMA WindowsCountNext == CountsBound'
BY WindowsCount, PTL

\* A request that is let through is one of at most Limit in the window, and one
\* that is refused is not counted among those let through.
LEMMA LimitsStay ==
  ASSUME RateInv, NEW h \in Host, Hit(h)
  PROVE  AdmittedAreFew' /\ RefusedAreMany'
<1>1. PICK key \in Host \cup {InRedis}, n \in 1 .. MaxRequests, hit \in Score \X (1 .. MaxRequests) :
        Counted(h, key, n, hit)
  BY HitCounts
<1>2. PICK now : now = NowOf(h)
  OBVIOUS
<1>3. UNCHANGED <<backend, ahead, instant>> /\ RateTypeOK'
  BY HitCounts
<1>4. HitsAreRequests' /\ RequestsAreHits' /\ InOrder'
  BY HitsStay
<1>5. /\ key = KeyOf(h) /\ n = Len(served) + 1 /\ hit = <<now, n - Base>>
      /\ n \in Nat \ {0} /\ DOMAIN served' = 1 .. n /\ Len(served') = n
      /\ \A j \in 1 .. n - 1 : served'[j] = served[j]
      /\ served'[n].at = instant /\ served'[n].host = h
      /\ served'[n].admitted <=> Cardinality(window'[key]) <= Limit
      /\ window'[key] = Trimmed(window[key], now) \cup {hit}
  BY <1>1, <1>2 DEF Counted
<1>6. \A host : KeyOf(host)' = KeyOf(host)
  BY <1>3 DEF KeyOf
<1>7. NowOf(h)' = now /\ now \in Int /\ Window \in Nat \ {0} /\ MaxSkew \in Nat /\ Limit \in Nat
  BY <1>2, <1>3, RateFields, RateAssumption DEF NowOf, RateInv, RateTypeOK
<1>8. \A other \in window'[key] : other[1] > now - Window
  BY <1>5, <1>7 DEF Trimmed
<1>9. /\ Cardinality(AdmittedBy(n, h)') <= Cardinality(window'[key])
      /\ Cardinality(window'[key]) <= Cardinality(Before(n, Window + MaxSkew)')
      /\ Cardinality(window'[key]) \in Nat
      /\ Cardinality(Before(n, Window + MaxSkew)') \in Nat
  <2>1. key = KeyOf(h)'
    BY <1>5, <1>6
  <2>2. n \in DOMAIN served' /\ n = Len(served') /\ served'[n].at = instant' /\ served'[n].host = h
    BY <1>3, <1>5
  <2>3. \A other \in window'[key] : other[1] > NowOf(h)' - Window
    BY <1>7, <1>8
  <2>. QED
    BY <1>3, <1>4, <2>1, <2>2, <2>3, WindowsCountNext DEF CountsBound
<1>10. /\ DOMAIN served = 1 .. n - 1
       /\ \A j \in 1 .. n - 1 : served[j].at \in Nat /\ served[j].at <= instant
       /\ instant \in Nat
  <2>1. RateTypeOK /\ InOrder
    BY DEF RateInv
  <2>2. DOMAIN served = 1 .. n - 1
    BY <1>5, <2>1, RateFields
  <2>3. \A j \in 1 .. n - 1 : served[j].at \in Nat /\ served[j].at <= instant
    BY <2>1, <2>2, RateFields DEF InOrder
  <2>. QED
    BY <2>1, <2>2, <2>3, RateAssumption DEF RateTypeOK
<1>11. ASSUME NEW k \in 1 .. n - 1
       PROVE  /\ \A host : AdmittedBy(k, host)' = AdmittedBy(k, host)
              /\ Before(k, Window + MaxSkew)' = Before(k, Window + MaxSkew)
              /\ served'[k] = served[k]
  <2>1. \A j \in 1 .. k : j \in 1 .. n - 1 /\ served'[j] = served[j]
    BY <1>5
  <2>2. served'[k] = served[k]
    BY <1>5
  <2>3. \A host : AdmittedBy(k, host)' = AdmittedBy(k, host)
    BY <1>6, <2>1, <2>2 DEF AdmittedBy
  <2>4. Before(k, Window + MaxSkew)' = Before(k, Window + MaxSkew)
    BY <1>3, <2>1, <2>2 DEF Before
  <2>. QED
    BY <2>2, <2>3, <2>4
<1>12. AdmittedAreFew'
  <2>1. SUFFICES ASSUME NEW k \in 1 .. n, NEW host \in Host
                 PROVE  Cardinality(AdmittedBy(k, host)') <= Limit
    BY <1>5 DEF AdmittedAreFew
  <2>2. CASE k # n
    <3>1. k \in 1 .. n - 1
      BY <1>5, <2>2
    <3>. QED
      BY <1>10, <1>11, <3>1 DEF RateInv, AdmittedAreFew
  <2>3. CASE k = n /\ KeyOf(host) = key /\ served'[n].admitted
    <3>1. AdmittedBy(n, host)' = AdmittedBy(n, h)'
      BY <1>5, <1>6, <2>3 DEF AdmittedBy
    <3>2. Cardinality(window'[key]) <= Limit
      BY <1>5, <2>3
    <3>3. Cardinality(AdmittedBy(n, h)') \in Nat
      <4>1. IsFiniteSet(1 .. n) /\ AdmittedBy(n, h)' \in SUBSET (1 .. n)
        BY <1>5, FS_Interval DEF AdmittedBy
      <4>. QED
        BY <4>1, FS_Subset, FS_CardinalityType
    <3>4. Cardinality(AdmittedBy(n, h)') <= Limit
      BY <1>7, <1>9, <3>2, <3>3
    <3>. QED
      BY <2>3, <3>1, <3>4
  <2>4. CASE k = n /\ ~(KeyOf(host) = key /\ served'[n].admitted)
    <3>1. n \notin AdmittedBy(n, host)'
      BY <1>5, <1>6, <2>4 DEF AdmittedBy
    <3>2. CASE n = 1
      <4>1. AdmittedBy(n, host)' = {}
        BY <3>1, <3>2 DEF AdmittedBy
      <4>. QED
        BY <1>7, <2>4, <4>1, FS_EmptySet
    <3>3. CASE n # 1
      <4>1. PICK m : m = n - 1
        OBVIOUS
      <4>2. m \in 1 .. n - 1 /\ 1 .. m \subseteq 1 .. n - 1
        BY <1>5, <3>3, <4>1
      <4>3. ASSUME NEW j \in AdmittedBy(n, host)'
            PROVE  j \in AdmittedBy(m, host)
        <5>1. /\ j \in 1 .. n /\ j # n /\ served'[j].admitted /\ KeyOf(served'[j].host) = KeyOf(host)
              /\ served'[j].at > instant - (Window - MaxSkew)
          BY <1>5, <1>6, <3>1 DEF AdmittedBy
        <5>2. j \in 1 .. m /\ j \in 1 .. n - 1
          BY <1>5, <4>1, <5>1
        <5>3. served'[j] = served[j] /\ served[j].at \in Nat
          BY <1>5, <1>10, <5>2
        <5>4. served[m].at \in Nat /\ served[m].at <= instant
          BY <1>10, <4>2
        <5>5. served[j].at > served[m].at - (Window - MaxSkew)
          BY <1>7, <1>10, <5>1, <5>3, <5>4
        <5>. QED
          BY <5>1, <5>2, <5>3, <5>5 DEF AdmittedBy
      <4>4. Cardinality(AdmittedBy(m, host)) <= Limit
        BY <1>10, <4>2 DEF RateInv, AdmittedAreFew
      <4>5. /\ IsFiniteSet(AdmittedBy(m, host)) /\ Cardinality(AdmittedBy(m, host)) \in Nat
        <5>1. IsFiniteSet(1 .. m) /\ AdmittedBy(m, host) \in SUBSET (1 .. m)
          BY <1>5, <4>1, <4>2, FS_Interval DEF AdmittedBy
        <5>. QED
          BY <5>1, FS_Subset, FS_CardinalityType
      <4>6. PICK T : T = AdmittedBy(n, host)'
        OBVIOUS
      <4>7. T \in SUBSET AdmittedBy(m, host)
        BY <4>3, <4>6
      <4>8. IsFiniteSet(T) /\ Cardinality(T) <= Cardinality(AdmittedBy(m, host))
        BY <4>5, <4>7, FS_Subset
      <4>9. Cardinality(T) <= Limit
        BY <1>7, <4>4, <4>5, <4>8, FS_CardinalityType
      <4>. QED
        BY <2>4, <4>6, <4>9
    <3>. QED
      BY <3>2, <3>3
  <2>. QED
    BY <2>2, <2>3, <2>4
<1>13. RefusedAreMany'
  <2>1. SUFFICES ASSUME NEW k \in 1 .. n, ~served'[k].admitted
                 PROVE  Cardinality(Before(k, Window + MaxSkew)') > Limit
    BY <1>5 DEF RefusedAreMany
  <2>2. CASE k # n
    <3>1. k \in 1 .. n - 1
      BY <1>5, <2>2
    <3>. QED
      BY <1>10, <1>11, <2>1, <3>1 DEF RateInv, RefusedAreMany
  <2>3. CASE k = n
    <3>1. ~(Cardinality(window'[key]) <= Limit)
      BY <1>5, <2>1, <2>3
    <3>. QED
      BY <1>7, <1>9, <2>3, <3>1
  <2>. QED
    BY <2>2, <2>3
<1>. QED
  BY <1>12, <1>13

\* Every step keeps what is known of the requests and the windows.
LEMMA RateStep == RateInv /\ [RateNext]_rateVars => RateInv'
<1>. SUFFICES ASSUME RateInv, [RateNext]_rateVars
              PROVE  RateInv'
  OBVIOUS
<1>1. CASE InstantPasses
  BY <1>1, InstantKeeps
<1>2. CASE \E h \in Host : Hit(h)
  <2>1. PICK h \in Host : Hit(h)
    BY <1>2
  <2>2. RateTypeOK'
    BY <2>1, HitCounts
  <2>3. HitsAreRequests' /\ RequestsAreHits' /\ InOrder'
    BY <2>1, HitsStay
  <2>4. AdmittedAreFew' /\ RefusedAreMany'
    BY <2>1, LimitsStay
  <2>. QED
    BY <2>2, <2>3, <2>4 DEF RateInv
<1>3. CASE UNCHANGED rateVars
  <2>1. UNCHANGED <<backend, ahead, instant, window, seq, expiry, served>>
    BY <1>3 DEF rateVars
  <2>2. RateTypeOK' /\ HitsAreRequests' /\ RequestsAreHits' /\ InOrder'
    BY <2>1
    DEF RateInv, RateTypeOK, HitsAreRequests, RequestsAreHits, InOrder, Base, KeyOf, ScoreOf
  <2>3. AdmittedAreFew' /\ RefusedAreMany'
    BY <2>1 DEF RateInv, AdmittedAreFew, RefusedAreMany, AdmittedBy, Before, KeyOf
  <2>. QED
    BY <2>2, <2>3 DEF RateInv
<1>. QED
  BY <1>1, <1>2, <1>3 DEF RateNext

\* The requests of a Window less the skew before one are those of its key.
LEMMA LimitsAreExact == RateInv => LimitIsExact
<1>. SUFFICES ASSUME RateInv, NEW i \in DOMAIN served
              PROVE  /\ Cardinality({j \in Before(i, Window - MaxSkew) : served[j].admitted}) <= Limit
                     /\ ~served[i].admitted => Cardinality(Before(i, Window + MaxSkew)) > Limit
  BY DEF LimitIsExact
<1>1. RateTypeOK /\ backend \in {"memory", "redis"}
  BY DEF RateInv, RateTypeOK
<1>2. /\ DOMAIN served = 1 .. Len(served) /\ Len(served) \in Nat /\ served[i].host \in Host
      /\ \A j \in DOMAIN served : served[j].host \in Host
  BY <1>1, RateFields
<1>3. PICK S : S = {j \in Before(i, Window - MaxSkew) : served[j].admitted}
  OBVIOUS
<1>4. S = AdmittedBy(i, served[i].host)
  BY <1>1, <1>3 DEF AdmittedBy, Before, KeyOf
<1>5. Cardinality(S) <= Limit
  BY <1>2, <1>4 DEF RateInv, AdmittedAreFew
<1>. QED
  BY <1>3, <1>5 DEF RateInv, RefusedAreMany

-----------------------------------------------------------------------------
(* The theorems.                                                            *)

\* What is known of the files holds throughout.
LEMMA FilesInductive == FilesSpec => []FilesInv
BY FilesInitially, FilesStep, PTL DEF FilesSpec

\* Between requests a file that no known gap has touched tells the truth about
\* its object (confirmFileUpload, createPermit, createAdminLeaveRequest,
\* deleteFile, deletePermit, deleteAdminLeaveRequest), for any number of files,
\* leave requests and requests that meet on one file.
THEOREM FilesTellTheTruth == FilesSpec => []FilesMatchObjects
BY FilesInductive, SoundFilesMatch, PTL

\* A rejected file that no known gap has touched is never made available again
\* (confirmFileUpload, createPermit and createAdminLeaveRequest publish by id,
\* whatever the row has become), however many of them meet on it.
THEOREM RejectedFilesStay == FilesSpec => RejectedIsFinal
<1>1. FilesInv /\ [FilesNext]_fileVars =>
        [\A f \in File \ excused : lifecycle[f] = "rejected" => lifecycle'[f] # "available"]_fileVars
  BY RejectedStays
<1>. QED
  BY <1>1, FilesInductive, PTL DEF FilesSpec, RejectedIsFinal

\* What is known of the enrollment holds throughout.
LEMMA FacesInductive == FacesSpec => []FacesInv
BY FacesInitially, FacesStep, PTL DEF FacesSpec

\* An enrollment or a removal that no other call met leaves Robin, S3 and the
\* database agreeing, and status calls keep it so (enrollFace, deleteEnrollment,
\* getEnrollmentStatus), for any number of attempts, images and calls.
THEOREM FaceChangesSettle == FacesSpec => []ChangesSettle
<1>1. FacesInv => ChangesSettle
  BY DEF FacesInv
<1>. QED
  BY <1>1, FacesInductive, PTL

\* What is known of the requests and the windows holds throughout.
LEMMA RateInductive == RateSpec => []RateInv
BY RateInitially, RateStep, PTL DEF RateSpec

\* No more than Limit requests are admitted in a window, and none is refused
\* that is not one too many, by as much as the clocks are apart (rateLimit,
\* RATE_LIMIT_SCRIPT), for any window, limit, skew and number of instances.
THEOREM LimitHolds == RateSpec => []LimitIsExact
BY RateInductive, LimitsAreExact, PTL

\* Reports, files, faces and the rate limiter do not touch each other: whatever
\* moves, each sees a step of its own or none.
LEMMA StorageParts == StorageSpec => ReportsSpec /\ FilesSpec /\ FacesSpec /\ RateSpec
<1>1. StorageInit => ReportsInit /\ FilesInit /\ FacesInit /\ RateInit
  BY DEF StorageInit
<1>2. [StorageNext]_<<part, vars, fileVars, faceVars, rateVars>>
        => [Next]_vars /\ [FilesNext]_fileVars /\ [FacesNext]_faceVars /\ [RateNext]_rateVars
  BY DEF StorageNext
<1>. QED
  BY <1>1, <1>2, PTL DEF StorageSpec, ReportsSpec, FilesSpec, FacesSpec, RateSpec

\* All of them keep their types.
THEOREM StorageTyped == StorageSpec => []StorageTypeOK
<1>1. ReportsTypeOK /\ FilesInv /\ FacesInv /\ RateInv => StorageTypeOK
  BY DEF FilesInv, FacesInv, RateInv, StorageTypeOK
<1>. QED
  BY <1>1, StorageParts, ReportsTyped, FilesInductive, FacesInductive, RateInductive, PTL

\* What the run checks of all of them, for any size of each.
THEOREM StorageSafe ==
  StorageSpec => /\ [](ReportHasPhoto /\ ObjectsStayTracked /\ ReportsConsistent)
                 /\ [](FilesMatchObjects /\ ChangesSettle /\ LimitIsExact)
                 /\ ClosedAfterVerification /\ FiledUnderEnrolledClass /\ RejectedIsFinal
BY StorageParts, PhotosAreKept, ObjectsAreTracked, ReportsStayConsistent, FilesTellTheTruth,
   FaceChangesSettle, LimitHolds, VerifiedPairsAreClosed, ReportsFollowEnrollment,
   RejectedFilesStay, PTL
=============================================================================
