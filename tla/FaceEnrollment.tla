---------------------------- MODULE FaceEnrollment ----------------------------
(***************************************************************************)
(* The face enrollment of one student, kept by three services: Robin holds *)
(* the embeddings, S3 the images under paths that every attempt uses again,*)
(* and the database the records of the images and the state that the app   *)
(* shows.  Enrolling, removing (by the student or, as a reset, by an       *)
(* administrator) and asking for the status are calls that take one step   *)
(* for each service they await and may break off before any of them.       *)
(* Audit rows and the number of embeddings are left out.                   *)
(***************************************************************************)
EXTENDS Naturals, NoValue

CONSTANTS Attempt,  \* enrollment attempts, each with images of its own
          Images,   \* images of an attempt
          Caller    \* calls under way at once

ASSUME FacesAssumption ==
  Images \in Nat \ {0} /\ Attempt \cap {None, "removed"} = {} /\ None # "removed"

VARIABLES
  robin,    \* the attempt whose embeddings Robin holds
  image,    \* the attempt whose image S3 has at each path
  record,   \* files.lifecycle of the images of each attempt
  enrolled, \* face_enrollments.status
  caller,   \* calls under way
  settled   \* the last change that ran alone to its end (history)

faceVars == <<robin, image, record, enrolled, caller, settled>>

Index == 1 .. Images
FaceRecord == Attempt \X Index

\* at is the image an enrollment is at, previous the records it is to retire,
\* alone that no other call has met this one.
Free == [op |-> "none", step |-> "none", attempt |-> None, at |-> 1, previous |-> {}, alone |-> TRUE]

FaceCall ==
  [op : {"none"}, step : {"none"}, attempt : {None}, at : {1}, previous : {{}}, alone : {TRUE}]
  \cup [op : {"enroll"}, step : {"robin", "upload", "record", "rollback", "retire", "save"},
        attempt : Attempt, at : 1 .. Images + 1, previous : SUBSET FaceRecord, alone : BOOLEAN]
  \cup [op : {"remove"}, step : {"robin", "images", "records", "save"},
        attempt : {None}, at : {1}, previous : {{}}, alone : BOOLEAN]
  \cup [op : {"status"}, step : {"robin", "reread", "save"},
        attempt : {None}, at : {1}, previous : {{}}, alone : BOOLEAN]

Shown == {"none", "enrolled", "not_enrolled"}

FacesTypeOK ==
  /\ robin \in Attempt \cup {None}
  /\ image \in [Index -> Attempt \cup {None}]
  /\ record \in [FaceRecord -> {"none", "available", "deleted"}]
  /\ enrolled \in Shown
  /\ caller \in [Caller -> FaceCall]
  /\ settled \in Attempt \cup {None, "removed"}

FacesInit ==
  /\ robin = None /\ image = [i \in Index |-> None]
  /\ record = [r \in FaceRecord |-> "none"]
  /\ enrolled = "none"
  /\ caller = [c \in Caller |-> Free] /\ settled = "removed"

-----------------------------------------------------------------------------
\* Calls.

Current == {r \in FaceRecord : record[r] = "available"}

Awaits(c, op, step) == caller[c].op = op /\ caller[c].step = step

StepsTo(c, step) == caller' = [caller EXCEPT ![c].step = step]

Returns(c) == caller' = [caller EXCEPT ![c] = Free]

\* A call begins; it and those under way have met.
Begins(c, call) ==
  LET met == {d \in Caller : caller[d] # Free} IN
    caller' = [d \in Caller |->
      IF d = c THEN [call EXCEPT !.alone = met = {}]
      ELSE IF d \in met THEN [caller[d] EXCEPT !.alone = FALSE] ELSE caller[d]]

\* A change that ends leaves what it settled, if it ran alone.
Completes(c, what) ==
  /\ Returns(c)
  /\ settled' = IF caller[c].alone THEN what ELSE None

-----------------------------------------------------------------------------
\* Enrolling.

\* Variant: only a student whose state is enrolled has records to retire.
Previous_OfEnrolled == IF enrolled = "enrolled" THEN Current ELSE {}

\* The records an attempt finds and will retire, those of broken attempts too.
Previous == Current

\* enrollFace lists the records it is to replace, ...
EnrollFace(c) ==
  /\ caller[c] = Free
  /\ \E a \in Attempt :
       /\ \A i \in Index : record[<<a, i>>] = "none" /\ image[i] # a
       /\ robin # a /\ \A d \in Caller : caller[d].attempt # a
       /\ Begins(c, [op |-> "enroll", step |-> "robin", attempt |-> a, at |-> 1,
                     previous |-> Previous, alone |-> TRUE])
  /\ settled' = None
  /\ UNCHANGED <<robin, image, record, enrolled>>

\* ... has Robin replace the embeddings, ...
RobinEnroll(c) ==
  /\ Awaits(c, "enroll", "robin")
  /\ robin' = caller[c].attempt
  /\ StepsTo(c, "upload")
  /\ UNCHANGED <<image, record, enrolled, settled>>

\* ... uploads each image over the previous one ...
UploadImage(c) ==
  /\ Awaits(c, "enroll", "upload")
  /\ image' = [image EXCEPT ![caller[c].at] = caller[c].attempt]
  /\ StepsTo(c, "record")
  /\ UNCHANGED <<robin, record, enrolled, settled>>

\* ... and creates its record, ...
CreateImageRecord(c) ==
  /\ Awaits(c, "enroll", "record")
  /\ record' = [record EXCEPT ![<<caller[c].attempt, caller[c].at>>] = "available"]
  /\ caller' = [caller EXCEPT ![c].at = @ + 1,
                              ![c].step = IF caller[c].at = Images THEN "retire" ELSE "upload"]
  /\ UNCHANGED <<robin, image, enrolled, settled>>

\* ... retires the records it found ...
RetireRecord(c) ==
  /\ Awaits(c, "enroll", "retire")
  /\ IF caller[c].previous = {} THEN StepsTo(c, "save") /\ UNCHANGED record
     ELSE \E r \in caller[c].previous :
            /\ record' = [record EXCEPT ![r] = "deleted"]
            /\ caller' = [caller EXCEPT ![c].previous = @ \ {r}]
  /\ UNCHANGED <<robin, image, enrolled, settled>>

\* ... and saves the state.
SaveEnrolled(c) ==
  /\ Awaits(c, "enroll", "save")
  /\ enrolled' = "enrolled"
  /\ Completes(c, caller[c].attempt)
  /\ UNCHANGED <<robin, image, record>>

\* An upload or a record fails: what this attempt created is deleted again,
\* record by record, as far as that succeeds.
UploadFails(c) ==
  /\ Awaits(c, "enroll", "upload") \/ Awaits(c, "enroll", "record")
  /\ caller' = [caller EXCEPT ![c].step = "rollback", ![c].at = 1]
  /\ UNCHANGED <<robin, image, record, enrolled, settled>>

Rollback(c) ==
  /\ Awaits(c, "enroll", "rollback")
  /\ LET r == <<caller[c].attempt, caller[c].at>> IN
       IF caller[c].at > Images \/ record[r] = "none" THEN Returns(c) /\ UNCHANGED record
       ELSE /\ record' \in {record, [record EXCEPT ![r] = "deleted"]}
            /\ caller' = [caller EXCEPT ![c].at = @ + 1]
  /\ UNCHANGED <<robin, image, enrolled, settled>>

-----------------------------------------------------------------------------
\* Removing.

\* deleteEnrollment and resetStudentFaceEnrollment.
RemoveEnrollment(c) ==
  /\ caller[c] = Free
  /\ Begins(c, [Free EXCEPT !.op = "remove", !.step = "robin"])
  /\ settled' = None
  /\ UNCHANGED <<robin, image, record, enrolled>>

\* Robin's failure ends the call; that it has nothing is success.
RobinDelete(c) ==
  /\ Awaits(c, "remove", "robin")
  /\ robin' = None
  /\ StepsTo(c, "images")
  /\ UNCHANGED <<image, record, enrolled, settled>>

\* All deletions are tried, none is checked.
DeleteImages(c) ==
  /\ Awaits(c, "remove", "images")
  /\ \E S \in SUBSET Index : image' = [i \in Index |-> IF i \in S THEN image[i] ELSE None]
  /\ StepsTo(c, "records")
  /\ UNCHANGED <<robin, record, enrolled, settled>>

DeleteRecords(c) ==
  /\ Awaits(c, "remove", "records")
  /\ record' = [r \in FaceRecord |-> IF r \in Current THEN "deleted" ELSE record[r]]
  /\ StepsTo(c, "save")
  /\ UNCHANGED <<robin, image, enrolled, settled>>

\* An update: a student without a row gets none.
SaveRemoved(c) ==
  /\ Awaits(c, "remove", "save")
  /\ enrolled' = IF enrolled = "none" THEN "none" ELSE "not_enrolled"
  /\ Completes(c, "removed")
  /\ UNCHANGED <<robin, image, record>>

-----------------------------------------------------------------------------
\* Asking.

\* getEnrollmentStatus: Robin is not asked about a removed enrollment; ...
GetEnrollmentStatus(c) ==
  /\ caller[c] = Free /\ enrolled # "not_enrolled"
  /\ Begins(c, [Free EXCEPT !.op = "status", !.step = "robin"])
  /\ UNCHANGED <<robin, image, record, enrolled, settled>>

\* ... what it says of another ...
RobinStatus(c) ==
  /\ Awaits(c, "status", "robin")
  /\ IF robin # None THEN StepsTo(c, "reread") ELSE Returns(c)
  /\ UNCHANGED <<robin, image, record, enrolled, settled>>

\* ... is saved unless the state read again says so already.
RereadStatus(c) ==
  /\ Awaits(c, "status", "reread")
  /\ IF enrolled # "enrolled" THEN StepsTo(c, "save") ELSE Returns(c)
  /\ UNCHANGED <<robin, image, record, enrolled, settled>>

AdoptStatus(c) ==
  /\ Awaits(c, "status", "save")
  /\ enrolled' = "enrolled"
  /\ Returns(c)
  /\ UNCHANGED <<robin, image, record, settled>>

-----------------------------------------------------------------------------
\* A call fails or is broken off.  A request to Robin that failed may have
\* been carried out.
CallBreaksOff(c) ==
  /\ caller[c] # Free
  /\ robin' \in {robin} \cup (CASE Awaits(c, "enroll", "robin") -> {caller[c].attempt}
                                [] Awaits(c, "remove", "robin") -> {None}
                                [] OTHER -> {})
  /\ Returns(c)
  /\ UNCHANGED <<image, record, enrolled, settled>>

FacesNext ==
  \E c \in Caller :
    \/ EnrollFace(c) \/ RobinEnroll(c) \/ UploadImage(c) \/ CreateImageRecord(c)
    \/ RetireRecord(c) \/ SaveEnrolled(c) \/ UploadFails(c) \/ Rollback(c)
    \/ RemoveEnrollment(c) \/ RobinDelete(c) \/ DeleteImages(c) \/ DeleteRecords(c) \/ SaveRemoved(c)
    \/ GetEnrollmentStatus(c) \/ RobinStatus(c) \/ RereadStatus(c) \/ AdoptStatus(c)
    \/ CallBreaksOff(c)

FacesSpec == FacesInit /\ [][FacesNext]_faceVars

-----------------------------------------------------------------------------
\* Properties.

\* A change that no other call met settles the three services, whatever
\* attempts broke off before it: an enrollment leaves its own embeddings, its
\* images and exactly its records under the state "enrolled", a removal leaves
\* no embeddings, no current records and no such state.  Status calls begun
\* afterwards keep it so ("a retry completes and reconciles", enrollFace;
\* deleteEnrollment).
ChangesSettle ==
  /\ settled \in Attempt =>
       /\ robin = settled /\ enrolled = "enrolled"
       /\ \A i \in Index : image[i] = settled
       /\ Current = {settled} \X Index
  /\ settled = "removed" => robin = None /\ enrolled # "enrolled" /\ Current = {}

\* What the comment in enrollFace says: a new state "enrolled" is never saved
\* without Robin's support.
EnrolledHasSupport ==
  [][enrolled # "enrolled" /\ enrolled' = "enrolled" => robin # None]_faceVars
=============================================================================
