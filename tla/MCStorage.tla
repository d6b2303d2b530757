------------------------------ MODULE MCStorage ------------------------------
(* What is kept outside the database, for TLC: the photos of Adiwiyata        *)
(* reports, permit attachments, face enrollments and the counters of the rate *)
(* limiter.  They share no state.  A behaviour is one of one of them, chosen  *)
(* at the start; what does not move starts in one state.                      *)
EXTENDS AdiwiyataReports, StoredFiles, FaceEnrollment, RateLimit, TLC

VARIABLE part

\* Submissions, attempts and requests are told apart by name only, and so are
\* students, classes, Sites, permits and hosts.
Interchangeable ==
  Permutations(Submission) \cup Permutations(Student) \cup Permutations(Class)
    \cup Permutations(Site)

StorageTypeOK == ReportsTypeOK /\ FilesTypeOK /\ FacesTypeOK /\ RateTypeOK

StorageInit ==
  /\ part \in {"reports", "files", "faces", "rate"}
  /\ ReportsInit /\ FilesInit /\ FacesInit /\ RateInit
  /\ part # "reports" => class = [s \in Student |-> CHOOSE c \in Class : TRUE]
  /\ part # "rate" => backend = "memory" /\ ahead = [h \in Host |-> 0]

StorageNext ==
  /\ UNCHANGED part
  /\ \/ part = "reports" /\ Next /\ UNCHANGED <<fileVars, faceVars, rateVars>>
     \/ part = "files" /\ FilesNext /\ UNCHANGED <<vars, faceVars, rateVars>>
     \/ part = "faces" /\ FacesNext /\ UNCHANGED <<vars, fileVars, rateVars>>
     \/ part = "rate" /\ RateNext /\ UNCHANGED <<vars, fileVars, faceVars>>

StorageSpec == StorageInit /\ [][StorageNext]_<<part, vars, fileVars, faceVars, rateVars>>
=============================================================================
