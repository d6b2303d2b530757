---------------------------- MODULE MCSchoolDay ----------------------------
(***************************************************************************)
(* SchoolDay for TLC.                                                      *)
(***************************************************************************)
EXTENDS SchoolDay, TLC

Symmetry == Permutations(Request) \cup Permutations(Row) \cup Permutations(Attempt)
            \cup Permutations(Submission) \cup Permutations(Handler)
            \cup Permutations(Student)
=============================================================================
