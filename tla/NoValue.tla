------------------------------- MODULE NoValue -------------------------------
(* The null of the database and the absent argument of a call.               *)
CONSTANT None
=============================================================================
