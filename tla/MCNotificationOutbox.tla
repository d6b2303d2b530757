----------------------- MODULE MCNotificationOutbox -----------------------
(***************************************************************************)
(* NotificationOutbox for TLC.                                             *)
(***************************************************************************)
EXTENDS NotificationOutbox, TLC

Symmetry == Permutations(Worker)
=============================================================================
