-------------------------- MODULE MCStudentAccounts --------------------------
(* Instances of StudentAccounts for TLC.  Users, students, addresses and      *)
(* client invocations are told apart by name only.                            *)
EXTENDS StudentAccounts, TLC

Interchangeable ==
  Permutations(User) \cup Permutations(Nis) \cup Permutations(Email)
    \cup Permutations(Client)

\* Signups, and the decisions on them, while nobody signs in or recovers a
\* password: no step of those writes a profile, an identity or a binding.
SignupsNext == Next /\ UNCHANGED <<token, code, now>>

SignupsSpec == AccountsInit /\ [][SignupsNext]_vars
=============================================================================
