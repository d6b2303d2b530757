----------------------------- MODULE ReportBook -----------------------------
(***************************************************************************)
(* What the Adiwiyata reports of a day promise, with no files, objects,    *)
(* handlers, transactions or locks: a book of who reported on which Site   *)
(* for which class.  A student reports once on a Site, for the class that  *)
(* the student is in at that moment, and until a report of that class on   *)
(* it is accepted.  An entry stays in the book.                            *)
(***************************************************************************)
CONSTANTS Pupil, Group, Place, NoGroup

VARIABLES
  group,    \* the class each student is in
  book,     \* <<s, c, x>>: student s reported on Site x for class c
  accepted  \* the entries that an administrator has verified

BookInit ==
  /\ group \in [Pupil -> Group]
  /\ book = {} /\ accepted = {}

Report(s, c, x) ==
  /\ group[s] = c
  /\ \A d \in Group : <<s, d, x>> \notin book
  /\ \A other \in Pupil : <<other, c, x>> \notin accepted
  /\ book' = book \cup {<<s, c, x>>}
  /\ UNCHANGED <<group, accepted>>

Accept(entry) ==
  /\ entry \in book \ accepted
  /\ accepted' = accepted \cup {entry}
  /\ UNCHANGED <<group, book>>

Withdraw(entry) ==
  /\ entry \in accepted
  /\ accepted' = accepted \ {entry}
  /\ UNCHANGED <<group, book>>

\* One student changes classes, leaves, or comes back.
Move(s, c) ==
  /\ group' = [group EXCEPT ![s] = c]
  /\ UNCHANGED <<book, accepted>>

BookNext ==
  \/ \E s \in Pupil, c \in Group, x \in Place :
       Report(s, c, x) \/ Accept(<<s, c, x>>) \/ Withdraw(<<s, c, x>>)
  \/ \E s \in Pupil, c \in Group \cup {NoGroup} : Move(s, c)

BookSpec == BookInit /\ [][BookNext]_<<group, book, accepted>>
=============================================================================
