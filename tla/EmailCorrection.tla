--------------------------- MODULE EmailCorrection ---------------------------
(***************************************************************************)
(* The correction of a student's email address, which the identity         *)
(* provider and profiles both hold.  The provider is told first; if the    *)
(* profile then refuses, the provider is told the old address again, and   *)
(* whether that succeeds nobody looks at.  The provider admits an address  *)
(* once, the profiles any number of times.  The audit row that ends a      *)
(* correction is left out.  StudentAccounts has the rest of an account's   *)
(* life, of which only its addresses show here.                            *)
(***************************************************************************)
EXTENDS NoValue

CONSTANTS Account,   \* students' accounts
          Address,   \* email addresses
          Registrar  \* concurrent administrators

ASSUME EmailAssumption == None \notin Account \cup Address

VARIABLES
  primaryEmail, \* the provider's address of each account, None without a user
  profileEmail, \* profiles.email
  correction,   \* the call of each administrator
  agreed        \* accounts whose last correction met nothing unforeseen (history)

emailVars == <<primaryEmail, profileEmail, correction, agreed>>

NoCorrection == [step |-> "none", account |-> None, old |-> None, new |-> None, alone |-> TRUE]

\* old is the address the profile had, alone that no other correction met it
\* and no answer was lost.
Correction ==
  {NoCorrection}
  \cup [step : {"provider", "profile", "undo"}, account : Account, old : Address, new : Address,
        alone : BOOLEAN]

EmailTypeOK ==
  /\ primaryEmail \in [Account -> Address \cup {None}]
  /\ profileEmail \in [Account -> Address \cup {None}]
  /\ correction \in [Registrar -> Correction]
  /\ agreed \subseteq Account
  /\ \A a, b \in Account : primaryEmail[a] = primaryEmail[b] => a = b \/ primaryEmail[a] = None

EmailInit ==
  /\ primaryEmail = [a \in Account |-> None] /\ profileEmail = [a \in Account |-> None]
  /\ correction = [d \in Registrar |-> NoCorrection]
  /\ agreed = {}

-----------------------------------------------------------------------------
\* Accounts come and go.

\* The provider has no other user with the address.
AddressFree(a, e) == \A b \in Account \ {a} : primaryEmail[b] # e

\* A student signs up.
AccountAppears(a) ==
  /\ profileEmail[a] = None
  /\ \E e \in Address :
       /\ AddressFree(a, e)
       /\ primaryEmail' = [primaryEmail EXCEPT ![a] = e]
       /\ profileEmail' = [profileEmail EXCEPT ![a] = e]
  /\ agreed' = agreed \cup {a}
  /\ UNCHANGED correction

\* A rejection deletes the provider's user; the profile keeps its address.
UserIsDeleted(a) ==
  /\ primaryEmail[a] # None
  /\ primaryEmail' = [primaryEmail EXCEPT ![a] = None]
  /\ UNCHANGED <<profileEmail, correction, agreed>>

-----------------------------------------------------------------------------
\* The correction.

Corrects(d, a) == correction[d].account = a

Continues(d, step) == correction' = [correction EXCEPT ![d].step = step]

\* A call ends; what it says of the addresses counts if it was alone.
Closes(d, agrees) ==
  /\ agreed' = IF agrees /\ correction[d].alone THEN agreed \cup {correction[d].account} ELSE agreed
  /\ correction' = [correction EXCEPT ![d] = NoCorrection]

\* correctStudentEmail reads the profile.  Corrections of one account meet.
CorrectStudentEmail(d) ==
  /\ correction[d] = NoCorrection
  /\ \E a \in Account, e \in Address :
       /\ profileEmail[a] # None
       /\ correction' = [f \in Registrar |->
            IF f = d THEN [step |-> "provider", account |-> a, old |-> profileEmail[a], new |-> e,
                           alone |-> \A g \in Registrar : ~Corrects(g, a)]
            ELSE IF Corrects(f, a) THEN [correction[f] EXCEPT !.alone = FALSE] ELSE correction[f]]
       /\ agreed' = agreed \ {a}
  /\ UNCHANGED <<primaryEmail, profileEmail>>

\* updateUserEmail: a user that is gone, or an address another user has, is an
\* error.
UpdateUserEmail(a, e) ==
  /\ primaryEmail[a] # None /\ AddressFree(a, e)
  /\ primaryEmail' = [primaryEmail EXCEPT ![a] = e]

TellProvider(d) ==
  /\ correction[d].step = "provider"
  /\ UpdateUserEmail(correction[d].account, correction[d].new)
  /\ Continues(d, "profile")
  /\ UNCHANGED <<profileEmail, agreed>>

\* updateProfileEmail, the last effect.
UpdateProfileEmail(d) ==
  /\ correction[d].step = "profile"
  /\ profileEmail' = [profileEmail EXCEPT ![correction[d].account] = correction[d].new]
  /\ Closes(d, TRUE)
  /\ UNCHANGED primaryEmail

\* It fails, or its answer is lost, which the handler cannot tell apart.
ProfileRefuses(d) ==
  /\ correction[d].step = "profile"
  /\ \/ Continues(d, "undo") /\ UNCHANGED profileEmail
     \/ /\ correction' = [correction EXCEPT ![d].step = "undo", ![d].alone = FALSE]
        /\ profileEmail' = [profileEmail EXCEPT ![correction[d].account] = correction[d].new]
  /\ UNCHANGED <<primaryEmail, agreed>>

\* Variant: the undoing repeats the request.
UndoneTo_New(c) == c.new

UndoneTo(c) == c.old

UndoEmail(d) ==
  /\ correction[d].step = "undo"
  /\ UpdateUserEmail(correction[d].account, UndoneTo(correction[d]))
  /\ Closes(d, TRUE)
  /\ UNCHANGED profileEmail

\* A request to the provider fails, its effect applied or not, or the process
\* goes; a failing undo is passed over.
CorrectionFails(d) ==
  /\ correction[d] # NoCorrection
  /\ Closes(d, FALSE)
  /\ UNCHANGED <<primaryEmail, profileEmail>>

EmailNext ==
  \/ \E a \in Account : AccountAppears(a) \/ UserIsDeleted(a)
  \/ \E d \in Registrar :
       \/ CorrectStudentEmail(d) \/ TellProvider(d) \/ UpdateProfileEmail(d)
       \/ ProfileRefuses(d) \/ UndoEmail(d) \/ CorrectionFails(d)

EmailSpec == EmailInit /\ [][EmailNext]_emailVars

-----------------------------------------------------------------------------
\* A correction that no other correction met, and of which no answer was lost
\* and no undoing failed, leaves the provider and the profile with one address,
\* the one a student signs in with and is written to, whatever corrections broke
\* off before (correctStudentEmail).
EmailsAgree ==
  \A a \in agreed : primaryEmail[a] # None => primaryEmail[a] = profileEmail[a]
=============================================================================
