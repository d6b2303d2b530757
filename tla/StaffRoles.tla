----------------------------- MODULE StaffRoles -----------------------------
(***************************************************************************)
(* Staff members and their roles, which three stores hold: the identity    *)
(* provider, whose roles end up in the tokens, profiles.role and           *)
(* user_roles.  A handler writes them one after the other, each write may  *)
(* fail, and two administrators may be at it at once.                      *)
(*                                                                         *)
(* One token of each staff member is followed, any of those it was issued: *)
(* whether a token is admitted depends on no other.  Left out: the table   *)
(* of roles, of which these handlers only ask whether a name is active, so *)
(* that any name may be asked for and any request be refused; permissions, *)
(* which are reported and never authorize; the provider's own sessions,    *)
(* whose revocation changes nothing here but may fail; and the audit row   *)
(* that ends a call.                                                       *)
(***************************************************************************)
EXTENDS Naturals, NoValue

CONSTANTS Staff,      \* staff members, by their address
          Name,       \* role names
          Primary,    \* names profiles_role_check admits
          PlatformAdmin,
          Officer,    \* concurrent administrators
          Lists,      \* bound: lists of further roles that requests give
          LastTick    \* bound: seconds that pass

ASSUME StaffAssumption ==
  /\ PlatformAdmin \in Primary /\ Primary \subseteq Name
  /\ LastTick \in Nat \ {0}
  /\ Lists \subseteq SUBSET Name
  /\ None \notin Name

VARIABLES
  staffIdentity, \* the provider's users: the names of their roles
  staffProfile,  \* profiles of staff: role and lifecycle_status
  userRoles,     \* user_roles, by staff member
  staffCutoff,   \* the latest revoked_sessions row of each; 0 is none
  staffToken,    \* a token of each: the roles it carries, when it was issued
  clock,         \* the time, in the seconds tokens count
  settled,       \* what the last change wrote, if it met no other (history)
  office         \* what each administrator is doing

staffVars ==
  <<staffIdentity, staffProfile, userRoles, staffCutoff, staffToken, clock, settled, office>>

Lifecycle == {"approved", "disabled"}

StaffRow == [role : Primary, status : Lifecycle]
StaffToken == [roles : SUBSET Name, at : 1 .. LastTick]

\* The null of the database is no list of roles, no row and no token.
ASSUME StaffNullAssumption ==
  /\ \A names \in SUBSET Name : names # None
  /\ \A row \in StaffRow \cup StaffToken : row # None

AtRest == [op |-> "idle"]

\* role, names and status are what the request asks for, None if it does not;
\* seen is the row the store read, alone that no other change met this one.
Work == {AtRest}
  \cup [op : {"assign", "read", "publish"}, new : BOOLEAN,
        staff : Staff, role : Name \cup {None}, names : (SUBSET Name) \cup {None},
        status : Lifecycle \cup {None}, seen : StaffRow \cup {None}, alone : BOOLEAN]

StaffTypeOK ==
  /\ staffIdentity \in [Staff -> (SUBSET Name) \cup {None}]
  /\ staffProfile \in [Staff -> StaffRow \cup {None}]
  /\ userRoles \in [Staff -> SUBSET Name]
  /\ staffCutoff \in [Staff -> 0 .. LastTick]
  /\ staffToken \in [Staff -> StaffToken \cup {None}]
  /\ clock \in 1 .. LastTick
  /\ settled \in [Staff -> {"nothing", "status", "roles"}]
  /\ office \in [Officer -> Work]
  /\ \A s \in Staff : staffProfile[s] # None => staffIdentity[s] # None

\* getUserRoles.
NamesOf(s) == userRoles[s] \cup {staffProfile[s].role}

StaffInit ==
  /\ staffIdentity = [s \in Staff |-> None] /\ staffProfile = [s \in Staff |-> None]
  /\ userRoles = [s \in Staff |-> {}]
  /\ staffCutoff = [s \in Staff |-> 0] /\ staffToken = [s \in Staff |-> None] /\ clock = 1
  /\ settled = [s \in Staff |-> "nothing"]
  /\ office = [d \in Officer |-> AtRest]

-----------------------------------------------------------------------------
\* Staff.

Changes(d, s) == office[d] # AtRest /\ office[d].staff = s

\* A change of s begins: it and those under way have met, and what was settled
\* is open again.
Begin(d, s, w) ==
  /\ office' = [e \in Officer |->
       IF e = d THEN [w EXCEPT !.alone = \A f \in Officer : ~Changes(f, s)]
       ELSE IF Changes(e, s) THEN [office[e] EXCEPT !.alone = FALSE] ELSE office[e]]
  /\ settled' = [settled EXCEPT ![s] = "nothing"]

OfficerRank == {"platform_admin", "school_admin"}

\* A school administrator may not hand out the platform administrator's role,
\* nor change who has it.
MayTouch(rank, names) == rank = "school_admin" => PlatformAdmin \notin names

\* createStaffIdentity: an address that has one is a conflict.
CreateStaffIdentity(s) ==
  staffIdentity[s] = None /\ staffIdentity' = [staffIdentity EXCEPT ![s] = {}]

\* createStaff: if the provider refuses the identity, nothing begins.
CreateStaff(d) ==
  /\ office[d] = AtRest
  /\ \E s \in Staff, n \in Name, extra \in Lists \cup {{}}, rank \in OfficerRank :
       LET names == extra \cup {n} IN
         /\ MayTouch(rank, names)
         /\ CreateStaffIdentity(s)
         /\ Begin(d, s, [op |-> "assign", new |-> TRUE, staff |-> s, role |-> n, names |-> names,
                         status |-> None, seen |-> None, alone |-> TRUE])
  /\ UNCHANGED <<staffProfile, userRoles, staffCutoff, staffToken, clock>>

Goes(d, op) == office' = [office EXCEPT ![d].op = op]

\* Variant: roles without a primary role leave it out.
Assigned_ListOnly(s, n, extra) == (IF n = None THEN {} ELSE {n}) \cup (IF extra = None THEN {} ELSE extra)

\* The roles an update asks for: the primary role stays if it sets none.
Assigned(s, n, extra) ==
  {IF n = None THEN staffProfile[s].role ELSE n} \cup (IF extra = None THEN {} ELSE extra)

\* updateStaff: a request that sets neither a role nor roles goes straight to
\* the store.  The rank of the staff member is checked now and never again.
UpdateStaff(d) ==
  /\ office[d] = AtRest
  /\ \E s \in Staff, n \in Name \cup {None}, extra \in Lists \cup {None},
       status \in Lifecycle \cup {None}, rank \in OfficerRank :
       /\ staffProfile[s] # None
       /\ MayTouch(rank, NamesOf(s))
       /\ LET sets == n # None \/ extra # None
              names == IF sets THEN Assigned(s, n, extra) ELSE None
          IN /\ sets => MayTouch(rank, names)
             /\ Begin(d, s, [op |-> IF sets THEN "assign" ELSE "read", new |-> FALSE, staff |-> s,
                             role |-> n, names |-> names, status |-> status, seen |-> None,
                             alone |-> TRUE])
  /\ UNCHANGED <<staffIdentity, staffProfile, userRoles, staffCutoff, staffToken, clock>>

\* assignRoles replaces the roles of the identity.
AssignRoles(d) ==
  /\ office[d].op = "assign"
  /\ LET w == office[d] IN
       /\ staffIdentity' = [staffIdentity EXCEPT ![w.staff] = w.names]
       /\ Goes(d, IF w.new THEN "publish" ELSE "read")
  /\ UNCHANGED <<staffProfile, userRoles, staffCutoff, staffToken, clock, settled>>

\* The change is written, the last effect of the call.
ChangeEnds(d, what) ==
  /\ settled' = [settled EXCEPT ![office[d].staff] = IF office[d].alone THEN what ELSE "nothing"]
  /\ office' = [office EXCEPT ![d] = AtRest]

\* createStaffProfile.  A primary role the table's check refuses is found out
\* only here.
CreateStaffProfile(d) ==
  /\ office[d].op = "publish" /\ office[d].new
  /\ LET w == office[d] IN
       /\ staffProfile[w.staff] = None /\ w.role \in Primary
       /\ staffProfile' = [staffProfile EXCEPT ![w.staff] = [role |-> w.role, status |-> "approved"]]
       /\ userRoles' = [userRoles EXCEPT ![w.staff] = w.names]
  /\ ChangeEnds(d, "roles")
  /\ UNCHANGED <<staffIdentity, staffCutoff, staffToken, clock>>

\* updateStaffProfile reads the row outside its transaction ...
ReadStaffProfile(d) ==
  /\ office[d].op = "read"
  /\ office' = [office EXCEPT ![d].op = "publish", ![d].seen = staffProfile[office[d].staff]]
  /\ UNCHANGED <<staffIdentity, staffProfile, userRoles, staffCutoff, staffToken, clock, settled>>

\* Variant: only a change of status revokes.
Cutoff_StatusOnly(w) == IF w.status = None THEN staffCutoff[w.staff] ELSE clock

\* A change of role, roles or status revokes the tokens issued by now.
Cutoff(w) == IF w.status = None /\ w.names = None THEN staffCutoff[w.staff] ELSE clock

\* What the request leaves out is written back as it was read.
Written(w) ==
  [role |-> IF w.role = None THEN w.seen.role ELSE w.role,
   status |-> IF w.status = None THEN w.seen.status ELSE w.status]

\* ... that writes the profile, the roles and the cutoff.
UpdateStaffProfile(d) ==
  /\ office[d].op = "publish" /\ ~office[d].new
  /\ LET w == office[d] IN
       /\ w.role \in Primary \cup {None}
       /\ staffProfile' = [staffProfile EXCEPT ![w.staff] = Written(w)]
       /\ userRoles' = [userRoles EXCEPT ![w.staff] = IF w.names = None THEN @ ELSE w.names]
       /\ staffCutoff' = [staffCutoff EXCEPT ![w.staff] = Cutoff(w)]
       /\ ChangeEnds(d, IF w.names # None THEN "roles"
                  ELSE IF w.status # None THEN "status" ELSE "nothing")
  /\ UNCHANGED <<staffIdentity, staffToken, clock>>

\* A call that is refused, fails or is broken off: what was written stays.
ChangeFails(d) ==
  /\ office[d] # AtRest
  /\ office' = [office EXCEPT ![d] = AtRest]
  /\ UNCHANGED <<staffIdentity, staffProfile, userRoles, staffCutoff, staffToken, clock, settled>>

-----------------------------------------------------------------------------
\* Tokens.

\* The provider puts the roles of the moment in a token.
StaffSignIn(s) ==
  /\ staffIdentity[s] # None
  /\ staffToken' = [staffToken EXCEPT ![s] = [roles |-> staffIdentity[s], at |-> clock]]
  /\ UNCHANGED <<staffIdentity, staffProfile, userRoles, staffCutoff, clock, settled, office>>

ClockTicks ==
  /\ clock < LastTick /\ clock' = clock + 1
  /\ UNCHANGED <<staffIdentity, staffProfile, userRoles, staffCutoff, staffToken, settled, office>>

\* The authentication middleware: a token without roles has no scope; the
\* others must not be revoked, and the profile is approved.
Admitted(s) ==
  /\ staffToken[s] # None /\ staffProfile[s] # None
  /\ staffToken[s].roles # {} /\ staffToken[s].at > staffCutoff[s]
  /\ staffProfile[s].status = "approved"

StaffNext ==
  \/ \E d \in Officer :
       \/ CreateStaff(d) \/ UpdateStaff(d) \/ AssignRoles(d)
       \/ CreateStaffProfile(d) \/ ReadStaffProfile(d) \/ UpdateStaffProfile(d) \/ ChangeFails(d)
  \/ \E s \in Staff : StaffSignIn(s)
  \/ ClockTicks

StaffSpec == StaffInit /\ [][StaffNext]_staffVars

-----------------------------------------------------------------------------
\* Properties.

\* Once a change of access is written, and no other has met it, every token
\* that is admitted carries the roles the provider holds, none that it was
\* issued with before (updateStaff, isSessionRevoked; invariants.md,
\* INV-ASTRA-014).
SettledRolesAreInForce ==
  \A s \in Staff : settled[s] # "nothing" /\ Admitted(s) => staffToken[s].roles = staffIdentity[s]

\* Once a change of roles is written, and no other has met it, the provider and
\* the database hold the same roles, the primary one among them, whatever
\* earlier changes failed half-way (createStaff, updateStaff; invariants.md,
\* INV-ASTRA-012).
SettledRolesAgree ==
  \A s \in Staff : settled[s] = "roles" => staffIdentity[s] = NamesOf(s)
=============================================================================
