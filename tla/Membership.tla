------------------------------- MODULE Membership -------------------------------
(***************************************************************************)
(* The members of an organizer: creating one, changing a role, removing    *)
(* one, and the list of the settings page.  Each mutation reads the actor, *)
(* then the target, then (for an owner) counts the owners, and writes the  *)
(* row and its audit entry in a transaction that repeats none of these     *)
(* checks.                                                                 *)
(***************************************************************************)
EXTENDS AdminAuthz

CONSTANTS
    Founders,   \* the memberships an organizer may start with
    AskedRoles  \* the roles requests ask for

\* mutableOrganizerMemberRoleSchema: nobody is made an owner.
MutableRoles == {"admin", "staff", "scanner"}

MemberRow == [user : Users, role : OrganizerRole]

ASSUME MembershipAssumption ==
    /\ None \notin MemberRow
    /\ AskedRoles \subseteq MutableRoles
    /\ Founders \subseteq [MemberIds -> MemberRow \cup {None}]
    /\ \A f \in Founders :
        /\ \E i \in MemberIds : f[i] # None /\ f[i].role = "owner"
        /\ \A i, j \in MemberIds : f[i] # None /\ f[j] # None /\ f[i].user = f[j].user => i = j

VARIABLES
    audit,  \* AuditLog: the last entry of a membership id, or None
    raced   \* history: an owner was removed while another removal had counted

membershipVars == <<member, audit, raced>>

Entry == [action : {"created", "role_changed", "removed"}, role : OrganizerRole]

MembershipTypeOK ==
    /\ member \in [MemberIds -> MemberRow \cup {None}]
    /\ audit \in [MemberIds -> Entry \cup {None}]
    /\ raced \in BOOLEAN

\* POST /organizers makes its user the owner; more owners come from the seed.
MembershipInit ==
    /\ member \in Founders
    /\ audit = [i \in MemberIds |-> None]
    /\ raced = FALSE

-------------------------------------------------------------------------------
Log(i, action, role) == audit' = [audit EXCEPT ![i] = [action |-> action, role |-> role]]

\* The first check of the three mutations: the actor is an owner.
Authorize(s, u, op, target, to) ==
    /\ hasRole(u, {"owner"})
    /\ Begin(s, op, u, target, None, 0, to)
    /\ UNCHANGED membershipVars

\* POST /organizers/:id/memberships
CreateCheck(s) ==
    /\ At(s, "create")
    /\ IF RowsOf(TargetOf(s)) = {} THEN GoTo(s, "creating") ELSE Leave(s)
    /\ UNCHANGED membershipVars

\* The unique index of (userId, organizerId).
UserIsFree(s) == RowsOf(TargetOf(s)) = {}

CreateCommit(s) ==
    /\ At(s, "creating") /\ UserIsFree(s)
    /\ \E i \in MemberIds :
        /\ member[i] = None /\ audit[i] = None
        /\ member' = [member EXCEPT ![i] = [user |-> TargetOf(s), role |-> session[s].to]]
        /\ Log(i, "created", session[s].to)
    /\ Leave(s)
    /\ UNCHANGED raced

CreateTaken(s) ==
    /\ At(s, "creating") /\ ~UserIsFree(s)
    /\ Leave(s)
    /\ UNCHANGED membershipVars

\* POST /organizers/:id/memberships/:membershipId/role
RoleRefused(u, i, to) ==
    \/ i \notin Rows
    \/ member[i].role = "owner"
    \/ member[i].user = u
    \/ member[i].role = to

RoleCheck(s) ==
    /\ At(s, "role")
    /\ IF RoleRefused(ActorOf(s), TargetOf(s), session[s].to) THEN Leave(s) ELSE GoTo(s, "changing")
    /\ UNCHANGED membershipVars

BugUpdateMany(s) ==
    /\ At(s, "changing")
    /\ member' = IF TargetOf(s) \in Rows
                 THEN [member EXCEPT ![TargetOf(s)].role = session[s].to] ELSE member
    /\ Log(TargetOf(s), "role_changed", session[s].to)
    /\ Leave(s)
    /\ UNCHANGED raced

RoleCommit(s) ==
    /\ At(s, "changing") /\ TargetOf(s) \in Rows
    /\ member' = [member EXCEPT ![TargetOf(s)].role = session[s].to]
    /\ Log(TargetOf(s), "role_changed", session[s].to)
    /\ Leave(s)
    /\ UNCHANGED raced

\* DELETE /organizers/:id/memberships/:membershipId
RemoveCheck(s) ==
    /\ At(s, "remove")
    /\ IF TargetOf(s) \notin Rows \/ TargetOf(s) \in RowsOf(ActorOf(s))
       THEN Leave(s)
       ELSE session' = [session EXCEPT
                ![s].pc  = IF TargetOf(s) \in Owners THEN "counting" ELSE "removing",
                ![s].was = member[TargetOf(s)].role]
    /\ UNCHANGED membershipVars

BugAnyOwner == Owners # {}

AnotherOwner == Cardinality(Owners) > 1

RemoveCount(s) ==
    /\ At(s, "counting")
    /\ IF AnotherOwner THEN GoTo(s, "removing") ELSE Leave(s)
    /\ UNCHANGED membershipVars

RemovesOwner(s) == At(s, "removing") /\ Was(s) = "owner"

BugRoleOfBody(s) ==
    /\ At(s, "removing") /\ TargetOf(s) \in Rows
    /\ member' = [member EXCEPT ![TargetOf(s)] = None]
    /\ Log(TargetOf(s), "removed", session[s].to)
    /\ Leave(s)
    /\ UNCHANGED raced

RemoveCommit(s) ==
    /\ At(s, "removing") /\ TargetOf(s) \in Rows
    /\ member' = [member EXCEPT ![TargetOf(s)] = None]
    /\ Log(TargetOf(s), "removed", Was(s))
    /\ raced' = (raced \/ (RemovesOwner(s) /\ \E q \in Sessions \ {s} : RemovesOwner(q)))
    /\ Leave(s)

\* P2025: the row is gone, and the transaction with it.
RowIsGone(s) ==
    /\ At(s, "changing") \/ At(s, "removing")
    /\ TargetOf(s) \notin Rows
    /\ Leave(s)
    /\ UNCHANGED membershipVars
-------------------------------------------------------------------------------
MembershipStep(s) ==
    \/ \E u \in Users :
        \/ \E t \in Users, r \in AskedRoles : Authorize(s, u, "create", t, r)
        \/ \E i \in MemberIds, r \in AskedRoles : Authorize(s, u, "role", i, r)
        \/ \E i \in MemberIds : Authorize(s, u, "remove", i, None)
    \/ CreateCheck(s) \/ CreateCommit(s) \/ CreateTaken(s)
    \/ RoleCheck(s) \/ RoleCommit(s)
    \/ RemoveCheck(s) \/ RemoveCount(s) \/ RemoveCommit(s)
    \/ RowIsGone(s)
-------------------------------------------------------------------------------
(* GET /organizers/:id/memberships                                          *)

BugOfferedToAll(u, i) == member[i].role # "owner" /\ member[i].user # u

canChangeRole(u, i) ==
    hasRole(u, {"owner"}) /\ member[i].role # "owner" /\ member[i].user # u

allowedRoleTargets(i) == IF member[i].role = "owner" THEN {} ELSE MutableRoles

\* The capabilities of the list, written out a second time.
ListedCapabilities(role) ==
    {"viewEventDashboard", "operateEvent", "scanTickets"}
        \cup (IF role \in {"owner", "admin"}
              THEN {"viewOrganizerSettings", "createEvent", "manageTicketTypes",
                    "resolveLatePayments"}
              ELSE {})
        \cup (IF role # "scanner"
              THEN {"viewEventActivity", "viewLatePaymentCases", "resendOrderConfirmation"}
              ELSE {})
-------------------------------------------------------------------------------
(* Properties                                                               *)

\* The guard of the last owner counts outside the transaction that removes: an
\* organizer without an owner is the work of removals that overlapped, one of an
\* owner committed while another had already counted it; nothing else does it, no
\* change of a role, stale permission or row made again (server.ts:497-518).
OwnersAreLostOnlyToOverlap == Owners = {} => raced

\* The log agrees with the rows, although it is written from what was read
\* earlier: the last entry of an id is its removal exactly if the row is gone, and
\* names its role otherwise; nobody is a member twice (server.ts:368-409,
\* 449-479, 517-542).
AuditTellsTheMembers ==
    /\ \A i \in MemberIds : audit[i] # None =>
        IF member[i] = None THEN audit[i].action = "removed"
                            ELSE audit[i].action # "removed" /\ audit[i].role = member[i].role
    /\ \A i, j \in Rows : member[i].user = member[j].user => i = j

\* What the settings page offers is what the API accepts: the capabilities it
\* lists are those requireOrganizerCapability grants, and the roles it lets a user
\* give are those the change of a role does not refuse (server.ts:326-339,
\* 419-447, adminAuthz.ts:32-53).
ListTellsTheTruth ==
    \A u \in Users, i \in Rows :
        /\ \A c \in AdminCapability :
            c \in ListedCapabilities(member[i].role) <=> hasAdminCapability(member[i].user, c)
        /\ canChangeRole(u, i) =>
            /\ hasRole(u, {"owner"})
            /\ \A r \in allowedRoleTargets(i) \ {member[i].role} : ~RoleRefused(u, i, r)
===============================================================================
