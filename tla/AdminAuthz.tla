------------------------------- MODULE AdminAuthz -------------------------------
(***************************************************************************)
(* Who may do what in one organizer: its memberships, the capabilities of  *)
(* a role, and the requests of the back office.  A request checks its      *)
(* permission first and acts later, in another transaction.                *)
(***************************************************************************)
EXTENDS Naturals, Sequences, FiniteSets

CONSTANTS
    Users,
    MemberIds,  \* ids of Membership rows; a row made again has another id
    Cases,      \* rows of LatePaymentCase
    Sessions,   \* concurrent requests
    None        \* no row, no request

VARIABLES
    member,  \* Membership: the user and the role of an id, or None
    session  \* what each request is doing

OrganizerRole   == {"owner", "admin", "staff", "scanner"}
AdminCapability == {"viewOrganizerSettings", "createEvent", "manageTicketTypes",
    "viewEventDashboard", "operateEvent", "scanTickets", "viewEventActivity",
    "viewLatePaymentCases", "resolveLatePayments", "resendOrderConfirmation"}

roleCapabilities == [r \in OrganizerRole |->
    CASE r \in {"owner", "admin"} -> AdminCapability
      [] r = "staff"   -> {"viewEventDashboard", "operateEvent", "scanTickets",
                           "viewEventActivity", "viewLatePaymentCases",
                           "resendOrderConfirmation"}
      [] r = "scanner" -> {"viewEventDashboard", "operateEvent", "scanTickets"}]

Rows     == {i \in MemberIds : member[i] # None}
RowsOf(u) == {i \in Rows : member[i].user = u}
Owners   == {i \in Rows : member[i].role = "owner"}

hasRole(u, roles) == \E i \in RowsOf(u) : member[i].role \in roles

\* requireOrganizerCapability.
hasAdminCapability(u, capability) ==
    \E i \in RowsOf(u) : capability \in roleCapabilities[member[i].role]

-------------------------------------------------------------------------------
\* A request: its user, its target, the role or the status and version it read of
\* the target, and what it asks for.
Idle == [pc |-> "idle", actor |-> None, target |-> None, was |-> None, version |-> 0, to |-> None]

At(s, pc)   == session[s].pc = pc
ActorOf(s)  == session[s].actor
TargetOf(s) == session[s].target
Was(s)      == session[s].was

Begin(s, pc, u, target, was, version, to) ==
    /\ At(s, "idle")
    /\ session' = [session EXCEPT ![s] = [pc |-> pc, actor |-> u, target |-> target,
                                         was |-> was, version |-> version, to |-> to]]
\* Past the checks nothing depends on who asks.
GoTo(s, pc) == session' = [session EXCEPT ![s].pc = pc, ![s].actor = None]
Leave(s)    == session' = [session EXCEPT ![s] = Idle]
===============================================================================
