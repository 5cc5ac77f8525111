------------------------------- MODULE Backoffice -------------------------------
(***************************************************************************)
(* The back office of one organizer: requests that change its members and  *)
(* requests that resolve its late payments, whose permission depends on    *)
(* the members of the moment they are checked in.                          *)
(***************************************************************************)
EXTENDS Membership, LatePayment

vars == <<membershipVars, lateVars, session>>

SessionStates ==
    [pc      : {"idle", "create", "creating", "role", "changing", "remove", "counting",
                "removing", "resolve", "resolving"},
     actor   : Users \cup {None},
     target  : Users \cup MemberIds \cup Cases \cup {None},
     was     : OrganizerRole \cup CaseStatus \cup {None},
     version : Nat,
     to      : MutableRoles \cup Resolutions \cup {None}]

TypeOK == MembershipTypeOK /\ LateTypeOK /\ session \in [Sessions -> SessionStates]

Init == MembershipInit /\ LateInit /\ session = [s \in Sessions |-> Idle]

\* A request dies before its transaction commits.
Crash(s) ==
    /\ ~At(s, "idle")
    /\ Leave(s)
    /\ UNCHANGED <<membershipVars, lateVars>>

Next ==
    \E s \in Sessions :
        \/ MembershipStep(s) /\ UNCHANGED lateVars
        \/ LateStep(s) /\ UNCHANGED membershipVars
        \/ Crash(s)

Spec == Init /\ [][Next]_vars
===============================================================================
