---------------------------- MODULE BackofficeProofs ----------------------------
(***************************************************************************)
(* An organizer loses its last owner only to removals that overlap, the    *)
(* log and the settings page tell the truth, and the events of a late      *)
(* payment one story, for any numbers of users, cases and requests.  Most  *)
(* steps only move a request along; four commit.                           *)
(***************************************************************************)
EXTENDS Backoffice, FiniteSetTheorems, TLAPS

\* What a request that has passed its checks still relies on when it commits.
SessionOK(s) ==
    /\ At(s, "create") \/ At(s, "creating") =>
        TargetOf(s) \in Users /\ session[s].to \in MutableRoles
    /\ At(s, "role") \/ At(s, "changing") =>
        TargetOf(s) \in MemberIds /\ session[s].to \in MutableRoles
    /\ At(s, "remove") \/ At(s, "counting") \/ At(s, "removing") => TargetOf(s) \in MemberIds
    /\ At(s, "changing") => TargetOf(s) \notin Owners
    /\ At(s, "counting") => Was(s) = "owner"
    /\ At(s, "removing") => /\ Was(s) \in OrganizerRole
                            /\ Was(s) = "owner" \/ TargetOf(s) \notin Owners
    /\ RemovesOwner(s) => raced \/ \E i \in Owners : i # TargetOf(s)
    /\ At(s, "resolve") \/ At(s, "resolving") =>
        /\ TargetOf(s) \in Cases /\ Was(s) \in CaseStatus /\ session[s].to \in Resolutions
    /\ At(s, "resolving") => session[s].to \in allowedTransitions(Was(s))

IInv ==
    /\ TypeOK
    /\ \A s \in Sessions : SessionOK(s)
    /\ OwnersAreLostOnlyToOverlap
    /\ AuditTellsTheMembers
    /\ EventsTellOneStory

\* What s does leaves the other requests alone.
Alone(s) == \A q \in Sessions \ {s} : session'[q] = session[q]

\* The record of s moves on, and nothing else.
Moves(s) ==
    /\ UNCHANGED <<membershipVars, lateVars>>
    /\ Alone(s) /\ session' \in [Sessions -> SessionStates]
    /\ SessionOK(s)'
-------------------------------------------------------------------------------
LEMMA BeginFacts ==
    ASSUME TypeOK, NEW s \in Sessions,
           NEW pc \in {"create", "role", "remove", "resolve"}, NEW u \in Users,
           NEW target \in Users \cup MemberIds \cup Cases,
           NEW was \in CaseStatus \cup {None}, NEW version \in Nat,
           NEW to \in MutableRoles \cup Resolutions \cup {None},
           Begin(s, pc, u, target, was, version, to)
    PROVE  /\ Alone(s) /\ session' \in [Sessions -> SessionStates]
           /\ session'[s].pc = pc /\ session'[s].target = target
           /\ session'[s].was = was /\ session'[s].to = to
  BY DEF TypeOK, Begin, SessionStates, Alone

LEMMA GoToFacts ==
    ASSUME TypeOK, NEW s \in Sessions,
           NEW pc \in {"creating", "changing", "removing", "resolving"}, GoTo(s, pc)
    PROVE  /\ Alone(s) /\ session' \in [Sessions -> SessionStates]
           /\ session'[s].pc = pc /\ session'[s].target = TargetOf(s)
           /\ session'[s].was = Was(s) /\ session'[s].to = session[s].to
<1>1. session' = [session EXCEPT ![s] = [session[s] EXCEPT !.pc = pc, !.actor = None]]
  BY DEF TypeOK, GoTo
<1>2. [session[s] EXCEPT !.pc = pc, !.actor = None] \in SessionStates
  BY DEF TypeOK, SessionStates
<1> QED BY <1>1, <1>2 DEF TypeOK, SessionStates, Alone, TargetOf, Was

LEMMA LeaveFacts ==
    ASSUME TypeOK, NEW s \in Sessions, Leave(s)
    PROVE  /\ Alone(s) /\ session' \in [Sessions -> SessionStates]
           /\ session'[s].pc = "idle"
  BY DEF TypeOK, Leave, Idle, SessionStates, Alone

LEMMA LeaveMoves ==
    ASSUME TypeOK, NEW s \in Sessions, Leave(s), UNCHANGED <<membershipVars, lateVars>>
    PROVE  Moves(s)
  BY LeaveFacts DEF Moves, SessionOK, At, RemovesOwner

LEMMA OwnersFacts ==
    ASSUME TypeOK
    PROVE  /\ Rows \subseteq MemberIds /\ Owners \subseteq Rows
           /\ \A i \in Rows : member[i].user \in Users /\ member[i].role \in OrganizerRole
  BY MembershipAssumption DEF TypeOK, MembershipTypeOK, Rows, Owners, MemberRow

\* Who counts more than one owner leaves one that is not its target.
LEMMA CountLeavesOne ==
    ASSUME NEW t, AnotherOwner PROVE \E i \in Owners : i # t
<1> SUFFICES ASSUME \A i \in Owners : i = t PROVE FALSE
  OBVIOUS
<1>1. Owners \in SUBSET {t} /\ IsFiniteSet({t}) /\ Cardinality({t}) = 1
  BY FS_Singleton
<1>2. Cardinality(Owners) <= 1 /\ Cardinality(Owners) \in Nat
  BY <1>1, FS_Subset, FS_CardinalityType
<1> QED BY <1>2 DEF AnotherOwner
-------------------------------------------------------------------------------
(* The steps that move a request along                                      *)

LEMMA MembershipMoves ==
    ASSUME IInv, NEW s \in Sessions, UNCHANGED lateVars,
           \/ \E u \in Users :
                \/ \E t \in Users, r \in AskedRoles : Authorize(s, u, "create", t, r)
                \/ \E i \in MemberIds, r \in AskedRoles : Authorize(s, u, "role", i, r)
                \/ \E i \in MemberIds : Authorize(s, u, "remove", i, None)
           \/ CreateCheck(s) \/ CreateTaken(s) \/ RoleCheck(s) \/ RemoveCheck(s)
           \/ RemoveCount(s) \/ RowIsGone(s)
    PROVE  Moves(s)
<1>0. TypeOK /\ SessionOK(s)
  BY DEF IInv
<1>1. ASSUME NEW u \in Users, NEW t \in Users, NEW r \in AskedRoles,
             Authorize(s, u, "create", t, r)
      PROVE  Moves(s)
  <2>1. /\ Begin(s, "create", u, t, None, 0, r) /\ UNCHANGED membershipVars
        /\ r \in MutableRoles
    BY <1>1, MembershipAssumption DEF Authorize
  <2> QED BY <1>0, <2>1, BeginFacts DEF Moves, SessionOK, At, TargetOf, RemovesOwner
<1>2. ASSUME NEW u \in Users, NEW i \in MemberIds, NEW r \in AskedRoles,
             Authorize(s, u, "role", i, r)
      PROVE  Moves(s)
  <2>1. /\ Begin(s, "role", u, i, None, 0, r) /\ UNCHANGED membershipVars
        /\ r \in MutableRoles
    BY <1>2, MembershipAssumption DEF Authorize
  <2> QED BY <1>0, <2>1, BeginFacts DEF Moves, SessionOK, At, TargetOf, RemovesOwner
<1>3. ASSUME NEW u \in Users, NEW i \in MemberIds, Authorize(s, u, "remove", i, None)
      PROVE  Moves(s)
  <2>1. Begin(s, "remove", u, i, None, 0, None) /\ UNCHANGED membershipVars
    BY <1>3 DEF Authorize
  <2> QED BY <1>0, <2>1, BeginFacts DEF Moves, SessionOK, At, TargetOf, RemovesOwner
<1>4. CASE CreateCheck(s)
  <2>1. At(s, "create") /\ UNCHANGED membershipVars /\ (GoTo(s, "creating") \/ Leave(s))
    BY <1>4 DEF CreateCheck
  <2>2. CASE GoTo(s, "creating")
    BY <1>0, <2>1, <2>2, GoToFacts DEF Moves, SessionOK, At, TargetOf, RemovesOwner
  <2> QED BY <1>0, <2>1, <2>2, LeaveMoves
<1>5. CASE RoleCheck(s)
  <2>1. /\ At(s, "role") /\ UNCHANGED membershipVars
        /\ \/ GoTo(s, "changing") /\ ~RoleRefused(ActorOf(s), TargetOf(s), session[s].to)
           \/ Leave(s)
    BY <1>5 DEF RoleCheck
  <2>2. CASE GoTo(s, "changing") /\ ~RoleRefused(ActorOf(s), TargetOf(s), session[s].to)
    <3>1. TargetOf(s) \notin Owners /\ Owners' = Owners
      BY <2>1, <2>2 DEF RoleRefused, Owners, Rows, membershipVars
    <3> QED BY <1>0, <2>1, <2>2, <3>1, GoToFacts
            DEF Moves, SessionOK, At, TargetOf, RemovesOwner
  <2> QED BY <1>0, <2>1, <2>2, LeaveMoves
<1>6. CASE RemoveCheck(s)
  <2> DEFINE pc == IF TargetOf(s) \in Owners THEN "counting" ELSE "removing"
             role == member[TargetOf(s)].role
  <2>1. /\ At(s, "remove") /\ UNCHANGED membershipVars
        /\ \/ TargetOf(s) \in Rows /\ session' = [session EXCEPT ![s].pc = pc, ![s].was = role]
           \/ Leave(s)
    BY <1>6 DEF RemoveCheck
  <2>2. CASE TargetOf(s) \in Rows /\ session' = [session EXCEPT ![s].pc = pc, ![s].was = role]
    <3>1. role \in OrganizerRole /\ (TargetOf(s) \in Owners <=> role = "owner")
      BY <1>0, <2>2, OwnersFacts DEF Owners
    <3>2. TargetOf(s) \in MemberIds /\ Owners' = Owners
      BY <1>0, <2>1 DEF SessionOK, Owners, Rows, membershipVars
    <3>3. pc \in {"counting", "removing"} /\ (pc = "counting" <=> role = "owner")
      BY <3>1
    <3> HIDE DEF pc, role
    <3>4. session' = [session EXCEPT ![s] = [session[s] EXCEPT !.pc = pc, !.was = role]]
      BY <1>0, <2>2 DEF TypeOK
    <3>5. [session[s] EXCEPT !.pc = pc, !.was = role] \in SessionStates
      BY <1>0, <3>1, <3>3 DEF TypeOK, SessionStates
    <3>6. /\ Alone(s) /\ session' \in [Sessions -> SessionStates]
          /\ session'[s].pc = pc /\ session'[s].was = role
          /\ session'[s].target = TargetOf(s)
      BY <1>0, <3>4, <3>5 DEF TypeOK, SessionStates, Alone, TargetOf
    <3> QED BY <2>1, <3>1, <3>2, <3>3, <3>6
            DEF Moves, SessionOK, At, TargetOf, Was, RemovesOwner
  <2> QED BY <1>0, <2>1, <2>2, LeaveMoves
<1>7. CASE RemoveCount(s)
  <2>1. /\ At(s, "counting") /\ UNCHANGED membershipVars
        /\ (GoTo(s, "removing") /\ AnotherOwner) \/ Leave(s)
    BY <1>7 DEF RemoveCount
  <2>2. CASE GoTo(s, "removing") /\ AnotherOwner
    <3>1. \E i \in Owners : i # TargetOf(s)
      BY <2>2, CountLeavesOne
    <3>2. Was(s) = "owner" /\ TargetOf(s) \in MemberIds /\ "owner" \in OrganizerRole
      BY <1>0, <2>1 DEF SessionOK, OrganizerRole
    <3>3. Owners' = Owners
      BY <2>1 DEF Owners, Rows, membershipVars
    <3> QED BY <1>0, <2>1, <2>2, <3>1, <3>2, <3>3, GoToFacts
            DEF Moves, SessionOK, At, TargetOf, Was, RemovesOwner
  <2> QED BY <1>0, <2>1, <2>2, LeaveMoves
<1>8. CASE CreateTaken(s) \/ RowIsGone(s)
  BY <1>0, <1>8, LeaveMoves DEF CreateTaken, RowIsGone
<1> QED BY <1>1, <1>2, <1>3, <1>4, <1>5, <1>6, <1>7, <1>8

LEMMA LateMoves ==
    ASSUME IInv, NEW s \in Sessions, UNCHANGED membershipVars,
           \/ \E u \in Users, c \in Cases, to \in AskedActions : ResolveRead(s, u, c, to)
           \/ ResolveCheck(s) \/ ResolveConflict(s)
    PROVE  Moves(s)
<1>0. TypeOK /\ SessionOK(s)
  BY DEF IInv
<1>1. ASSUME NEW u \in Users, NEW c \in Cases, NEW to \in AskedActions,
             ResolveRead(s, u, c, to)
      PROVE  Moves(s)
  <2>1. /\ Begin(s, "resolve", u, c, case[c].status, case[c].version, to)
        /\ UNCHANGED lateVars /\ to \in Resolutions
        /\ case[c].status \in CaseStatus /\ case[c].version \in Nat
    BY <1>0, <1>1, LatePaymentAssumption DEF ResolveRead, TypeOK, LateTypeOK
  <2> QED BY <1>0, <2>1, BeginFacts DEF Moves, SessionOK, At, TargetOf, Was, RemovesOwner
<1>2. CASE ResolveCheck(s)
  <2>1. /\ At(s, "resolve") /\ UNCHANGED lateVars
        /\ (GoTo(s, "resolving") /\ Allowed(s)) \/ Leave(s)
    BY <1>2 DEF ResolveCheck
  <2>2. CASE GoTo(s, "resolving") /\ Allowed(s)
    BY <1>0, <2>1, <2>2, GoToFacts
       DEF Moves, SessionOK, At, TargetOf, Was, RemovesOwner, Allowed
  <2> QED BY <1>0, <2>1, <2>2, LeaveMoves
<1>3. CASE ResolveConflict(s)
  BY <1>0, <1>3, LeaveMoves DEF ResolveConflict
<1> QED BY <1>1, <1>2, <1>3

LEMMA MovesKeeps ==
    ASSUME IInv, NEW s \in Sessions, Moves(s) PROVE IInv'
<1>1. UNCHANGED <<member, audit, raced, case, flag, events>>
  BY DEF Moves, membershipVars, lateVars
<1>2. TypeOK'
  BY <1>1 DEF IInv, TypeOK, MembershipTypeOK, LateTypeOK, Moves
<1>3. ASSUME NEW q \in Sessions PROVE SessionOK(q)'
  <2>1. CASE q = s
    BY <2>1 DEF Moves
  <2>2. CASE q # s
    <3>1. session'[q] = session[q] /\ Owners' = Owners /\ raced' = raced
      BY <1>1, <2>2 DEF Moves, Alone, Owners, Rows
    <3>2. SessionOK(q)
      BY DEF IInv
    <3> QED BY <3>1, <3>2 DEF SessionOK, At, TargetOf, Was, RemovesOwner
  <2> QED BY <2>1, <2>2
<1>4. OwnersAreLostOnlyToOverlap' /\ AuditTellsTheMembers' /\ EventsTellOneStory'
  BY <1>1 DEF IInv, OwnersAreLostOnlyToOverlap, AuditTellsTheMembers, EventsTellOneStory,
              Owners, Rows
<1> QED BY <1>2, <1>3, <1>4 DEF IInv
-------------------------------------------------------------------------------
(* The commits                                                              *)

\* A commit of s that leaves the owners as they are leaves the checks of the others.
LEMMA OthersAreOK ==
    ASSUME IInv, NEW s \in Sessions, Leave(s), Owners' = Owners, raced' = raced
    PROVE  /\ \A q \in Sessions : SessionOK(q)'
           /\ OwnersAreLostOnlyToOverlap'
           /\ session' \in [Sessions -> SessionStates]
<1>1. Alone(s) /\ session' \in [Sessions -> SessionStates] /\ session'[s].pc = "idle"
  BY LeaveFacts DEF IInv
<1>2. ASSUME NEW q \in Sessions PROVE SessionOK(q)'
  <2>1. CASE q = s
    BY <1>1, <2>1 DEF SessionOK, At, RemovesOwner
  <2>2. CASE q # s
    <3>1. session'[q] = session[q] /\ SessionOK(q)
      BY <1>1, <2>2 DEF Alone, IInv
    <3> QED BY <3>1 DEF SessionOK, At, TargetOf, Was, RemovesOwner
  <2> QED BY <2>1, <2>2
<1> QED BY <1>1, <1>2 DEF IInv, OwnersAreLostOnlyToOverlap

LEMMA CreateKeeps ==
    ASSUME IInv, NEW s \in Sessions, CreateCommit(s), UNCHANGED lateVars PROVE IInv'
<1> DEFINE new == [user |-> TargetOf(s), role |-> session[s].to]
           entry == [action |-> "created", role |-> session[s].to]
<1>1. PICK i \in MemberIds :
        /\ member[i] = None /\ audit[i] = None
        /\ member' = [member EXCEPT ![i] = new]
        /\ audit' = [audit EXCEPT ![i] = entry]
  BY DEF CreateCommit, Log
<1>2. At(s, "creating") /\ RowsOf(TargetOf(s)) = {} /\ Leave(s) /\ raced' = raced
      /\ UNCHANGED <<case, flag, events>>
  BY DEF CreateCommit, UserIsFree, lateVars
<1>3. TargetOf(s) \in Users /\ session[s].to \in MutableRoles
  BY <1>2 DEF IInv, SessionOK
<1>4. new \in MemberRow /\ new # None /\ new.role # "owner" /\ entry \in Entry
      /\ new.user = TargetOf(s) /\ new.role = entry.role /\ entry.action = "created"
  BY <1>3, MembershipAssumption DEF MemberRow, Entry, MutableRoles, OrganizerRole
<1>5. TypeOK /\ AuditTellsTheMembers
  BY DEF IInv
<1> HIDE DEF new, entry
<1>6. /\ member'[i] = new /\ \A j \in MemberIds \ {i} : member'[j] = member[j]
      /\ audit'[i] = entry /\ \A j \in MemberIds \ {i} : audit'[j] = audit[j]
  BY <1>1, <1>5 DEF TypeOK, MembershipTypeOK
<1>7. Rows' = Rows \cup {i} /\ i \notin Rows
  BY <1>1, <1>4, <1>6 DEF Rows
<1>8. Owners' = Owners
  BY <1>4, <1>6, <1>7 DEF Owners, Rows
<1>9. /\ \A q \in Sessions : SessionOK(q)'
      /\ OwnersAreLostOnlyToOverlap'
      /\ session' \in [Sessions -> SessionStates]
  BY <1>2, <1>8, OthersAreOK
<1>10. TypeOK'
  BY <1>1, <1>2, <1>4, <1>5, <1>9 DEF TypeOK, MembershipTypeOK, LateTypeOK
<1>11. \A j \in MemberIds : audit'[j] # None =>
          IF member'[j] = None THEN audit'[j].action = "removed"
                               ELSE audit'[j].action # "removed" /\ audit'[j].role = member'[j].role
  BY <1>4, <1>5, <1>6 DEF AuditTellsTheMembers
<1>12. \A j \in Rows : member[j].user # TargetOf(s)
  BY <1>2 DEF RowsOf
<1>13. \A j, l \in Rows' : member'[j].user = member'[l].user => j = l
  BY <1>4, <1>5, <1>6, <1>7, <1>12 DEF AuditTellsTheMembers, Rows
<1>14. AuditTellsTheMembers' /\ EventsTellOneStory'
  BY <1>2, <1>11, <1>13 DEF IInv, AuditTellsTheMembers, EventsTellOneStory
<1> QED BY <1>9, <1>10, <1>14 DEF IInv

LEMMA RoleKeeps ==
    ASSUME IInv, NEW s \in Sessions, RoleCommit(s), UNCHANGED lateVars PROVE IInv'
<1> DEFINE i == TargetOf(s)
           new == [member[i] EXCEPT !.role = session[s].to]
           entry == [action |-> "role_changed", role |-> session[s].to]
<1>0. TypeOK /\ AuditTellsTheMembers
  BY DEF IInv
<1>1. /\ At(s, "changing") /\ i \in Rows /\ i \in MemberIds
      /\ member' = [member EXCEPT ![i] = new]
      /\ audit' = [audit EXCEPT ![i] = entry]
      /\ Leave(s) /\ raced' = raced /\ UNCHANGED <<case, flag, events>>
  BY <1>0 DEF RoleCommit, Log, lateVars, Rows, TypeOK, MembershipTypeOK
<1>2. i \notin Owners /\ session[s].to \in MutableRoles
  BY <1>1 DEF IInv, SessionOK
<1>3. member[i] \in MemberRow
  BY <1>0, <1>1 DEF TypeOK, MembershipTypeOK, Rows
<1>4. new \in MemberRow /\ new # None /\ new.role # "owner" /\ entry \in Entry
      /\ new.user = member[i].user /\ new.role = entry.role /\ entry.action = "role_changed"
  BY <1>2, <1>3, MembershipAssumption DEF MemberRow, Entry, MutableRoles, OrganizerRole
<1> HIDE DEF new, entry, i
<1>6. /\ member'[i] = new /\ \A j \in MemberIds \ {i} : member'[j] = member[j]
      /\ audit'[i] = entry /\ \A j \in MemberIds \ {i} : audit'[j] = audit[j]
  BY <1>0, <1>1 DEF TypeOK, MembershipTypeOK
<1>7. Rows' = Rows
  BY <1>1, <1>4, <1>6 DEF Rows
<1>8. Owners' = Owners
  BY <1>2, <1>4, <1>6, <1>7 DEF Owners, Rows
<1>9. /\ \A q \in Sessions : SessionOK(q)'
      /\ OwnersAreLostOnlyToOverlap'
      /\ session' \in [Sessions -> SessionStates]
  BY <1>1, <1>8, OthersAreOK
<1>10. TypeOK'
  BY <1>0, <1>1, <1>4, <1>9 DEF TypeOK, MembershipTypeOK, LateTypeOK
<1>11. \A j \in MemberIds : audit'[j] # None =>
          IF member'[j] = None THEN audit'[j].action = "removed"
                               ELSE audit'[j].action # "removed" /\ audit'[j].role = member'[j].role
  BY <1>0, <1>4, <1>6 DEF AuditTellsTheMembers
<1>12. \A j \in Rows : member'[j].user = member[j].user
  BY <1>4, <1>6 DEF Rows
<1>13. \A j, l \in Rows' : member'[j].user = member'[l].user => j = l
  BY <1>0, <1>7, <1>12 DEF AuditTellsTheMembers
<1>14. AuditTellsTheMembers' /\ EventsTellOneStory'
  BY <1>1, <1>11, <1>13 DEF IInv, AuditTellsTheMembers, EventsTellOneStory
<1> QED BY <1>9, <1>10, <1>14 DEF IInv

\* The one commit that takes an owner away: of another one who counted before, it
\* makes a removal that overlapped.
LEMMA RemoveKeeps ==
    ASSUME IInv, NEW s \in Sessions, RemoveCommit(s), UNCHANGED lateVars PROVE IInv'
<1> DEFINE i == TargetOf(s)
           entry == [action |-> "removed", role |-> Was(s)]
<1>0. TypeOK /\ AuditTellsTheMembers
  BY DEF IInv
<1>1. /\ At(s, "removing") /\ i \in Rows /\ i \in MemberIds
      /\ member' = [member EXCEPT ![i] = None]
      /\ audit' = [audit EXCEPT ![i] = entry]
      /\ raced' = (raced \/ (RemovesOwner(s) /\ \E q \in Sessions \ {s} : RemovesOwner(q)))
      /\ Leave(s) /\ UNCHANGED <<case, flag, events>>
  BY DEF RemoveCommit, Log, lateVars, Rows
<1>2. /\ Was(s) \in OrganizerRole
      /\ Was(s) = "owner" \/ i \notin Owners
      /\ Was(s) = "owner" => raced \/ \E j \in Owners : j # i
  BY <1>1 DEF IInv, SessionOK, RemovesOwner
<1>3. entry \in Entry /\ entry.action = "removed"
  BY <1>2 DEF Entry
<1> HIDE DEF entry, i
<1>4. /\ member'[i] = None /\ \A j \in MemberIds \ {i} : member'[j] = member[j]
      /\ audit'[i] = entry /\ \A j \in MemberIds \ {i} : audit'[j] = audit[j]
  BY <1>0, <1>1 DEF TypeOK, MembershipTypeOK
<1>5. Rows' = Rows \ {i}
  BY <1>4 DEF Rows
<1>6. Owners' = Owners \ {i}
  BY <1>4, <1>5 DEF Owners, Rows
<1>7. Alone(s) /\ session' \in [Sessions -> SessionStates] /\ session'[s].pc = "idle"
  BY <1>0, <1>1, LeaveFacts
<1>8. raced => raced'
  BY <1>1
<1>9. ASSUME NEW q \in Sessions PROVE SessionOK(q)'
  <2>1. CASE q = s
    BY <1>7, <2>1 DEF SessionOK, At, RemovesOwner
  <2>2. CASE q # s
    <3>1. session'[q] = session[q] /\ SessionOK(q)
      BY <1>7, <2>2 DEF Alone, IInv
    <3>2. RemovesOwner(q) => raced' \/ Owners' = Owners
      BY <1>1, <1>2, <1>6, <2>2 DEF RemovesOwner
    <3>3. RemovesOwner(q) => raced' \/ \E j \in Owners' : j # TargetOf(q)
      BY <3>1, <3>2, <1>8 DEF SessionOK
    <3> QED BY <3>1, <3>3, <1>6 DEF SessionOK, At, TargetOf, Was, RemovesOwner
  <2> QED BY <2>1, <2>2
<1>10. OwnersAreLostOnlyToOverlap'
  <2>1. CASE Was(s) = "owner"
    BY <1>2, <1>6, <1>8, <2>1 DEF OwnersAreLostOnlyToOverlap
  <2>2. CASE Was(s) # "owner"
    BY <1>2, <1>6, <1>8, <2>2 DEF IInv, OwnersAreLostOnlyToOverlap
  <2> QED BY <2>1, <2>2
<1>11. TypeOK'
  <2>1. raced' \in BOOLEAN
    BY <1>0, <1>1 DEF TypeOK, MembershipTypeOK
  <2>2. member' \in [MemberIds -> MemberRow \cup {None}] /\ audit' \in [MemberIds -> Entry \cup {None}]
    BY <1>0, <1>1, <1>3 DEF TypeOK, MembershipTypeOK
  <2> QED BY <2>1, <2>2, <1>0, <1>1, <1>7 DEF TypeOK, MembershipTypeOK, LateTypeOK
<1>12. \A j \in MemberIds : audit'[j] # None =>
          IF member'[j] = None THEN audit'[j].action = "removed"
                               ELSE audit'[j].action # "removed" /\ audit'[j].role = member'[j].role
  BY <1>0, <1>3, <1>4 DEF AuditTellsTheMembers
<1>13. \A j, l \in Rows' : member'[j].user = member'[l].user => j = l
  BY <1>0, <1>4, <1>5 DEF AuditTellsTheMembers, Rows
<1>14. AuditTellsTheMembers' /\ EventsTellOneStory'
  BY <1>1, <1>12, <1>13 DEF IInv, AuditTellsTheMembers, EventsTellOneStory
<1> QED BY <1>9, <1>10, <1>11, <1>14 DEF IInv

\* Where the version is the one that was read, so is the status, and the transition
\* that was allowed then is the next one of the story.
LEMMA ResolveKeeps ==
    ASSUME IInv, NEW s \in Sessions, ResolveCommit(s), UNCHANGED membershipVars PROVE IInv'
<1> DEFINE c == TargetOf(s)
           to == session[s].to
           row == [status |-> to, version |-> case[c].version + 1]
           event == [from |-> Was(s), to |-> to]
<1>0. TypeOK /\ EventsTellOneStory /\ SessionOK(s)
  BY DEF IInv
<1>1. /\ At(s, "resolving")
      /\ case[c] = [status |-> Was(s), version |-> session[s].version]
      /\ case' = [case EXCEPT ![c] = row]
      /\ flag' = [flag EXCEPT ![OrderOf[c]] = FALSE]
      /\ events' = [events EXCEPT ![c] = Append(events[c], event)]
      /\ Leave(s) /\ UNCHANGED <<member, audit, raced>>
  BY <1>0 DEF ResolveCommit, Unmoved, membershipVars, TypeOK, LateTypeOK
<1>2. c \in Cases /\ to \in Resolutions /\ Was(s) \in CaseStatus
      /\ to \in allowedTransitions(Was(s))
  BY <1>0, <1>1 DEF SessionOK
<1>3. \/ Was(s) = "PENDING"
      \/ Was(s) = "REFUND_REQUESTED" /\ to = "REFUNDED"
  BY <1>2 DEF allowedTransitions
<1>4. /\ case[c].status = Was(s) /\ case[c].version \in Nat
      /\ events[c] \in Seq([from : CaseStatus, to : Resolutions])
      /\ OrderOf[c] \in Orders
  <2>1. case[c].status = Was(s)
    BY <1>1
  <2>2. case[c].version \in Nat /\ events[c] \in Seq([from : CaseStatus, to : Resolutions])
    BY <1>0, <1>2 DEF TypeOK, LateTypeOK
  <2>3. OrderOf[c] \in Orders
    BY <1>2, LatePaymentAssumption
  <2> QED BY <2>1, <2>2, <2>3
<1>5. /\ row.status = to /\ row.version = case[c].version + 1
      /\ event.from = Was(s) /\ event.to = to
      /\ row \in [status : CaseStatus, version : Nat]
      /\ event \in [from : CaseStatus, to : Resolutions]
  BY <1>2, <1>4 DEF CaseStatus
<1> HIDE DEF c, to, row, event
<1>6. /\ case'[c] = row /\ \A d \in Cases \ {c} : case'[d] = case[d]
      /\ events'[c] = Append(events[c], event) /\ \A d \in Cases \ {c} : events'[d] = events[d]
      /\ flag'[OrderOf[c]] = FALSE /\ \A o \in Orders \ {OrderOf[c]} : flag'[o] = flag[o]
  BY <1>0, <1>1, <1>2, <1>4 DEF TypeOK, LateTypeOK
<1>7. Owners' = Owners /\ raced' = raced
  BY <1>1 DEF Owners, Rows
<1>8. /\ \A q \in Sessions : SessionOK(q)'
      /\ OwnersAreLostOnlyToOverlap'
      /\ session' \in [Sessions -> SessionStates]
  BY <1>1, <1>7, OthersAreOK
<1>9. TypeOK'
  <2>1. Append(events[c], event) \in Seq([from : CaseStatus, to : Resolutions])
    BY <1>4, <1>5
  <2>2. case' \in [Cases -> [status : CaseStatus, version : Nat]] /\ flag' \in [Orders -> BOOLEAN]
        /\ events' \in [Cases -> Seq([from : CaseStatus, to : Resolutions])]
    BY <2>1, <1>0, <1>1, <1>5 DEF TypeOK, LateTypeOK
  <2> QED BY <2>2, <1>0, <1>1, <1>8 DEF TypeOK, LateTypeOK, MembershipTypeOK
<1>10. EventsTellOneStory'
  <2> DEFINE e == events[c]
             m == Len(e)
  <2>1. /\ m \in Nat /\ m = case[c].version
        /\ Was(s) = IF e = <<>> THEN "PENDING" ELSE e[m].to
        /\ \A n \in 1..m :
            /\ e[n].from = IF n = 1 THEN "PENDING" ELSE e[n - 1].to
            /\ e[n].from \in {"PENDING", "REFUND_REQUESTED"}
            /\ e[n].from = "REFUND_REQUESTED" => e[n].to = "REFUNDED"
    BY <1>0, <1>2, <1>4 DEF EventsTellOneStory
  <2>2. /\ Len(events'[c]) = m + 1 /\ events'[c][m + 1] = event /\ events'[c] # <<>>
        /\ \A n \in 1..m : events'[c][n] = e[n]
    BY <1>4, <1>5, <1>6
  <2>3. (e = <<>>) <=> (m = 0)
    BY <1>4
  <2> HIDE DEF e, m
  <2>4. \A n \in 1..(m + 1) :
          /\ events'[c][n].from = IF n = 1 THEN "PENDING" ELSE events'[c][n - 1].to
          /\ events'[c][n].from \in {"PENDING", "REFUND_REQUESTED"}
          /\ events'[c][n].from = "REFUND_REQUESTED" => events'[c][n].to = "REFUNDED"
    <3> TAKE n \in 1..(m + 1)
    <3>1. CASE n = m + 1
      <4>1. events'[c][n] = event
        BY <2>2, <3>1
      <4>2. event.from = IF n = 1 THEN "PENDING" ELSE events'[c][n - 1].to
        <5>1. CASE m = 0
          BY <5>1, <3>1, <2>1, <2>3, <1>5
        <5>2. CASE m # 0
          <6>1. m \in 1..m /\ n - 1 = m /\ n # 1
            BY <5>2, <3>1, <2>1
          <6> QED BY <6>1, <5>2, <2>1, <2>2, <2>3, <1>5
        <5> QED BY <5>1, <5>2
      <4> QED BY <4>1, <4>2, <1>3, <1>5
    <3>2. CASE n # m + 1
      <4>1. n \in 1..m /\ (n # 1 => n - 1 \in 1..m)
        BY <3>2, <2>1
      <4>2. events'[c][n] = e[n] /\ (n # 1 => events'[c][n - 1] = e[n - 1])
        BY <4>1, <2>2
      <4>3. /\ e[n].from = IF n = 1 THEN "PENDING" ELSE e[n - 1].to
            /\ e[n].from \in {"PENDING", "REFUND_REQUESTED"}
            /\ e[n].from = "REFUND_REQUESTED" => e[n].to = "REFUNDED"
        BY <4>1, <2>1
      <4> QED BY <4>2, <4>3
    <3> QED BY <3>1, <3>2
  <2>5. /\ Len(events'[c]) = case'[c].version
        /\ case'[c].status = events'[c][Len(events'[c])].to
    BY <2>1, <2>2, <1>5, <1>6
  <2>6. ASSUME NEW o \in Orders, ~flag'[o]
        PROVE  \E d \in Cases : OrderOf[d] = o /\ events'[d] # <<>>
    <3>1. CASE o = OrderOf[c]
      BY <3>1, <2>2, <1>2
    <3>2. CASE o # OrderOf[c]
      <4>1. PICK d \in Cases : OrderOf[d] = o /\ events[d] # <<>>
        BY <2>6, <3>2, <1>0, <1>6 DEF EventsTellOneStory
      <4> QED BY <4>1, <3>2, <1>6
    <3> QED BY <3>1, <3>2
  <2>7. ASSUME NEW d \in Cases
        PROVE  /\ Len(events'[d]) = case'[d].version
               /\ case'[d].status = IF events'[d] = <<>> THEN "PENDING"
                                    ELSE events'[d][Len(events'[d])].to
               /\ \A n \in 1..Len(events'[d]) :
                    /\ events'[d][n].from = IF n = 1 THEN "PENDING" ELSE events'[d][n - 1].to
                    /\ events'[d][n].from \in {"PENDING", "REFUND_REQUESTED"}
                    /\ events'[d][n].from = "REFUND_REQUESTED" => events'[d][n].to = "REFUNDED"
    <3>1. CASE d = c
      BY <3>1, <2>2, <2>4, <2>5
    <3>2. CASE d # c
      <4>1. events'[d] = events[d] /\ case'[d] = case[d]
        BY <3>2, <1>6
      <4> QED BY <4>1, <1>0 DEF EventsTellOneStory
    <3> QED BY <3>1, <3>2
  <2> QED BY <2>6, <2>7 DEF EventsTellOneStory
<1>11. AuditTellsTheMembers'
  BY <1>1 DEF IInv, AuditTellsTheMembers, Rows
<1> QED BY <1>8, <1>9, <1>10, <1>11 DEF IInv
-------------------------------------------------------------------------------
(* The theorems                                                             *)

LEMMA InitEstablishes == Init => IInv
<1> SUFFICES ASSUME Init PROVE IInv
  OBVIOUS
<1>1. TypeOK
  <2>1. member \in [MemberIds -> MemberRow \cup {None}]
    BY MembershipAssumption DEF Init, MembershipInit
  <2>2. /\ case \in [Cases -> [status : CaseStatus, version : Nat]]
        /\ events \in [Cases -> Seq([from : CaseStatus, to : Resolutions])]
        /\ flag \in [Orders -> BOOLEAN]
    BY DEF Init, LateInit, CaseStatus
  <2>3. session \in [Sessions -> SessionStates]
    BY DEF Init, Idle, SessionStates
  <2> QED BY <2>1, <2>2, <2>3
          DEF Init, MembershipInit, TypeOK, MembershipTypeOK, LateTypeOK
<1>2. \A s \in Sessions : SessionOK(s)
  BY DEF Init, Idle, SessionOK, At, RemovesOwner
<1>3. /\ \E i \in MemberIds : member[i] # None /\ member[i].role = "owner"
      /\ \A i, j \in MemberIds :
            member[i] # None /\ member[j] # None /\ member[i].user = member[j].user => i = j
  BY MembershipAssumption DEF Init, MembershipInit
<1>4. OwnersAreLostOnlyToOverlap
  BY <1>3 DEF OwnersAreLostOnlyToOverlap, Owners, Rows
<1>5. AuditTellsTheMembers
  BY <1>3 DEF AuditTellsTheMembers, Rows, Init, MembershipInit
<1>6. EventsTellOneStory
  BY DEF Init, LateInit, EventsTellOneStory
<1> QED BY <1>1, <1>2, <1>4, <1>5, <1>6 DEF IInv

LEMMA NextKeeps == IInv /\ [Next]_vars => IInv'
<1> SUFFICES ASSUME IInv, [Next]_vars PROVE IInv'
  OBVIOUS
<1>1. ASSUME NEW s \in Sessions, MembershipStep(s), UNCHANGED lateVars PROVE IInv'
  <2>1. CASE CreateCommit(s) \/ RoleCommit(s) \/ RemoveCommit(s)
    BY <1>1, <2>1, CreateKeeps, RoleKeeps, RemoveKeeps
  <2>2. CASE ~(CreateCommit(s) \/ RoleCommit(s) \/ RemoveCommit(s))
    <3>1. Moves(s)
      BY <1>1, <2>2, MembershipMoves DEF MembershipStep
    <3> QED BY <3>1, MovesKeeps
  <2> QED BY <2>1, <2>2
<1>2. ASSUME NEW s \in Sessions, LateStep(s), UNCHANGED membershipVars PROVE IInv'
  <2>1. CASE ResolveCommit(s)
    BY <1>2, <2>1, ResolveKeeps
  <2>2. CASE ~ResolveCommit(s)
    <3>1. Moves(s)
      BY <1>2, <2>2, LateMoves DEF LateStep
    <3> QED BY <3>1, MovesKeeps
  <2> QED BY <2>1, <2>2
<1>3. ASSUME NEW s \in Sessions, Crash(s) PROVE IInv'
  BY <1>3, LeaveMoves, MovesKeeps DEF Crash, IInv
<1>4. CASE UNCHANGED vars
  <2>1. UNCHANGED <<member, audit, raced, case, flag, events, session>>
    BY <1>4 DEF vars, membershipVars, lateVars
  <2>2. TypeOK' /\ OwnersAreLostOnlyToOverlap'
    BY <2>1 DEF IInv, TypeOK, MembershipTypeOK, LateTypeOK, OwnersAreLostOnlyToOverlap,
                Owners, Rows
  <2>4. AuditTellsTheMembers'
    BY <2>1 DEF IInv, AuditTellsTheMembers, Rows
  <2>5. EventsTellOneStory'
    BY <2>1 DEF IInv, EventsTellOneStory
  <2>3. ASSUME NEW s \in Sessions PROVE SessionOK(s)'
    BY <2>1 DEF IInv, SessionOK, At, TargetOf, Was, RemovesOwner, Owners, Rows
  <2> QED BY <2>2, <2>3, <2>4, <2>5 DEF IInv
<1> QED BY <1>1, <1>2, <1>3, <1>4 DEF Next

\* What a request checked and still relies on when it commits holds until then, or
\* the where of its update and the unique index notice (server.ts:342-545, 1113-1223).
THEOREM InvariantHolds == Spec => []IInv
<1> QED BY InitEstablishes, NextKeeps, PTL DEF Spec

\* Rows and requests keep their types: a request acts on rows of the kind it was
\* made for (server.ts:342-545, 1113-1223).
THEOREM TypeCorrect == Spec => []TypeOK
<1>1. IInv => TypeOK
  BY DEF IInv
<1> QED BY <1>1, InvariantHolds, PTL

\* Without two removals of owners that overlap, there is an owner (server.ts:497-518).
THEOREM AnOwnerRemains == Spec => []OwnersAreLostOnlyToOverlap
<1>1. IInv => OwnersAreLostOnlyToOverlap
  BY DEF IInv
<1> QED BY <1>1, InvariantHolds, PTL

\* The log's last entry of a membership agrees with its row, and the unique index
\* keeps a user from being a member twice (server.ts:368-409, 449-479, 517-542).
THEOREM AuditIsTrue == Spec => []AuditTellsTheMembers
<1>1. IInv => AuditTellsTheMembers
  BY DEF IInv
<1> QED BY <1>1, InvariantHolds, PTL

\* The settings page offers what the API accepts (server.ts:326-339, 419-447).
THEOREM ListIsTrue == Spec => []ListTellsTheTruth
<1>1. IInv => ListTellsTheTruth
  <2> SUFFICES ASSUME IInv, NEW u \in Users, NEW i \in Rows
               PROVE  /\ \A c \in AdminCapability :
                            c \in ListedCapabilities(member[i].role)
                                <=> hasAdminCapability(member[i].user, c)
                      /\ canChangeRole(u, i) =>
                            /\ hasRole(u, {"owner"})
                            /\ \A r \in allowedRoleTargets(i) \ {member[i].role} :
                                    ~RoleRefused(u, i, r)
    BY DEF ListTellsTheTruth
  <2>1. member[i].role \in OrganizerRole
    BY OwnersFacts DEF IInv
  <2>2. RowsOf(member[i].user) = {i}
    BY DEF IInv, AuditTellsTheMembers, RowsOf
  <2>3. \A c : hasAdminCapability(member[i].user, c) <=> c \in roleCapabilities[member[i].role]
    BY <2>2 DEF hasAdminCapability
  <2>4. \A c \in AdminCapability :
          c \in ListedCapabilities(member[i].role) <=> c \in roleCapabilities[member[i].role]
    BY <2>1 DEF ListedCapabilities, roleCapabilities, AdminCapability, OrganizerRole
  <2>5. canChangeRole(u, i) =>
            /\ hasRole(u, {"owner"})
            /\ \A r \in allowedRoleTargets(i) \ {member[i].role} : ~RoleRefused(u, i, r)
    BY DEF canChangeRole, RoleRefused
  <2> QED BY <2>3, <2>4, <2>5
<1> QED BY <1>1, InvariantHolds, PTL

\* The events of a case are one chain of allowed transitions that ends in its
\* status, whoever reviews it (server.ts:1123-1208).
THEOREM OneStory == Spec => []EventsTellOneStory
<1>1. IInv => EventsTellOneStory
  BY DEF IInv
<1> QED BY <1>1, InvariantHolds, PTL
===============================================================================
