------------------------------ MODULE CheckInProofs ------------------------------
(***************************************************************************)
(* A ticket admits once, and the second connection is the only stalemate,  *)
(* for any numbers of tickets, scans and connections.  The invariant is    *)
(* about the row lock: who holds it has validated the ticket under it, and *)
(* what the validation said is true until the lock is released.            *)
(***************************************************************************)
EXTENDS CheckIn, FiniteSetTheorems, TLAPS

Holding(s) == scan[s].pc \in {"checking", "deciding"}

LocksHeld ==
    \A s \in Scans :
        /\ Holding(s) => CodeOf(s) \in Tickets /\ lock[CodeOf(s)] = s
        /\ \A t \in Tickets : lock[t] = s => Holding(s) /\ CodeOf(s) = t

ValidStill == \A s \in Scans : Holding(s) => scan[s].valid = Valid(CodeOf(s))

IInv == TypeOK /\ LocksHeld /\ ValidStill /\ TicketAdmitsOnce
-------------------------------------------------------------------------------
\* Initially no ticket has been admitted and no lock is held.
LEMMA InitHolds == ASSUME Init PROVE IInv
<1> USE CheckInAssumption
<1>1. TypeOK
  BY SMT DEF Init, TypeOK, ScanStates, Idle
<1>2. LocksHeld /\ ValidStill
  BY DEF Init, LocksHeld, ValidStill, Holding, Idle
<1>3. TicketAdmitsOnce
  BY DEF Init, TicketAdmitsOnce
<1> QED BY <1>1, <1>2, <1>3 DEF IInv

\* The end of a transaction without writes: its lock is gone with it.
LEMMA EndHolds ==
    ASSUME IInv, NEW s \in Scans, End(s), UNCHANGED rows
    PROVE  IInv'
<1> USE CheckInAssumption DEF IInv, End
<1>1. TypeOK'
  BY DEF TypeOK, rows, ScanStates, Idle
<1>2. LocksHeld'
  <2> SUFFICES ASSUME NEW q \in Scans
               PROVE  /\ Holding(q)' => CodeOf(q)' \in Tickets /\ lock'[CodeOf(q)'] = q
                      /\ \A t \in Tickets : lock'[t] = q => Holding(q)' /\ CodeOf(q)' = t
    BY DEF LocksHeld
  <2>1. CASE q = s
    BY <2>1 DEF TypeOK, LocksHeld, Holding, Idle, CodeOf
  <2>2. CASE q # s
    BY <2>2 DEF TypeOK, LocksHeld, Holding, Idle, CodeOf
  <2> QED BY <2>1, <2>2
<1>3. ValidStill'
  BY DEF TypeOK, ValidStill, Holding, Idle, CodeOf, Valid, rows
<1>4. TicketAdmitsOnce'
  BY DEF TicketAdmitsOnce, rows
<1> QED BY <1>1, <1>2, <1>3, <1>4

\* A step of a scan that leaves the rows and the locks as they are.
LEMMA QuietHolds ==
    ASSUME IInv, NEW s \in Scans, NEW r \in ScanStates,
           scan' = [scan EXCEPT ![s] = r], UNCHANGED <<rows, lock>>,
           r.pc \in {"checking", "deciding"} =>
               Holding(s) /\ r.code = CodeOf(s) /\ r.valid = scan[s].valid,
           ~(r.pc \in {"checking", "deciding"}) => ~Holding(s)
    PROVE  IInv'
<1> USE DEF IInv
<1>1. TypeOK'
  BY DEF TypeOK, rows
<1>2. LocksHeld'
  BY DEF TypeOK, LocksHeld, Holding, CodeOf
<1>3. ValidStill'
  BY DEF TypeOK, ValidStill, Holding, CodeOf, Valid, rows
<1>4. TicketAdmitsOnce'
  BY DEF TicketAdmitsOnce, rows
<1> QED BY <1>1, <1>2, <1>3, <1>4

\* A scan that goes on to another point keeps what it has read.
LEMMA GoToRecord ==
    ASSUME TypeOK, NEW s \in Scans,
           NEW pc \in {"idle", "queued", "locking", "checking", "deciding"}, GoTo(s, pc)
    PROVE  /\ [scan[s] EXCEPT !.pc = pc] \in ScanStates
           /\ scan' = [scan EXCEPT ![s] = [scan[s] EXCEPT !.pc = pc]]
           /\ [scan[s] EXCEPT !.pc = pc].pc = pc
           /\ [scan[s] EXCEPT !.pc = pc].code = CodeOf(s)
           /\ [scan[s] EXCEPT !.pc = pc].valid = scan[s].valid
  BY DEF TypeOK, ScanStates, GoTo, CodeOf
-------------------------------------------------------------------------------
\* Every step of the handler keeps the invariant.
LEMMA StepHolds == ASSUME IInv, [Next]_vars PROVE IInv'
<1> USE CheckInAssumption
<1>0. TypeOK
  BY DEF IInv
<1>1. ASSUME NEW s \in Scans, NEW u \in Users, NEW c \in Tickets \cup {None}, Receive(s, u, c)
      PROVE  IInv'
  <2> DEFINE r == [pc |-> "queued", user |-> u, code |-> c, valid |-> FALSE]
  <2>1. r \in ScanStates /\ ~(r.pc \in {"checking", "deciding"})
    BY DEF ScanStates
  <2>2. ~Holding(s) /\ scan' = [scan EXCEPT ![s] = r] /\ UNCHANGED <<rows, lock>>
    BY <1>1 DEF Receive, At, Holding
  <2> HIDE DEF r
  <2> QED BY <2>1, <2>2, QuietHolds
<1>2. ASSUME NEW s \in Scans, Connect(s) PROVE IInv'
  <2> DEFINE r == [scan[s] EXCEPT !.pc = "locking"]
  <2>1. scan[s].pc = "queued" /\ GoTo(s, "locking") /\ UNCHANGED <<rows, lock>>
    BY <1>2 DEF Connect, At
  <2>2. r \in ScanStates /\ scan' = [scan EXCEPT ![s] = r] /\ r.pc = "locking"
    BY <1>0, <2>1, GoToRecord
  <2> HIDE DEF r
  <2> QED BY <2>1, <2>2, QuietHolds DEF Holding
<1>3. ASSUME NEW s \in Scans, ScanUnknown(s) PROVE IInv'
  BY <1>3, EndHolds DEF ScanUnknown
<1>4. ASSUME NEW s \in Scans, ScanLock(s) PROVE IInv'
  <2> DEFINE t == CodeOf(s)
  <2>1. t \in Tickets /\ lock[t] = None /\ scan[s].pc = "locking"
    BY <1>0, <1>4 DEF ScanLock, TypeOK, ScanStates, CodeOf, LockFree, At
  <2>2. /\ lock' = [lock EXCEPT ![t] = s]
        /\ scan' = [scan EXCEPT ![s] = [scan[s] EXCEPT !.pc = "checking", !.valid = Valid(t)]]
        /\ UNCHANGED rows
    BY <1>0, <1>4 DEF ScanLock, TypeOK
  <2>3. TypeOK'
    <3>1. [scan[s] EXCEPT !.pc = "checking", !.valid = Valid(t)] \in ScanStates
      <4>1. scan[s] \in ScanStates /\ Valid(t) \in BOOLEAN
        BY <1>0 DEF TypeOK, Valid
      <4> HIDE DEF t
      <4> QED BY <4>1 DEF ScanStates
    <3>2. scan' \in [Scans -> ScanStates]
      BY <1>0, <2>2, <3>1 DEF TypeOK
    <3>3. lock' \in [Tickets -> Scans \cup {None}]
      BY <1>0, <2>1, <2>2 DEF TypeOK
    <3> QED BY <1>0, <2>2, <3>2, <3>3 DEF TypeOK, rows
  <2>4. LocksHeld'
    BY <1>0, <2>1, <2>2 DEF IInv, TypeOK, ScanStates, LocksHeld, Holding, CodeOf
  <2>5. ValidStill'
    BY <1>0, <2>1, <2>2 DEF IInv, TypeOK, ScanStates, ValidStill, Holding, CodeOf, Valid, rows
  <2>6. TicketAdmitsOnce'
    BY <2>2 DEF IInv, TicketAdmitsOnce, rows
  <2> QED BY <2>3, <2>4, <2>5, <2>6 DEF IInv
<1>5. ASSUME NEW s \in Scans, ScanMembership(s) PROVE IInv'
  <2>1. CASE scan[s].user \in Members
    <3> DEFINE r == [scan[s] EXCEPT !.pc = "deciding"]
    <3>1. scan[s].pc = "checking" /\ GoTo(s, "deciding") /\ UNCHANGED <<rows, lock>>
      BY <1>5, <2>1 DEF ScanMembership, At
    <3>2. /\ r \in ScanStates /\ scan' = [scan EXCEPT ![s] = r] /\ r.pc = "deciding"
          /\ r.code = CodeOf(s) /\ r.valid = scan[s].valid
      BY <1>0, <3>1, GoToRecord
    <3> HIDE DEF r
    <3> QED BY <3>1, <3>2, QuietHolds DEF Holding
  <2>2. CASE scan[s].user \notin Members
    BY <1>5, <2>2, EndHolds DEF ScanMembership
  <2> QED BY <2>1, <2>2
<1>6. ASSUME NEW s \in Scans, ScanRefuse(s) PROVE IInv'
  <2>1. CodeOf(s) \in Tickets
    BY <1>6 DEF ScanRefuse, IInv, LocksHeld, Holding, At
  <2>2. TypeOK'
    BY <1>0, <1>6, <2>1 DEF ScanRefuse, End, TypeOK, ScanStates, Idle
  <2>3. LocksHeld'
    BY <1>0, <1>6 DEF ScanRefuse, End, IInv, TypeOK, LocksHeld, Holding, Idle, CodeOf
  <2>4. ValidStill'
    BY <1>0, <1>6 DEF ScanRefuse, End, IInv, TypeOK, ValidStill, Holding, Idle, CodeOf, Valid
  <2>5. TicketAdmitsOnce'
    BY <1>6 DEF ScanRefuse, IInv, TicketAdmitsOnce
  <2> QED BY <2>2, <2>3, <2>4, <2>5 DEF IInv
<1>7. ASSUME NEW s \in Scans, ScanAdmit(s) PROVE IInv'
  <2> DEFINE t == CodeOf(s)
  <2>1. /\ Holding(s) /\ scan[s].valid
        /\ status' = [status EXCEPT ![t] = "checked_in"]
        /\ entries' = [entries EXCEPT ![t] = @ + 1]
        /\ emitted' = [emitted EXCEPT ![t] = @ + 1]
        /\ refused' = refused /\ End(s)
    BY <1>7 DEF ScanAdmit, At, Holding, CheckedIn
  <2>2. t \in Tickets /\ lock[t] = s
    BY <2>1 DEF IInv, LocksHeld
  <2>3. Valid(t)
    BY <2>1 DEF IInv, ValidStill
  <2> HIDE DEF t
  <2>4. TypeOK'
    BY <1>0, <2>1, <2>2 DEF End, TypeOK, ScanStates, Idle
  <2>5. LocksHeld'
    BY <1>0, <2>1 DEF End, IInv, TypeOK, LocksHeld, Holding, Idle, CodeOf
  <2>6. ValidStill'
    <3> SUFFICES ASSUME NEW q \in Scans, Holding(q)' PROVE scan'[q].valid = Valid(CodeOf(q))'
      BY DEF ValidStill
    <3>1. q # s /\ scan'[q] = scan[q] /\ Holding(q)
      BY <1>0, <2>1 DEF End, TypeOK, Holding, Idle
    <3>2. CodeOf(q) \in Tickets /\ CodeOf(q) # t
      BY <2>2, <3>1 DEF IInv, LocksHeld
    <3> QED BY <1>0, <2>1, <3>1, <3>2 DEF IInv, TypeOK, ValidStill, Valid, CodeOf
  <2>7. TicketAdmitsOnce'
    BY <1>0, <2>1, <2>2, <2>3 DEF IInv, TypeOK, TicketAdmitsOnce, Valid
  <2> QED BY <2>4, <2>5, <2>6, <2>7 DEF IInv
<1>8. ASSUME NEW s \in Scans, Timeout(s) PROVE IInv'
  BY <1>8, EndHolds DEF Timeout
<1>9. CASE UNCHANGED vars
  BY <1>9 DEF IInv, TypeOK, LocksHeld, ValidStill, TicketAdmitsOnce, Holding, CodeOf, Valid, vars, rows
<1> QED BY <1>1, <1>2, <1>3, <1>4, <1>5, <1>6, <1>7, <1>8, <1>9 DEF Next, ScanStep
-------------------------------------------------------------------------------
\* A validated ticket stays as it was validated while its scan has the row lock,
\* whatever the other scans do (server.ts:964-1058).
THEOREM InvariantHolds == Spec => []IInv
<1>1. Init => IInv
  BY InitHolds
<1>2. IInv /\ [Next]_vars => IInv'
  BY StepHolds
<1> QED BY <1>1, <1>2, PTL DEF Spec

\* Rows, locks and executions keep their types (server.ts:964-1058).
THEOREM TypeCorrect == Spec => []TypeOK
<1>1. IInv => TypeOK
  BY DEF IInv
<1> QED BY <1>1, InvariantHolds, PTL

\* A ticket admits once, however many scanners read its code at the same moment
\* (server.ts:964-1058).
THEOREM AdmitsOnce == Spec => []TicketAdmitsOnce
<1>1. IInv => TicketAdmitsOnce
  BY DEF IInv
<1> QED BY <1>1, InvariantHolds, PTL
-------------------------------------------------------------------------------
\* Whoever waits for a row lock waits for a scan that holds it.
LEMMA HolderOfLock ==
    ASSUME IInv, NEW s \in Scans, At(s, "locking"), Waiting(s)
    PROVE  \E q \in Scans : Holding(q)
<1>1. CodeOf(s) \in Tickets /\ lock[CodeOf(s)] \in Scans
  BY DEF IInv, TypeOK, ScanStates, Waiting, At, CodeOf
<1> QED BY <1>1 DEF IInv, LocksHeld

\* When nobody can go on, the open transactions have every connection and one of
\* them asks for another: the invariant leaves no other way to wait in a circle
\* (server.ts:970-987).
THEOREM OnlyTheConnections == Spec => []StalemateNeedsAllConnections
<1>1. ASSUME IInv PROVE StalemateNeedsAllConnections
  <2> USE CheckInAssumption
  <2> DEFINE busy == {s \in Scans : ~At(s, "idle")}
  <2> SUFFICES ASSUME busy # {}, \A s \in busy : Waiting(s)
               PROVE  Cardinality(Open) >= PoolSize /\ \E s \in Open : At(s, "checking")
    BY DEF StalemateNeedsAllConnections
  <2>1. IsFiniteSet(Open) /\ Cardinality(Open) \in Nat
    BY FS_Subset, FS_CardinalityType DEF Open
  <2>2. ASSUME NEW q \in Scans, Holding(q) PROVE At(q, "checking") /\ q \in Open /\ ~ConnectionLeft
    <3>1. q \in busy /\ q \in Open
      BY <2>2 DEF Holding, At, Open
    <3>2. Waiting(q)
      BY <3>1
    <3> QED BY <2>2, <3>1, <3>2 DEF Holding, Waiting, At
  <2>3. ~ConnectionLeft
    <3>1. PICK s \in busy : TRUE
      OBVIOUS
    <3>2. Waiting(s) /\ s \in Scans
      BY <3>1
    <3>3. CASE At(s, "locking")
      BY <2>2, <3>2, <3>3, <1>1, HolderOfLock
    <3> QED BY <3>2, <3>3 DEF Waiting
  <2>4. Cardinality(Open) >= PoolSize
    BY <2>1, <2>3 DEF ConnectionLeft
  <2>5. Open # {}
    BY <2>4, FS_EmptySet
  <2>6. PICK s \in Open : TRUE
    BY <2>5
  <2>7. s \in Scans /\ Waiting(s) /\ scan[s].pc \in {"locking", "checking", "deciding"}
    BY <2>6 DEF Open, At
  <2>8. \E q \in Scans : Holding(q)
    BY <1>1, <2>7, HolderOfLock DEF Holding, At
  <2> QED BY <2>2, <2>4, <2>8
<1> QED BY <1>1, InvariantHolds, PTL
===============================================================================
