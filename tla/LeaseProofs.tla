------------------------------- MODULE LeaseProofs -------------------------------
(***************************************************************************)
(* The lease is exclusive and a claim is atomic, for any numbers of        *)
(* events, workers and any length of a lease.  Steps are of four kinds: a  *)
(* worker that gets on with a claim or gives up, a worker that is granted  *)
(* an event, one that marks it, and the clock; the lemmas are about these. *)
(***************************************************************************)
EXTENDS ProviderEventLease, TLAPS

Working(w, e) == worker[w].pc = "working" /\ worker[w].event = e

\* A request under way names an event and has read a time that has come; past the
\* insert, the row of its event is there.
RequestsOK ==
    \A w \in Workers : worker[w].pc # "idle" =>
        /\ worker[w].event \in Events /\ worker[w].now <= clock
        /\ worker[w].pc \in {"looking", "retrying", "working"} => row[worker[w].event] # None

IInv == TypeOK /\ RequestsOK /\ ExclusiveUntilLateMark

\* What w does leaves the other workers alone.
Alone(w) == \A v \in Workers \ {w} : worker'[v] = worker[v]

Proceeds(w) ==
    /\ UNCHANGED <<row, clock, late>>
    /\ Alone(w)
    /\ worker'[w].pc # "working"

IsGranted(w, e) ==
    /\ worker[w].pc \in {"inserting", "retrying"}
    /\ \/ row[e] = None
       \/ row[e] # None /\ Retryable(w)
    /\ row' = [row EXCEPT ![e] = Claimed(w)]
    /\ worker'[w].pc = "working" /\ worker'[w].now = worker[w].now
    /\ worker[w].event = e /\ worker'[w].event = e
    /\ UNCHANGED <<clock, late>>
    /\ Alone(w)

Settles(w, e, st) ==
    /\ Working(w, e)
    /\ row' = [row EXCEPT ![e] = [status |-> st, until |-> 0]]
    /\ late' = IF row[e] = Claimed(w) THEN late ELSE late \cup {e}
    /\ worker'[w].pc = "idle"
    /\ UNCHANGED clock
    /\ Alone(w)
-------------------------------------------------------------------------------
\* What GoTo and Leave do to the records of the workers.
LEMMA GoToFacts ==
    ASSUME TypeOK, NEW w \in Workers,
           NEW pc \in {"idle", "inserting", "looking", "retrying", "working"}, GoTo(w, pc)
    PROVE  /\ Alone(w)
           /\ worker'[w].pc = pc
           /\ worker'[w].event = worker[w].event
           /\ worker'[w].now = worker[w].now
           /\ worker' \in [Workers -> WorkerStates]
<1>1. worker[w] \in WorkerStates
  BY DEF TypeOK
<1>2. [worker[w] EXCEPT !.pc = pc] \in WorkerStates
  BY <1>1 DEF WorkerStates
<1>3. worker' = [worker EXCEPT ![w] = [worker[w] EXCEPT !.pc = pc]]
  BY DEF GoTo, TypeOK
<1> QED BY <1>1, <1>2, <1>3 DEF TypeOK, WorkerStates, Alone

LEMMA LeaveFacts ==
    ASSUME TypeOK, NEW w \in Workers, Leave(w)
    PROVE  /\ Alone(w)
           /\ worker'[w].pc = "idle"
           /\ worker' \in [Workers -> WorkerStates]
  BY DEF TypeOK, WorkerStates, Leave, Idle, Alone

\* The claim of a worker under way is a row.
LEMMA ClaimedIsRow ==
    ASSUME TypeOK, NEW w \in Workers PROVE Claimed(w) \in Row /\ leaseUntil(w) \in Nat
<1>1. worker[w].now \in Nat
  BY DEF TypeOK, WorkerStates
<1> QED BY <1>1, LeaseAssumption DEF Claimed, leaseUntil, Row
-------------------------------------------------------------------------------
(* Every step is of one of the four kinds                                   *)

LEMMA Kinds ==
    ASSUME IInv, NEW w \in Workers, WorkerStep(w)
    PROVE  /\ worker' \in [Workers -> WorkerStates]
           /\ worker'[w].pc # "idle" =>
                /\ worker'[w].event \in Events /\ worker'[w].now <= clock
                /\ worker'[w].pc \in {"looking", "retrying", "working"} => row'[worker'[w].event] # None
           /\ \/ Proceeds(w)
              \/ \E e \in Events : IsGranted(w, e)
              \/ \E e \in Events, st \in {"processed", "error"} : Settles(w, e, st)
<1> USE DEF IInv
<1>0. /\ TypeOK /\ worker[w] \in WorkerStates
      /\ worker[w].pc # "idle" => worker[w].event \in Events /\ worker[w].now <= clock
  BY DEF TypeOK, RequestsOK
<1>1. CASE \E e \in Events : Claim(w, e)
  <2>1. PICK e \in Events : Claim(w, e)
    BY <1>1
  <2>2. /\ worker'[w] = [pc |-> "inserting", event |-> e, now |-> clock]
        /\ Alone(w) /\ UNCHANGED <<row, clock, late>>
        /\ worker' \in [Workers -> WorkerStates]
    BY <2>1 DEF Claim, TypeOK, WorkerStates, Alone
  <2> QED BY <2>2 DEF Proceeds, TypeOK
<1>2. CASE ClaimInsert(w)
  <2>1. /\ worker[w].pc = "inserting" /\ row[worker[w].event] = None
        /\ row' = [row EXCEPT ![worker[w].event] = Claimed(w)]
        /\ GoTo(w, "working") /\ UNCHANGED <<clock, late>>
    BY <1>2 DEF ClaimInsert, At, EventOf
  <2>2. IsGranted(w, worker[w].event)
    BY <1>0, <2>1, GoToFacts DEF IsGranted
  <2>3. row'[worker[w].event] # None
    BY <1>0, <2>1, ClaimedIsRow, NoneIsNoRow DEF TypeOK
  <2> QED BY <1>0, <2>1, <2>2, <2>3, GoToFacts
<1>3. CASE ClaimExists(w)
  <2>1. /\ worker[w].pc = "inserting" /\ row[worker[w].event] # None
        /\ GoTo(w, "looking") /\ UNCHANGED <<row, clock, late>>
    BY <1>3 DEF ClaimExists, At, EventOf
  <2> QED BY <1>0, <2>1, GoToFacts DEF Proceeds
<1>4. CASE ClaimTurnedAway(w) \/ ClaimLost(w) \/ Crash(w)
  <2>1. Leave(w) /\ UNCHANGED <<row, clock, late>>
    BY <1>4 DEF ClaimTurnedAway, ClaimLost, Crash
  <2> QED BY <1>0, <2>1, LeaveFacts DEF Proceeds
<1>5. CASE ClaimMayRetry(w)
  <2>1. worker[w].pc = "looking" /\ GoTo(w, "retrying") /\ UNCHANGED <<row, clock, late>>
    BY <1>5 DEF ClaimMayRetry, At
  <2>2. row[worker[w].event] # None
    BY <2>1 DEF RequestsOK
  <2> QED BY <1>0, <2>1, <2>2, GoToFacts DEF Proceeds
<1>6. CASE ClaimRetry(w)
  <2>1. /\ worker[w].pc = "retrying" /\ Retryable(w)
        /\ row' = [row EXCEPT ![worker[w].event] = Claimed(w)]
        /\ GoTo(w, "working") /\ UNCHANGED <<clock, late>>
    BY <1>6 DEF ClaimRetry, At, EventOf
  <2>2. IsGranted(w, worker[w].event)
    BY <1>0, <2>1, GoToFacts DEF IsGranted
  <2>3. row'[worker[w].event] # None
    BY <1>0, <2>1, ClaimedIsRow, NoneIsNoRow DEF TypeOK
  <2> QED BY <1>0, <2>1, <2>2, <2>3, GoToFacts
<1>7. ASSUME NEW st \in {"processed", "error"}, Mark(w, st)
      PROVE  \E e \in Events : Settles(w, e, st) /\ worker' \in [Workers -> WorkerStates]
  <2>1. /\ worker[w].pc = "working"
        /\ row' = [row EXCEPT ![worker[w].event] = [status |-> st, until |-> 0]]
        /\ late' = IF row[worker[w].event] = Claimed(w) THEN late ELSE late \cup {worker[w].event}
        /\ Leave(w) /\ UNCHANGED clock
    BY <1>7 DEF Mark, At, EventOf
  <2>2. Settles(w, worker[w].event, st)
    BY <1>0, <2>1, LeaveFacts DEF Settles, Working
  <2> QED BY <1>0, <2>1, <2>2, LeaveFacts
<1>8. CASE markProviderEventProcessed(w) \/ markProviderEventError(w)
  <2>1. \E st \in {"processed", "error"} : Mark(w, st)
    BY <1>8 DEF markProviderEventProcessed, markProviderEventError
  <2>2. \E st \in {"processed", "error"}, e \in Events :
            Settles(w, e, st) /\ worker' \in [Workers -> WorkerStates]
    BY <2>1, <1>7
  <2> QED BY <2>2 DEF Settles
<1> QED BY <1>1, <1>2, <1>3, <1>4, <1>5, <1>6, <1>8 DEF WorkerStep
-------------------------------------------------------------------------------
(* The invariant                                                            *)

LEMMA InitHolds == ASSUME Init PROVE IInv
<1>1. TypeOK
  BY LeaseAssumption DEF Init, TypeOK, WorkerStates, Idle
<1>2. RequestsOK
  BY DEF Init, RequestsOK, Idle
<1>3. ExclusiveUntilLateMark
  BY DEF Init, ExclusiveUntilLateMark, Holds, At, Idle
<1> QED BY <1>1, <1>2, <1>3 DEF IInv

\* Whoever holds an event has a lease that still runs on the clock.
LEMMA HolderFacts ==
    ASSUME IInv, NEW v \in Workers, NEW e \in Events \ late, Holds(v, e)
    PROVE  /\ row[e] = Claimed(v) /\ row[e] # None
           /\ row[e].status = "processing" /\ row[e].until = leaseUntil(v)
           /\ clock < leaseUntil(v) /\ leaseUntil(v) \in Nat
           /\ \A u \in Workers : Holds(u, e) => u = v
<1>1. row[e] = Claimed(v) /\ \A u \in Workers : Holds(u, e) => u = v
  BY DEF IInv, ExclusiveUntilLateMark
<1> QED BY <1>1, ClaimedIsRow, NoneIsNoRow DEF IInv, Holds, Claimed

\* A grant is of an event nobody holds.
LEMMA GrantedIsFree ==
    ASSUME IInv, NEW w \in Workers, NEW e \in Events \ late, IsGranted(w, e), NEW v \in Workers
    PROVE  ~Holds(v, e)
<1> SUFFICES ASSUME Holds(v, e) PROVE FALSE
  OBVIOUS
<1>1. row[e].status = "processing" /\ row[e].until > clock /\ row[e] # None
  BY HolderFacts
<1>2. worker[w].now <= clock /\ worker[w].now \in Nat /\ clock \in Nat
  BY DEF IInv, RequestsOK, IsGranted, TypeOK, WorkerStates
<1>3. Retryable(w) /\ worker[w].event = e
  BY <1>1 DEF IsGranted
<1>4. row[e].until <= worker[w].now
  BY <1>1, <1>3 DEF Retryable, EventOf
<1>5. row[e].until \in Nat
  BY <1>1 DEF IInv, TypeOK, Row
<1> QED BY <1>1, <1>2, <1>4, <1>5

\* What w does not touch is as before for the others.
LEMMA OthersHold ==
    ASSUME NEW w \in Workers, Alone(w), UNCHANGED clock, NEW v \in Workers \ {w}, NEW e \in Events
    PROVE  /\ Holds(v, e)' <=> Holds(v, e)
           /\ Claimed(v)' = Claimed(v)
  BY DEF Alone, Holds, At, EventOf, leaseUntil, Claimed

LEMMA RequestsStay ==
    ASSUME IInv, NEW w \in Workers, WorkerStep(w)
    PROVE  RequestsOK'
<1> SUFFICES ASSUME NEW v \in Workers, worker'[v].pc # "idle"
             PROVE  /\ worker'[v].event \in Events /\ worker'[v].now <= clock'
                    /\ worker'[v].pc \in {"looking", "retrying", "working"} => row'[worker'[v].event] # None
  BY DEF RequestsOK
<1>1. clock' = clock /\ Alone(w)
  BY Kinds DEF Proceeds, IsGranted, Settles
<1>2. CASE v = w
  BY <1>1, <1>2, Kinds
<1>3. CASE v # w
  <2>1. worker'[v] = worker[v]
    BY <1>1, <1>3 DEF Alone
  <2>2. \A e \in Events : row[e] # None => row'[e] # None
    <3> SUFFICES ASSUME NEW e \in Events, row[e] # None PROVE row'[e] # None
      OBVIOUS
    <3>1. CASE Proceeds(w)
      BY <3>1 DEF Proceeds
    <3>2. ASSUME NEW d \in Events, IsGranted(w, d) PROVE row'[e] # None
      BY <3>2, ClaimedIsRow, NoneIsNoRow DEF IsGranted, IInv, TypeOK
    <3>3. ASSUME NEW d \in Events, NEW st \in {"processed", "error"}, Settles(w, d, st)
          PROVE row'[e] # None
      <4>1. [status |-> st, until |-> 0] \in Row
        BY DEF Row
      <4> QED BY <3>3, <4>1, NoneIsNoRow DEF Settles, IInv, TypeOK
    <3> QED BY <3>1, <3>2, <3>3, Kinds
  <2> QED BY <1>1, <2>1, <2>2 DEF IInv, RequestsOK
<1> QED BY <1>2, <1>3

LEMMA TypesStay == ASSUME IInv, NEW w \in Workers, WorkerStep(w) PROVE TypeOK'
<1> USE DEF IInv
<1>1. CASE Proceeds(w)
  BY <1>1, Kinds DEF Proceeds, TypeOK
<1>2. ASSUME NEW e \in Events, IsGranted(w, e) PROVE TypeOK'
  BY <1>2, Kinds, ClaimedIsRow DEF IsGranted, TypeOK
<1>3. ASSUME NEW e \in Events, NEW st \in {"processed", "error"}, Settles(w, e, st) PROVE TypeOK'
  <2>1. [status |-> st, until |-> 0] \in Row
    BY DEF Row
  <2> QED BY <1>3, <2>1, Kinds DEF Settles, TypeOK
<1> QED BY <1>1, <1>2, <1>3, Kinds

\* Before a late mark, the row is that of the one worker whose lease runs.
LEMMA ExclusiveStays == ASSUME IInv, NEW w \in Workers, WorkerStep(w) PROVE ExclusiveUntilLateMark'
<1> SUFFICES ASSUME NEW e \in Events, e \notin late', NEW v \in Workers, Holds(v, e)'
             PROVE  row'[e] = Claimed(v)' /\ \A u \in Workers : Holds(u, e)' => u = v
  BY DEF ExclusiveUntilLateMark
<1>1. CASE Proceeds(w)
  <2>1. v # w /\ ~Holds(w, e)' /\ e \in Events \ late
    BY <1>1 DEF Proceeds, Holds, At
  <2>2. \A u \in Workers \ {w} : (Holds(u, e)' <=> Holds(u, e)) /\ Claimed(u)' = Claimed(u)
    BY <1>1, OthersHold DEF Proceeds
  <2> QED BY <1>1, <2>1, <2>2, HolderFacts DEF Proceeds
<1>2. ASSUME NEW d \in Events, IsGranted(w, d)
      PROVE  row'[e] = Claimed(v)' /\ \A u \in Workers : Holds(u, e)' => u = v
  <2>1. \A u \in Workers \ {w} : (Holds(u, e)' <=> Holds(u, e)) /\ Claimed(u)' = Claimed(u)
    BY <1>2, OthersHold DEF IsGranted
  <2>2. e \in Events \ late
    BY <1>2 DEF IsGranted
  <2>3. CASE d = e
    <3>1. \A u \in Workers : Holds(u, e)' => u = w
      BY <1>2, <2>1, <2>2, <2>3, GrantedIsFree
    <3>2. Claimed(w)' = Claimed(w)
      BY <1>2 DEF IsGranted, Claimed, leaseUntil
    <3> QED BY <1>2, <2>3, <3>1, <3>2 DEF IsGranted, IInv, TypeOK
  <2>4. CASE d # e
    <3>1. v # w /\ ~Holds(w, e)' /\ row'[e] = row[e]
      BY <1>2, <2>4 DEF IsGranted, Holds, EventOf, IInv, TypeOK
    <3> QED BY <2>1, <2>2, <3>1, HolderFacts
  <2> QED BY <2>3, <2>4
<1>3. ASSUME NEW d \in Events, NEW st \in {"processed", "error"}, Settles(w, d, st)
      PROVE  row'[e] = Claimed(v)' /\ \A u \in Workers : Holds(u, e)' => u = v
  <2>1. \A u \in Workers \ {w} : (Holds(u, e)' <=> Holds(u, e)) /\ Claimed(u)' = Claimed(u)
    BY <1>3, OthersHold DEF Settles
  <2>2. e \in Events \ late
    BY <1>3 DEF Settles
  <2>3. v # w /\ ~Holds(w, e)'
    BY <1>3 DEF Settles, Holds, At
  <2>4. Holds(v, e)
    BY <2>1, <2>3
  <2>5. d # e
    <3> SUFFICES ASSUME d = e PROVE FALSE
      OBVIOUS
    <3>1. row[e] = Claimed(w)
      BY <1>3, <2>2 DEF Settles
    <3>2. leaseUntil(w) = leaseUntil(v)
      <4>1. row[e].until = leaseUntil(w)
        BY <3>1 DEF Claimed
      <4>2. row[e].until = leaseUntil(v)
        BY <2>2, <2>4, HolderFacts
      <4> QED BY <4>1, <4>2
    <3>3. Holds(w, e)
      BY <1>3, <2>2, <2>4, <3>2, HolderFacts DEF Settles, Working, Holds, At, EventOf
    <3> QED BY <2>2, <2>3, <2>4, <3>3, HolderFacts
  <2>6. row'[e] = row[e]
    BY <1>3, <2>5 DEF Settles, IInv, TypeOK
  <2> QED BY <2>1, <2>2, <2>3, <2>4, <2>6, HolderFacts
<1> QED BY <1>1, <1>2, <1>3, Kinds

LEMMA TickHolds == ASSUME IInv, Tick PROVE IInv'
<1>1. clock \in Nat /\ clock' = clock + 1 /\ UNCHANGED <<row, worker, late>>
  BY DEF Tick, IInv, TypeOK
<1>2. TypeOK'
  BY <1>1 DEF IInv, TypeOK
<1>3. RequestsOK'
  BY <1>1 DEF IInv, TypeOK, WorkerStates, RequestsOK
<1>4. ASSUME NEW v \in Workers, NEW e \in Events, Holds(v, e)' PROVE Holds(v, e)
  <2>1. leaseUntil(v)' = leaseUntil(v) /\ leaseUntil(v) \in Nat
    BY <1>1, ClaimedIsRow DEF leaseUntil, IInv
  <2> QED BY <1>1, <1>4, <2>1 DEF Holds, At, EventOf
<1>5. \A v \in Workers : Claimed(v)' = Claimed(v)
  BY <1>1 DEF Claimed, leaseUntil
<1>6. ExclusiveUntilLateMark'
  BY <1>1, <1>4, <1>5 DEF IInv, ExclusiveUntilLateMark
<1> QED BY <1>2, <1>3, <1>6 DEF IInv

LEMMA StepHolds == ASSUME IInv, [Next]_vars PROVE IInv'
<1>1. CASE Tick
  BY <1>1, TickHolds
<1>2. ASSUME NEW w \in Workers, WorkerStep(w) PROVE IInv'
  BY <1>2, TypesStay, RequestsStay, ExclusiveStays DEF IInv
<1>3. CASE UNCHANGED vars
  BY <1>3 DEF IInv, TypeOK, RequestsOK, ExclusiveUntilLateMark, Holds, At, EventOf,
     leaseUntil, Claimed, vars
<1> QED BY <1>1, <1>2, <1>3 DEF Next

\* The invariant of the lease, with the times and rows of the requests under way.
THEOREM InvariantHolds == Spec => []IInv
<1>1. Init => IInv
  BY InitHolds
<1>2. IInv /\ [Next]_vars => IInv'
  BY StepHolds
<1> QED BY <1>1, <1>2, PTL DEF Spec

\* Rows and executions keep their types, whoever dies or is late
\* (webhook-idempotency.ts:19-116).
THEOREM TypeCorrect == Spec => []TypeOK
<1>1. IInv => TypeOK
  BY DEF IInv
<1> QED BY <1>1, InvariantHolds, PTL

\* Until a worker marks an event it has lost, at most one worker is in its lease,
\* and the row is its own (webhook-idempotency.ts:19-85).
THEOREM LeaseIsExclusive == Spec => []ExclusiveUntilLateMark
<1>1. IInv => ExclusiveUntilLateMark
  BY DEF IInv
<1> QED BY <1>1, InvariantHolds, PTL
-------------------------------------------------------------------------------
(* The refinement of LeaseContract                                          *)

contractVars == <<clock, phase, until, busy>>

\* The views of the contract, event by event.
LEMMA Views ==
    ASSUME TypeOK, NEW e \in Events
    PROVE  /\ row[e] = None => phase[e] = "new" /\ until[e] = 0
           /\ row[e] # None => until[e] = row[e].until
           /\ row[e] # None /\ row[e].status = "processing" => phase[e] = "held"
           /\ row[e] # None /\ row[e].status = "processed" => phase[e] = "done"
           /\ row[e] # None /\ row[e].status = "error" => phase[e] = "failed"
           /\ busy[e] = {w \in Workers : Working(w, e)}
  BY DEF phase, until, busy, Working, At, EventOf

LEMMA SameRow == ASSUME UNCHANGED row PROVE UNCHANGED <<phase, until>>
  BY DEF phase, until

\* A change of the row of e, to one with this status and this lease.
LEMMA RowChange ==
    ASSUME TypeOK, NEW e \in Events, NEW r \in Row, row' = [row EXCEPT ![e] = r],
           NEW p, p = IF r.status = "processing" THEN "held"
                      ELSE IF r.status = "processed" THEN "done" ELSE "failed"
    PROVE  /\ phase' = [phase EXCEPT ![e] = p]
           /\ until' = [until EXCEPT ![e] = r.until]
<1>1. r # None /\ row'[e] = r /\ \A d \in Events \ {e} : row'[d] = row[d]
  BY NoneIsNoRow DEF TypeOK
<1>2. \A d \in Events : phase'[d] = IF d = e THEN p ELSE phase[d]
  BY <1>1 DEF phase
<1>3. \A d \in Events : until'[d] = IF d = e THEN r.until ELSE until[d]
  BY <1>1 DEF until
<1> QED BY <1>2, <1>3 DEF phase, until

\* The workers of an event change by w alone.
LEMMA BusyChange ==
    ASSUME NEW w \in Workers, Alone(w), NEW e \in Events
    PROVE  busy'[e] = IF Working(w, e)' THEN busy[e] \cup {w} ELSE busy[e] \ {w}
  BY DEF busy, Alone, Working, At, EventOf

LEMMA GrantIsGrant ==
    ASSUME IInv, NEW w \in Workers, NEW e \in Events, IsGranted(w, e)
    PROVE  Contract!Grant(w, e)
<1> USE DEF IInv
<1>1. worker[w].now \in Nat /\ worker[w].now <= clock /\ clock \in Nat
  BY DEF IsGranted, TypeOK, WorkerStates, RequestsOK
<1>2. Contract!Free(e)
  <2>1. CASE row[e] = None
    BY <2>1, Views DEF Contract!Free
  <2>2. CASE row[e] # None /\ row[e].status = "error"
    BY <2>2, Views DEF Contract!Free
  <2>3. CASE row[e] # None /\ row[e].status = "processing" /\ row[e].until <= worker[w].now
    <3>1. row[e].until \in Nat
      BY <2>3 DEF TypeOK, Row
    <3>2. phase[e] = "held" /\ until[e] <= clock
      BY <1>1, <2>3, <3>1, Views
    <3> QED BY <3>2 DEF Contract!Free
  <2> QED BY <2>1, <2>2, <2>3 DEF IsGranted, Retryable, EventOf
<1>3. \A d \in Events : w \notin busy[d]
  BY DEF busy, IsGranted, At
<1>4. /\ Claimed(w) \in Row /\ Claimed(w).status = "processing"
      /\ Claimed(w).until = leaseUntil(w)
  BY ClaimedIsRow DEF Claimed
<1>5. phase' = [phase EXCEPT ![e] = "held"] /\ until' = [until EXCEPT ![e] = leaseUntil(w)]
  BY <1>4, RowChange DEF IsGranted
<1>6. leaseUntil(w) \in 1..(clock + Lease)
  BY <1>1, LeaseAssumption DEF leaseUntil
<1>7. busy' = [busy EXCEPT ![e] = @ \cup {w}]
  <2>1. \A d \in Events : busy'[d] = IF d = e THEN busy[d] \cup {w} ELSE busy[d]
    BY <1>3, BusyChange DEF IsGranted, Working
  <2> QED BY <2>1 DEF busy
<1> QED BY <1>2, <1>3, <1>5, <1>6, <1>7 DEF Contract!Grant, IsGranted

LEMMA SettleIsSettle ==
    ASSUME IInv, NEW w \in Workers, NEW e \in Events, NEW st \in {"processed", "error"},
           Settles(w, e, st)
    PROVE  Contract!Settle(w, e, IF st = "processed" THEN "done" ELSE "failed")
<1> DEFINE r == [status |-> st, until |-> 0]
           p == IF st = "processed" THEN "done" ELSE "failed"
<1> USE DEF IInv
<1>1. w \in busy[e]
  BY DEF Settles, Working, busy, At, EventOf
<1>2. r \in Row /\ r.status = st /\ r.until = 0 /\ row' = [row EXCEPT ![e] = r]
  BY DEF Row, Settles
<1>3. p = IF r.status = "processing" THEN "held" ELSE IF r.status = "processed" THEN "done" ELSE "failed"
  OBVIOUS
<1> HIDE DEF r, p
<1>4. phase' = [phase EXCEPT ![e] = p] /\ until' = [until EXCEPT ![e] = 0]
  BY <1>2, <1>3, RowChange
<1>5. busy' = [busy EXCEPT ![e] = @ \ {w}]
  <2>1. \A d \in Events \ {e} : w \notin busy[d]
    BY DEF busy, Settles, Working, EventOf
  <2>2. Alone(w) /\ \A d \in Events : ~Working(w, d)'
    BY DEF Settles, Working
  <2>3. \A d \in Events : busy'[d] = busy[d] \ {w}
    BY <2>2, BusyChange
  <2>4. \A d \in Events : busy'[d] = IF d = e THEN busy[d] \ {w} ELSE busy[d]
    BY <2>1, <2>3
  <2> QED BY <2>4 DEF busy
<1>6. Contract!Settle(w, e, p)
  BY <1>1, <1>4, <1>5 DEF Contract!Settle, Settles
<1> QED BY <1>6 DEF p

LEMMA ProceedIsAbandon ==
    ASSUME IInv, NEW w \in Workers, Proceeds(w)
    PROVE  (\E e \in Events : Contract!Abandon(w, e)) \/ UNCHANGED contractVars
<1> USE DEF IInv
<1>1. UNCHANGED <<clock, phase, until>>
  BY SameRow DEF Proceeds
<1>2. \A d \in Events : busy'[d] = busy[d] \ {w}
  BY BusyChange DEF Proceeds, Working
<1>3. CASE \E e \in Events : w \in busy[e]
  <2>1. PICK e \in Events : w \in busy[e]
    BY <1>3
  <2>2. \A d \in Events \ {e} : w \notin busy[d]
    BY <2>1 DEF busy, EventOf
  <2>3. busy' = [busy EXCEPT ![e] = @ \ {w}]
    BY <1>2, <2>2 DEF busy
  <2>4. Contract!Abandon(w, e)
    BY <1>1, <2>1, <2>3 DEF Contract!Abandon
  <2> QED BY <2>4
<1>4. CASE \A e \in Events : w \notin busy[e]
  <2>1. busy' = busy
    BY <1>2, <1>4 DEF busy
  <2> QED BY <1>1, <2>1 DEF contractVars
<1> QED BY <1>3, <1>4

\* Each step of a claim is one of the contract or nothing it speaks of.
LEMMA StepImplements ==
    ASSUME IInv, [Next]_vars
    PROVE  Contract!Next \/ UNCHANGED contractVars
<1>1. CASE Tick
  <2>1. UNCHANGED <<phase, until, busy>>
    BY <1>1, SameRow DEF Tick, busy, At, EventOf
  <2> QED BY <1>1, <2>1 DEF Tick, Contract!Next, Contract!Pass
<1>2. ASSUME NEW w \in Workers, WorkerStep(w) PROVE Contract!Next \/ UNCHANGED contractVars
  <2>1. CASE Proceeds(w)
    BY <2>1, ProceedIsAbandon DEF Contract!Next
  <2>2. ASSUME NEW e \in Events, IsGranted(w, e) PROVE Contract!Next
    BY <2>2, GrantIsGrant DEF Contract!Next
  <2>3. ASSUME NEW e \in Events, NEW st \in {"processed", "error"}, Settles(w, e, st)
        PROVE  Contract!Next
    <3>1. Contract!Settle(w, e, "done") \/ Contract!Settle(w, e, "failed")
      BY <2>3, SettleIsSettle
    <3> QED BY <3>1 DEF Contract!Next
  <2> QED BY <1>2, <2>1, <2>2, <2>3, Kinds
<1>3. CASE UNCHANGED vars
  BY <1>3, SameRow DEF vars, contractVars, busy, At, EventOf
<1> QED BY <1>1, <1>2, <1>3 DEF Next

\* The three statements of a claim are one atomic grant, never of an event that is
\* processed or whose lease runs (webhook-idempotency.ts:22-86).
THEOREM ImplementsLease == Spec => KeepsLease
<1>1. Init => Contract!Init
  BY DEF Init, Contract!Init, phase, until, busy, At, Idle
<1>2. IInv /\ [Next]_vars => [Contract!Next]_(Contract!vars)
  BY StepImplements DEF contractVars, Contract!vars
<1> QED BY <1>1, <1>2, InvariantHolds, PTL DEF Spec, KeepsLease, Contract!Spec
===============================================================================
