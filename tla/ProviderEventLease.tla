-------------------------- MODULE ProviderEventLease --------------------------
(***************************************************************************)
(* The claim of a provider event with a lease: claimProviderEvent,         *)
(* markProviderEventProcessed and markProviderEventError.  A claim is an   *)
(* insert, and when the row exists a lookup and a guarded update, three    *)
(* statements without a transaction that share one reading of the clock.   *)
(* No handler calls the module; as ADR-0005 describes, a worker that has   *)
(* claimed an event works on it and marks it, however long that takes.     *)
(***************************************************************************)
EXTENDS Naturals

CONSTANTS
    Events,   \* (provider, providerEventId)
    Workers,  \* concurrent executions of a consumer
    Lease,    \* leaseSeconds
    MaxTime,  \* bound on the clock
    None      \* no row, no event

ASSUME LeaseAssumption ==
    /\ Lease \in Nat \ {0} /\ MaxTime \in Nat
    /\ None \notin Events

VARIABLES
    row,     \* PaymentProviderEvent: status and leaseUntil, or None
    worker,  \* what each execution is doing
    clock,   \* Date.now(), the same for every process
    late     \* history: events somebody marked after another had taken them over

vars == <<row, worker, clock, late>>

Row == [status : {"processing", "processed", "error"}, until : Nat]  \* 0 is null

ASSUME NoneIsNoRow == None \notin Row

WorkerStates ==
    [pc    : {"idle", "inserting", "looking", "retrying", "working"},
     event : Events \cup {None},
     now   : Nat]  \* its reading of the clock

TypeOK ==
    /\ row \in [Events -> Row \cup {None}]
    /\ worker \in [Workers -> WorkerStates]
    /\ clock \in Nat
    /\ late \subseteq Events

Idle == [pc |-> "idle", event |-> None, now |-> 0]

Init ==
    /\ row = [e \in Events |-> None]
    /\ worker = [w \in Workers |-> Idle]
    /\ clock = 0
    /\ late = {}

-------------------------------------------------------------------------------
At(w, pc)     == worker[w].pc = pc
EventOf(w)    == worker[w].event
leaseUntil(w) == worker[w].now + Lease

GoTo(w, pc) == worker' = [worker EXCEPT ![w].pc = pc]
Leave(w)    == worker' = [worker EXCEPT ![w] = Idle]

BugNoLease(w) == [status |-> "processing", until |-> None]

\* What the insert and the update of w leave in the row.
Claimed(w) == [status |-> "processing", until |-> leaseUntil(w)]

\* A delivery: the clock is read before the first statement.
Claim(w, e) ==
    /\ At(w, "idle")
    /\ worker' = [worker EXCEPT ![w] = [pc |-> "inserting", event |-> e, now |-> clock]]
    /\ UNCHANGED <<row, clock, late>>

ClaimInsert(w) ==
    /\ At(w, "inserting") /\ row[EventOf(w)] = None
    /\ row' = [row EXCEPT ![EventOf(w)] = Claimed(w)]
    /\ GoTo(w, "working")
    /\ UNCHANGED <<clock, late>>

\* P2002: the row is there, and rows are never deleted.
ClaimExists(w) ==
    /\ At(w, "inserting") /\ row[EventOf(w)] # None
    /\ GoTo(w, "looking")
    /\ UNCHANGED <<row, clock, late>>

leaseActive(w) ==
    row[EventOf(w)].status = "processing" /\ row[EventOf(w)].until > worker[w].now

\* deduped or in_flight.
ClaimTurnedAway(w) ==
    /\ At(w, "looking")
    /\ row[EventOf(w)].status = "processed" \/ leaseActive(w)
    /\ Leave(w)
    /\ UNCHANGED <<row, clock, late>>

ClaimMayRetry(w) ==
    /\ At(w, "looking")
    /\ ~(row[EventOf(w)].status = "processed" \/ leaseActive(w))
    /\ GoTo(w, "retrying")
    /\ UNCHANGED <<row, clock, late>>

BugUnguarded(w) == TRUE
BugByStatus(w) == row[EventOf(w)].status \in {"error", "processing"}

\* The where of the update, which sees the row as it is now.
Retryable(w) ==
    \/ row[EventOf(w)].status = "error"
    \/ row[EventOf(w)].status = "processing" /\ row[EventOf(w)].until <= worker[w].now

ClaimRetry(w) ==
    /\ At(w, "retrying") /\ Retryable(w)
    /\ row' = [row EXCEPT ![EventOf(w)] = Claimed(w)]
    /\ GoTo(w, "working")
    /\ UNCHANGED <<clock, late>>

\* count is 0: in_flight.
ClaimLost(w) ==
    /\ At(w, "retrying") /\ ~Retryable(w)
    /\ Leave(w)
    /\ UNCHANGED <<row, clock, late>>

\* The where of the two marks names the event, not the claim.
Mark(w, status) ==
    /\ At(w, "working")
    /\ row' = [row EXCEPT ![EventOf(w)] = [status |-> status, until |-> 0]]
    /\ late' = IF row[EventOf(w)] = Claimed(w) THEN late ELSE late \cup {EventOf(w)}
    /\ Leave(w)
    /\ UNCHANGED clock

markProviderEventProcessed(w) == Mark(w, "processed")
markProviderEventError(w)     == Mark(w, "error")

\* A worker dies, at any point; its lease, if any, has to run out.
Crash(w) ==
    /\ ~At(w, "idle")
    /\ Leave(w)
    /\ UNCHANGED <<row, clock, late>>

Tick ==
    /\ clock < MaxTime
    /\ clock' = clock + 1
    /\ UNCHANGED <<row, worker, late>>
-------------------------------------------------------------------------------
WorkerStep(w) ==
    \/ \E e \in Events : Claim(w, e)
    \/ ClaimInsert(w) \/ ClaimExists(w) \/ ClaimTurnedAway(w) \/ ClaimMayRetry(w)
    \/ ClaimRetry(w) \/ ClaimLost(w)
    \/ markProviderEventProcessed(w) \/ markProviderEventError(w)
    \/ Crash(w)

Next == Tick \/ \E w \in Workers : WorkerStep(w)

Spec == Init /\ [][Next]_vars
-------------------------------------------------------------------------------
(* Properties                                                               *)

\* w works on e, and its lease has not run out.
Holds(w, e) == At(w, "working") /\ EventOf(w) = e /\ clock < leaseUntil(w)

\* The lease is exclusive, although the decision to take an event over is made on
\* a row and a time read earlier: at most one worker is in its lease, and the row
\* is as that worker left it.  What ends this is a worker that somebody took over
\* and that still marks the event; from then on the promise is off
\* (webhook-idempotency.ts:19-85, 94-116).
ExclusiveUntilLateMark ==
    \A e \in Events \ late : \A w \in Workers :
        Holds(w, e) =>
            /\ row[e] = Claimed(w)
            /\ \A v \in Workers : Holds(v, e) => v = w

phase == [e \in Events |->
    CASE row[e] = None -> "new"
      [] row[e] # None /\ row[e].status = "processing" -> "held"
      [] row[e] # None /\ row[e].status = "processed" -> "done"
      [] OTHER -> "failed"]

until == [e \in Events |-> IF row[e] = None THEN 0 ELSE row[e].until]

busy == [e \in Events |-> {w \in Workers : At(w, "working") /\ EventOf(w) = e}]

Contract == INSTANCE LeaseContract
    WITH clock <- clock, phase <- phase, until <- until, busy <- busy

\* The three statements of a claim are one atomic grant, decided at the moment of
\* the insert or the update: never of a processed event, never of one whose lease
\* runs (webhook-idempotency.ts:22-86).
KeepsLease == Contract!Spec
===============================================================================
