-------------------------------- MODULE CheckIn --------------------------------
(***************************************************************************)
(* POST /checkin/scan: the door.  A scan is one transaction on one         *)
(* connection of the pool; it locks the ticket, validates it, and asks for *)
(* a second connection to look up the scanner's membership before it       *)
(* writes.  A transaction that takes too long is rolled back, one that     *)
(* gets no connection is given up.                                         *)
(***************************************************************************)
EXTENDS Naturals, FiniteSets

CONSTANTS
    Tickets,   \* rows of Ticket with a code that verifies
    Users,     \* who may hold the scanner
    Members,   \* those with a membership of the organizer, of any role
    Scans,     \* concurrent executions of the handler
    PoolSize,  \* connection_limit of the process
    None       \* no ticket of that code, nobody

ASSUME CheckInAssumption ==
    /\ Members \subseteq Users
    /\ IsFiniteSet(Scans)
    /\ PoolSize \in Nat \ {0}
    /\ None \notin Tickets \cup Scans \cup Users

VARIABLES
    status,   \* Ticket.status
    entries,  \* number of TicketScan rows with result valid
    emitted,  \* number of TICKET_CHECKED_IN events
    refused,  \* tickets with a TicketScan row with result invalid
    lock,     \* who holds the row lock of a ticket
    scan      \* what each execution is doing

rows == <<status, entries, emitted, refused>>
vars == <<rows, lock, scan>>

ScanStates ==
    [pc    : {"idle", "queued", "locking", "checking", "deciding"},
     user  : Users \cup {None},
     code  : Tickets \cup {None},
     valid : BOOLEAN]  \* what validateTicketRecord said

TypeOK ==
    /\ status \in [Tickets -> {"issued", "checked_in", "void"}]
    /\ entries \in [Tickets -> Nat] /\ emitted \in [Tickets -> Nat]
    /\ refused \subseteq Tickets
    /\ lock \in [Tickets -> Scans \cup {None}]
    /\ scan \in [Scans -> ScanStates]

Idle == [pc |-> "idle", user |-> None, code |-> None, valid |-> FALSE]

\* Only the seed makes a ticket void.
Init ==
    /\ status \in [Tickets -> {"issued", "void"}]
    /\ entries = [t \in Tickets |-> 0] /\ emitted = [t \in Tickets |-> 0]
    /\ refused = {}
    /\ lock = [t \in Tickets |-> None]
    /\ scan = [s \in Scans |-> Idle]

-------------------------------------------------------------------------------
At(s, pc) == scan[s].pc = pc
CodeOf(s) == scan[s].code

\* The scans whose transaction has a connection, and whether one is left.
Open == {s \in Scans : scan[s].pc \in {"locking", "checking", "deciding"}}
ConnectionLeft == Cardinality(Open) < PoolSize

GoTo(s, pc) == scan' = [scan EXCEPT ![s].pc = pc]

BugLockOfSession(s) ==
    /\ scan' = [scan EXCEPT ![s] = Idle]
    /\ UNCHANGED lock

\* The transaction ends, and its lock and its connection are given back.
End(s) ==
    /\ scan' = [scan EXCEPT ![s] = Idle]
    /\ lock' = [t \in Tickets |-> IF lock[t] = s THEN None ELSE lock[t]]

Receive(s, u, c) ==
    /\ At(s, "idle")
    /\ scan' = [scan EXCEPT ![s] = [pc |-> "queued", user |-> u, code |-> c, valid |-> FALSE]]
    /\ UNCHANGED <<rows, lock>>

Connect(s) ==
    /\ At(s, "queued") /\ ConnectionLeft
    /\ GoTo(s, "locking")
    /\ UNCHANGED <<rows, lock>>

\* A code that does not verify, or of no ticket.
ScanUnknown(s) ==
    /\ At(s, "locking") /\ CodeOf(s) = None
    /\ End(s)
    /\ UNCHANGED rows

BugNoRowLock(s) == TRUE

LockFree(s) == lock[CodeOf(s)] = None

\* validateTicketRecord, of a row that exists.
Valid(t) == status[t] \notin {"void", "checked_in"}

\* The FOR UPDATE is granted, and the ticket validated under it.
ScanLock(s) ==
    /\ At(s, "locking") /\ CodeOf(s) # None /\ LockFree(s)
    /\ lock' = [lock EXCEPT ![CodeOf(s)] = s]
    /\ scan' = [scan EXCEPT ![s].pc = "checking", ![s].valid = Valid(CodeOf(s))]
    /\ UNCHANGED rows

\* requireMembership asks the pool, not the transaction.
ScanMembership(s) ==
    /\ At(s, "checking") /\ ConnectionLeft
    /\ IF scan[s].user \in Members THEN GoTo(s, "deciding") /\ UNCHANGED lock ELSE End(s)
    /\ UNCHANGED rows

ScanRefuse(s) ==
    /\ At(s, "deciding") /\ ~scan[s].valid
    /\ refused' = refused \cup {CodeOf(s)}
    /\ End(s)
    /\ UNCHANGED <<status, entries, emitted>>

BugUsed(s) == status' = [status EXCEPT ![CodeOf(s)] = "used"]

CheckedIn(s) == status' = [status EXCEPT ![CodeOf(s)] = "checked_in"]

\* Ticket, TicketScan and event, and the commit.
ScanAdmit(s) ==
    /\ At(s, "deciding") /\ scan[s].valid
    /\ CheckedIn(s)
    /\ entries' = [entries EXCEPT ![CodeOf(s)] = @ + 1]
    /\ emitted' = [emitted EXCEPT ![CodeOf(s)] = @ + 1]
    /\ End(s)
    /\ UNCHANGED refused

BugOnlyMaxWait(s) ==
    /\ At(s, "queued")
    /\ End(s)
    /\ UNCHANGED rows

\* maxWait of a queued transaction, timeout of an open one, or a crash.
Timeout(s) ==
    /\ ~At(s, "idle")
    /\ End(s)
    /\ UNCHANGED rows
-------------------------------------------------------------------------------
ScanStep(s) ==
    \/ Connect(s) \/ ScanUnknown(s) \/ ScanLock(s) \/ ScanMembership(s)
    \/ ScanRefuse(s) \/ ScanAdmit(s)

Next ==
    \E s \in Scans :
        \/ \E u \in Users, c \in Tickets \cup {None} : Receive(s, u, c)
        \/ ScanStep(s)
        \/ Timeout(s)

Spec == Init /\ [][Next]_vars

\* Locks and connections are granted first come first served, and the timeouts of
\* Prisma run out.
FairSpec == Spec /\ \A s \in Scans : SF_vars(ScanStep(s)) /\ WF_vars(Timeout(s))
-------------------------------------------------------------------------------
(* Properties                                                               *)

\* A ticket admits once, however many scanners read its code at the same moment
\* and whichever of their transactions is rolled back: at most one valid scan,
\* with its event, exactly for the tickets that are checked in (server.ts:964-1058).
TicketAdmitsOnce ==
    \A t \in Tickets :
        /\ entries[t] = emitted[t]
        /\ entries[t] = IF status[t] = "checked_in" THEN 1 ELSE 0

Waiting(s) ==
    \/ At(s, "queued") /\ ~ConnectionLeft
    \/ At(s, "locking") /\ CodeOf(s) # None /\ lock[CodeOf(s)] # None
    \/ At(s, "checking") /\ ~ConnectionLeft

\* The second connection is the only thing scans can wait for in a circle: when
\* none of those under way can go on, their transactions have every connection,
\* and one of them asks for another.  No order of row locks does it
\* (server.ts:970-987).
StalemateNeedsAllConnections ==
    LET busy == {s \in Scans : ~At(s, "idle")} IN
    busy # {} /\ (\A s \in busy : Waiting(s)) =>
        /\ Cardinality(Open) >= PoolSize
        /\ \E s \in Open : At(s, "checking")

\* Every scan is answered, even when the pool is used up by scans that all ask for
\* the second connection: the transactions of that stalemate time out.
ScansAreAnswered == \A s \in Scans : ~At(s, "idle") ~> At(s, "idle")
===============================================================================
