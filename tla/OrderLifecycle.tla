---------------------------- MODULE OrderLifecycle ----------------------------
(***************************************************************************)
(* The life of an order after POST /checkout/reserve has committed it:     *)
(* POST /checkout/confirm, POST /webhooks/payments/:provider with          *)
(* applyPaymentEvent, and the job that expires reservations, all running   *)
(* READ COMMITTED transactions on one Postgres database.                   *)
(*                                                                         *)
(* A transaction is cut where another one can interfere: at a row lock it  *)
(* may wait for, at a unique key it may lose, at the clock it reads, and   *)
(* between two commits of one request.  Its writes become visible when it  *)
(* commits, so they appear in the step that commits them.                  *)
(***************************************************************************)
EXTENDS Naturals

CONSTANTS
    Orders,      \* rows of Order
    Refs,        \* payment references, providerRef of a Payment
    Keys,        \* clientRequestIds of /checkout/confirm
    Providers,   \* payment providers, lower case
    Mock,        \* the provider /checkout/confirm pays with
    EventIds,    \* providerEventIds of webhook deliveries
    EventTypes,  \* event types, each the set of words its text contains
    Confirmers,  \* concurrent executions of /checkout/confirm
    Webhooks,    \* concurrent executions of /webhooks/payments/:provider
    Jobs,        \* concurrent executions of the expiry job
    None,        \* SQL NULL, no lock holder, no row
    MaxCrashes   \* bound on failures of an API or job process

ASSUME OrderLifecycleAssumption ==
    /\ Mock \in Providers
    /\ EventTypes \subseteq SUBSET {"paid", "failed", "refunded"}
    /\ None \notin Orders \cup Refs \cup Confirmers \cup Webhooks \cup Jobs
    /\ None \notin Providers \X (Refs \cup {None})
    /\ None \notin Orders \X Refs
    /\ Confirmers \cap Webhooks = {}
    /\ (Confirmers \cup Webhooks) \cap Jobs = {}
    /\ MaxCrashes \in Nat

Handlers == Confirmers \cup Webhooks
Events   == Providers \X EventIds
PayKeys  == Providers \X Refs

Statuses == {"pending", "reserved", "paid", "failed", "refunded",
             "paid_no_stock", "expired", "canceled"}

(* Operators called Bug... are what the definition after them would be with a *)
(* plausible mistake in the code; the properties are tried against them.    *)

BugPaidNotTerminal    == {"failed", "refunded", "paid_no_stock"}
BugNoStockNotTerminal == {"paid", "failed", "refunded"}

\* terminalStatuses of applyPaymentEvent: no webhook moves an order out of them.
terminalStatuses == {"paid", "failed", "refunded", "paid_no_stock"}

EventNames == {"ORDER_PAID", "TICKETS_ISSUED", "ORDER_EXPIRED",
               "PAYMENT_MARKED_FAILED", "PAYMENT_MARKED_REFUNDED",
               "PAYMENT_MARKED_NO_STOCK"}

\* The event names with a unique index on the aggregate (migrations 0007, 0008).
OnceOnly == {"ORDER_PAID", "TICKETS_ISSUED", "ORDER_EXPIRED"}

VARIABLES
    status,      \* Order.status
    due,         \* Order.reservedUntil against the clock: "none", "ahead", "past"
    held,        \* orders whose InventoryReservation rows have releasedAt null
    payment,     \* Payment by its unique key: the order it belongs to, or None
    tickets,     \* number of times the tickets of an order were issued
    emitted,     \* DomainEvent rows, as <<name, order>>
    confirmKey,  \* ConfirmIdempotencyKey: <<order, ref>>, or None
    event,       \* payment_events by its unique key: the row, or None
    outbox,      \* orders whose confirmation mail job was added to the queue
    rowLock,     \* who holds the Order row lock
    resLock,     \* who holds the order's InventoryReservation row locks
    handler,     \* the request each execution of a handler is serving
    job,         \* the run each execution of the expiry job is in
    crashes      \* failures so far

dbVars  == <<status, held, payment, tickets, emitted, confirmKey, event>>
vars    == <<dbVars, due, outbox, rowLock, resLock, handler, job, crashes>>

EventRows ==
    [order     : Orders \cup {None},
     ref       : Refs \cup {None},
     type      : EventTypes,
     processed : BOOLEAN,
     ignored   : {"no", "unmatched", "terminal_guard", "unsupported_event_type"},
     error     : {"none", "identity", "reference", "other"}]

ASSUME NoneIsNoRow == None \notin EventRows

HandlerStates ==
    [pc    : {"idle", "begun", "admitted", "paying", "committed", "failing", "duplicate"},
     order : Orders \cup {None},
     pay   : (Providers \X (Refs \cup {None})) \cup {None},
     tag   : Keys \cup Events \cup {None},
     error : {"none", "identity", "reference", "other"}]

JobStates ==
    [pc   : {"idle", "releasing", "expiring"},
     now  : SUBSET Orders,   \* orders due at the run's clock reading
     list : SUBSET Orders,   \* expiredOrders, the findMany of the run
     todo : SUBSET Orders,   \* orders the updateMany it is in still has to visit
     mine : SUBSET Orders,   \* orders it has set to expired, not yet committed
     sent : SUBSET Orders]   \* ORDER_EXPIRED it has inserted, not yet committed

TypeOK ==
    /\ status \in [Orders -> Statuses]
    /\ due \in [Orders -> {"none", "ahead", "past"}]
    /\ held \in SUBSET Orders
    /\ payment \in [PayKeys -> Orders \cup {None}]
    /\ tickets \in [Orders -> Nat]
    /\ emitted \in SUBSET (EventNames \X Orders)
    /\ confirmKey \in [Keys -> (Orders \X Refs) \cup {None}]
    /\ event \in [Events -> EventRows \cup {None}]
    /\ outbox \in SUBSET Orders
    /\ rowLock \in [Orders -> Handlers \cup Jobs \cup {None}]
    /\ resLock \in [Orders -> Jobs \cup {None}]
    /\ handler \in [Handlers -> HandlerStates]
    /\ job \in [Jobs -> JobStates]
    /\ crashes \in Nat

Idle    == [pc |-> "idle", order |-> None, pay |-> None, tag |-> None,
            error |-> "none"]
IdleJob == [pc |-> "idle", now |-> {}, list |-> {}, todo |-> {}, mine |-> {}, sent |-> {}]

\* Orders as the reserve handler commits them, and the pending (with a deadline
\* and no reservation) and canceled (without a deadline) ones of the seed.
Init ==
    /\ status \in [Orders -> {"reserved", "pending", "canceled"}]
    /\ due = [o \in Orders |-> IF status[o] = "canceled" THEN "none" ELSE "ahead"]
    /\ held = {o \in Orders : status[o] = "reserved"}
    /\ payment = [p \in PayKeys |-> None]
    /\ tickets = [o \in Orders |-> 0]
    /\ emitted = {}
    /\ confirmKey = [k \in Keys |-> None]
    /\ event = [e \in Events |-> None]
    /\ outbox = {}
    /\ rowLock = [o \in Orders |-> None]
    /\ resLock = [o \in Orders |-> None]
    /\ handler = [p \in Handlers |-> Idle]
    /\ job = [j \in Jobs |-> IdleJob]
    /\ crashes = 0

-------------------------------------------------------------------------------
(* What a step does to the handler that takes it.                          *)

At(p, pc)   == handler[p].pc = pc
OrderOf(p)  == handler[p].order
PayOf(p)    == handler[p].pay
Free(o)     == rowLock[o] = None
Lock(p)     == rowLock' = [rowLock EXCEPT ![OrderOf(p)] = p]

\* The end of a transaction, either way, gives back the row lock it holds.
Unlock(p) == rowLock' = [o \in Orders |-> IF rowLock[o] = p THEN None ELSE rowLock[o]]

Begin(p, o, pay, tag) == handler' = [handler EXCEPT ![p] =
    [pc |-> "begun", order |-> o, pay |-> pay, tag |-> tag, error |-> "none"]]
Goto(p, pc) == handler' = [handler EXCEPT ![p].pc = pc]

BugRetryForever(p, error) ==
    /\ Goto(p, "begun")
    /\ Unlock(p)
    /\ UNCHANGED <<dbVars, due, outbox, resLock, job, crashes>>

\* A transaction that fails: nothing of it stays.  /checkout/confirm answers
\* with the error; the webhook goes on to record it on the event it stored.
Rollback(p, error) ==
    /\ handler' = [handler EXCEPT ![p] =
            IF p \in Confirmers THEN Idle
                                ELSE [@ EXCEPT !.pc = "failing", !.error = error]]
    /\ Unlock(p)
    /\ UNCHANGED <<dbVars, due, outbox, resLock, job, crashes>>

\* emitDomainEvent of several events in a transaction.  A unique violation is
\* swallowed by emitDomainEvent, but Postgres has aborted the transaction, so
\* the transaction can only commit when none of its events breaks an index.
CanEmit(names, o) == \A n \in names \cap OnceOnly : <<n, o>> \notin emitted
Emit(names, o)    == emitted' = emitted \cup (names \X {o})

\* Ticket rows are created when the order has none yet.
IssueNames(o) == IF tickets[o] = 0 THEN {"TICKETS_ISSUED"} ELSE {}
Issue(o)      == tickets' = [tickets EXCEPT ![o] = IF @ = 0 THEN 1 ELSE @]

BugNoRelease(o) == UNCHANGED held

\* The updateMany of the order's unreleased reservations.
Release(o) == held' = held \ {o}

\* The lookup of materializePayment for the order of handler p.
UsedElsewhere(p) == payment[PayOf(p)] \notin {None, OrderOf(p)}

\* The transactions that have inserted a payment key and not committed it:
\* another insert of the key waits for them.
Inserting(key) == {q \in Handlers : At(q, "paying") /\ PayOf(q) = key}

\* The insert of materializePayment, possible or not needed.
CanInsertPayment(p) ==
    /\ payment[PayOf(p)] \in {None, OrderOf(p)}
    /\ Inserting(PayOf(p)) = {}

InsertPayment(p) == payment' = [payment EXCEPT ![PayOf(p)] = OrderOf(p)]
-------------------------------------------------------------------------------
(* POST /checkout/confirm                                                   *)

\* A request whose key is stored is answered from it, replay or 409, and
\* changes nothing; any other one goes on to open the transaction.
ConfirmReceive(c) ==
    /\ At(c, "idle")
    /\ \E o \in Orders, r \in Refs, k \in Keys :
        /\ confirmKey[k] = None
        /\ Begin(c, o, <<Mock, r>>, k)
    /\ UNCHANGED <<dbVars, due, outbox, rowLock, resLock, job, crashes>>

\* The references of the mock payments of an order.
MockRefs(o) == {r \in Refs : payment[<<Mock, r>>] = o}

BugAnyReference(c) == status[OrderOf(c)] = "paid"

\* What the handler finds once it holds the row lock of the order: paid with
\* this reference; reserved, in time and with this payment already there;
\* reserved, in time and the reference still unused.  Anything else is an error.
Replayed(c) ==
    status[OrderOf(c)] = "paid" /\ PayOf(c)[2] \in MockRefs(OrderOf(c))
InTime(c) ==
    status[OrderOf(c)] = "reserved" /\ due[OrderOf(c)] = "ahead"
Existing(c) == InTime(c) /\ payment[PayOf(c)] = OrderOf(c)
Fresh(c)    == InTime(c) /\ payment[PayOf(c)] = None

ConfirmRefuse(c) ==
    /\ At(c, "begun") /\ Free(OrderOf(c))
    /\ ~(Replayed(c) \/ Existing(c) \/ Fresh(c))
    /\ Rollback(c, "other")

\* The payment is already there: only the key is stored.
ConfirmRecordKey(c) ==
    /\ At(c, "begun") /\ Free(OrderOf(c))
    /\ Replayed(c) \/ Existing(c)
    /\ confirmKey[handler[c].tag] = None
    /\ confirmKey' = [confirmKey EXCEPT ![handler[c].tag] = <<OrderOf(c), PayOf(c)[2]>>]
    /\ handler' = [handler EXCEPT ![c] =
            IF Replayed(c) THEN [@ EXCEPT !.pc = "committed"] ELSE Idle]
    /\ UNCHANGED <<status, held, payment, tickets, emitted, event,
                   due, outbox, rowLock, resLock, job, crashes>>

ConfirmAdmit(c) ==
    /\ At(c, "begun") /\ Free(OrderOf(c))
    /\ Fresh(c)
    /\ Lock(c)
    /\ Goto(c, "admitted")
    /\ UNCHANGED <<dbVars, due, outbox, resLock, job, crashes>>

ConfirmInsertPayment(c) ==
    /\ At(c, "admitted")
    /\ CanInsertPayment(c)
    /\ Goto(c, "paying")
    /\ UNCHANGED <<dbVars, due, outbox, rowLock, resLock, job, crashes>>

\* The paid transition, up to the commit.  It waits for the reservation rows.
ConfirmCommit(c) ==
    LET o == OrderOf(c) IN
    /\ At(c, "paying")
    /\ resLock[o] = None
    /\ CanEmit({"ORDER_PAID"} \cup IssueNames(o), o)
    /\ confirmKey[handler[c].tag] = None
    /\ status' = [status EXCEPT ![o] = "paid"]
    /\ InsertPayment(c)
    /\ Emit({"ORDER_PAID"} \cup IssueNames(o), o)
    /\ Issue(o)
    /\ Release(o)
    /\ confirmKey' = [confirmKey EXCEPT ![handler[c].tag] = <<o, PayOf(c)[2]>>]
    /\ Goto(c, "committed")
    /\ Unlock(c)
    /\ UNCHANGED <<event, due, outbox, resLock, job, crashes>>

\* The insert of the confirm key loses to a request on another order, or on the
\* same paid order: P2002 is caught, and the next query finds the transaction
\* aborted.
ConfirmKeyTaken(c) ==
    /\ \/ /\ At(c, "begun") /\ Free(OrderOf(c))
          /\ Replayed(c) \/ Existing(c)
       \/ /\ At(c, "paying")
          /\ resLock[OrderOf(c)] = None
    /\ confirmKey[handler[c].tag] # None
    /\ Rollback(c, "other")

\* notificationQueue.add, after the commit; the job id makes it one per order.
ConfirmEnqueue(c) ==
    /\ At(c, "committed")
    /\ outbox' = outbox \cup {OrderOf(c)}
    /\ handler' = [handler EXCEPT ![c] = Idle]
    /\ UNCHANGED <<dbVars, due, rowLock, resLock, job, crashes>>
-------------------------------------------------------------------------------
(* POST /webhooks/payments/:provider and applyPaymentEvent                   *)

\* Only words of the event type count, "paid" standing for "succeeded" too.
mapEventTypeToTarget(type) ==
    IF "paid" \in type THEN "paid"
    ELSE IF "failed" \in type THEN "failed"
    ELSE IF "refunded" \in type THEN "refunded"
    ELSE None

\* paymentEvent.create, a commit of its own.  The foreign key makes it wait for
\* a transaction that has locked the order.
HookStore(h) ==
    /\ At(h, "idle")
    /\ \E e \in Events, o \in Orders \cup {None}, r \in Refs \cup {None}, t \in EventTypes :
        /\ event[e] = None
        /\ o # None => rowLock[o] \notin Handlers
        /\ event' = [event EXCEPT ![e] =
                [order |-> o, ref |-> r, type |-> t, processed |-> FALSE,
                 ignored |-> "no", error |-> "none"]]
        /\ Begin(h, o, <<e[1], r>>, e)
    /\ UNCHANGED <<status, held, payment, tickets, emitted, confirmKey,
                   due, outbox, rowLock, resLock, job, crashes>>

EventOf(h) == event[handler[h].tag]

\* A delivery of an event that is stored: the insert is refused, whatever order
\* and payment this delivery names.
HookDuplicate(h) ==
    /\ At(h, "idle")
    /\ \E e \in Events :
        /\ event[e] # None
        /\ handler' = [handler EXCEPT ![h] =
                [Idle EXCEPT !.pc = "duplicate", !.tag = e]]
    /\ UNCHANGED <<dbVars, due, outbox, rowLock, resLock, job, crashes>>

\* The lookup of the stored event, and the answer: 422 again if it failed for
\* want of a payment id, 200 and deduped otherwise.  Nothing is tried again.
Unresolved(h) == ~EventOf(h).processed /\ EventOf(h).error = "identity"

HookUnresolved(h) ==
    /\ At(h, "duplicate") /\ Unresolved(h)
    /\ handler' = [handler EXCEPT ![h] = Idle]
    /\ UNCHANGED <<dbVars, due, outbox, rowLock, resLock, job, crashes>>

HookDeduped(h) ==
    /\ At(h, "duplicate") /\ ~Unresolved(h)
    /\ handler' = [handler EXCEPT ![h] = Idle]
    /\ UNCHANGED <<dbVars, due, outbox, rowLock, resLock, job, crashes>>

Target(h)  == mapEventTypeToTarget(EventOf(h).type)

\* No order to lock, or its lock is available.
Reached(h) == At(h, "begun") /\ (OrderOf(h) # None => Free(OrderOf(h)))

\* markEventProcessed
markEventProcessed(h, reason) ==
    event' = [event EXCEPT ![handler[h].tag] =
        [@ EXCEPT !.processed = TRUE, !.ignored = reason, !.error = "none"]]

BugReasonIsStatus(h) ==
    IF OrderOf(h) = None THEN "unmatched"
    ELSE IF status[OrderOf(h)] \in terminalStatuses THEN status[OrderOf(h)]
    ELSE IF Target(h) = None THEN "unsupported_event_type"
    ELSE "no"

\* Why an event is processed without effect, or "no".
IgnoreReason(h) ==
    IF OrderOf(h) = None THEN "unmatched"
    ELSE IF status[OrderOf(h)] \in terminalStatuses THEN "terminal_guard"
    ELSE IF Target(h) = None THEN "unsupported_event_type"
    ELSE "no"

HookIgnore(h) ==
    /\ Reached(h)
    /\ IgnoreReason(h) # "no"
    /\ markEventProcessed(h, IgnoreReason(h))
    /\ handler' = [handler EXCEPT ![h] = Idle]
    /\ UNCHANGED <<status, held, payment, tickets, emitted, confirmKey,
                   due, outbox, rowLock, resLock, job, crashes>>

\* A payment event without a payment id, or with one of another order.
HookRefuse(h) ==
    /\ Reached(h)
    /\ IgnoreReason(h) = "no" /\ Target(h) = "paid"
    /\ \/ EventOf(h).ref = None /\ Rollback(h, "identity")
       \/ EventOf(h).ref # None /\ UsedElsewhere(h) /\ Rollback(h, "reference")

\* failed and refunded: the guarded updateMany may match no row, the event is
\* emitted all the same.
HookTransition(h) ==
    LET o    == OrderOf(h)
        from == IF Target(h) = "failed"
                THEN {"pending", "reserved"}
                ELSE {"paid", "failed", "pending", "reserved", "expired"}
        name == IF Target(h) = "failed"
                THEN "PAYMENT_MARKED_FAILED" ELSE "PAYMENT_MARKED_REFUNDED"
    IN
    /\ Reached(h)
    /\ IgnoreReason(h) = "no" /\ Target(h) \in {"failed", "refunded"}
    /\ status' = [status EXCEPT ![o] = IF @ \in from THEN Target(h) ELSE @]
    /\ Emit({name}, o)
    /\ markEventProcessed(h, "no")
    /\ handler' = [handler EXCEPT ![h] = Idle]
    /\ UNCHANGED <<held, payment, tickets, confirmKey,
                   due, outbox, rowLock, resLock, job, crashes>>

HookAdmit(h) ==
    /\ Reached(h)
    /\ IgnoreReason(h) = "no" /\ Target(h) = "paid"
    /\ EventOf(h).ref # None /\ ~UsedElsewhere(h)
    /\ Lock(h)
    /\ Goto(h, "admitted")
    /\ UNCHANGED <<dbVars, due, outbox, resLock, job, crashes>>

\* Payment of an order past its deadline: no tickets.
HookNoStock(h) ==
    LET o == OrderOf(h) IN
    /\ At(h, "admitted")
    /\ CanInsertPayment(h)
    /\ due[o] = "past"
    /\ InsertPayment(h)
    /\ status' = [status EXCEPT ![o] = "paid_no_stock"]
    /\ Emit({"PAYMENT_MARKED_NO_STOCK"}, o)
    /\ markEventProcessed(h, "no")
    /\ handler' = [handler EXCEPT ![h] = Idle]
    /\ Unlock(h)
    /\ UNCHANGED <<held, tickets, confirmKey, due, outbox, resLock, job, crashes>>

payable == {"pending", "reserved", "expired"}

\* The guarded update matches no row (a canceled order); the payment stays.
HookUnpayable(h) ==
    LET o == OrderOf(h) IN
    /\ At(h, "admitted")
    /\ CanInsertPayment(h)
    /\ due[o] # "past" /\ status[o] \notin payable
    /\ InsertPayment(h)
    /\ markEventProcessed(h, "terminal_guard")
    /\ handler' = [handler EXCEPT ![h] = Idle]
    /\ Unlock(h)
    /\ UNCHANGED <<status, held, tickets, emitted, confirmKey,
                   due, outbox, resLock, job, crashes>>

HookInsertPayment(h) ==
    /\ At(h, "admitted")
    /\ CanInsertPayment(h)
    /\ due[OrderOf(h)] # "past" /\ status[OrderOf(h)] \in payable
    /\ Goto(h, "paying")
    /\ UNCHANGED <<dbVars, due, outbox, rowLock, resLock, job, crashes>>

\* The paid transition of applyPaymentEvent; it also waits for the reservations.
HookCommit(h) ==
    LET o == OrderOf(h) IN
    /\ At(h, "paying")
    /\ resLock[o] = None
    /\ CanEmit({"ORDER_PAID"} \cup IssueNames(o), o)
    /\ status' = [status EXCEPT ![o] = "paid"]
    /\ InsertPayment(h)
    /\ Issue(o)
    /\ Emit({"ORDER_PAID"} \cup IssueNames(o), o)
    /\ Release(o)
    /\ markEventProcessed(h, "no")
    /\ handler' = [handler EXCEPT ![h] = Idle]
    /\ Unlock(h)
    /\ UNCHANGED <<confirmKey, due, outbox, resLock, job, crashes>>

\* paymentEvent.update with the error of the failed transaction.
HookRecordError(h) ==
    /\ At(h, "failing")
    /\ event' = [event EXCEPT ![handler[h].tag].error = handler[h].error]
    /\ handler' = [handler EXCEPT ![h] = Idle]
    /\ UNCHANGED <<status, held, payment, tickets, emitted, confirmKey,
                   due, outbox, rowLock, resLock, job, crashes>>
-------------------------------------------------------------------------------
(* Both paths                                                               *)

\* A unique index refuses an insert: at that of materializePayment the reference
\* was taken after its lookup (no 409 then), at those of emitDomainEvent the
\* order already has a once-only event.
UniqueKeyTaken(p) ==
    LET o == OrderOf(p) IN
    /\ (At(p, "admitted") /\ UsedElsewhere(p))
       \/ (At(p, "paying") /\ ~CanEmit({"ORDER_PAID"} \cup IssueNames(o), o))
    /\ Rollback(p, "other")
-------------------------------------------------------------------------------
(* jobs/releaseExpiredReservations, one transaction per run                  *)

BugAllRows(now)  == held
BugNoRecheck(o)  == TRUE
BugStatusKept(j) == status
BugOwnOnly(j)    == held \ job[j].mine

\* The unreleased reservation rows past their deadline.
DueRows(now) == now \cap held

\* The clock reading, the findMany, which locks nothing, and the beginning of the
\* updateMany of the reservations: a row that is released between these two is no
\* longer there when its turn comes.
JobRead(j) ==
    LET now == {o \in Orders : due[o] = "past"} IN
    /\ job[j].pc = "idle"
    /\ job' = [job EXCEPT ![j] =
            [pc |-> "releasing", now |-> now, list |-> {o \in now : status[o] = "reserved"},
             todo |-> DueRows(now), mine |-> {}, sent |-> {}]]
    /\ UNCHANGED <<dbVars, due, outbox, rowLock, resLock, handler, crashes>>

\* updateMany of the reservations, row by row (the rows of an order at once): it
\* waits for a row another run has updated, and takes it if it is unreleased then.
JobLockReservation(j) ==
    /\ job[j].pc = "releasing"
    /\ \E o \in job[j].todo :
        /\ resLock[o] = None
        /\ resLock' = [resLock EXCEPT ![o] = IF o \in held THEN j ELSE None]
        /\ job' = [job EXCEPT ![j].todo = @ \ {o}]
    /\ UNCHANGED <<dbVars, due, outbox, rowLock, handler, crashes>>

\* The updateMany of the orders begins, with the rows it finds now.
JobExpire(j) ==
    /\ job[j].pc = "releasing" /\ job[j].todo = {}
    /\ job' = [job EXCEPT ![j].pc = "expiring",
                          ![j].todo = {o \in job[j].now : status[o] = "reserved"}]
    /\ UNCHANGED <<dbVars, due, outbox, rowLock, resLock, handler, crashes>>

\* The condition of the updateMany, on the row as it is once its lock is held.
StillReserved(o) == status[o] = "reserved"

\* updateMany of the orders, row by row: it waits for the row lock and evaluates
\* its condition again on the row it then finds.
JobLockOrder(j) ==
    /\ job[j].pc = "expiring"
    /\ \E o \in job[j].todo :
        /\ Free(o)
        /\ IF StillReserved(o)
           THEN /\ rowLock' = [rowLock EXCEPT ![o] = j]
                /\ job' = [job EXCEPT ![j].todo = @ \ {o}, ![j].mine = @ \cup {o}]
           ELSE /\ job' = [job EXCEPT ![j].todo = @ \ {o}]
                /\ UNCHANGED rowLock
    /\ UNCHANGED <<dbVars, due, outbox, resLock, handler, crashes>>

\* The runs that have inserted ORDER_EXPIRED for o and not committed it.
Expiring(o) == {i \in Jobs : o \in job[i].sent}

\* ORDER_EXPIRED for the orders of the list the run began with, one by one: the
\* insert waits for another run's of the same order.
JobEmit(j) ==
    /\ job[j].pc = "expiring" /\ job[j].todo = {}
    /\ \E o \in job[j].list \ job[j].sent :
        /\ Expiring(o) = {}
        /\ CanEmit({"ORDER_EXPIRED"}, o)
        /\ job' = [job EXCEPT ![j].sent = @ \cup {o}]
    /\ UNCHANGED <<dbVars, due, outbox, rowLock, resLock, handler, crashes>>

JobUnlock(j) ==
    /\ Unlock(j)
    /\ resLock' = [o \in Orders |-> IF resLock[o] = j THEN None ELSE resLock[o]]
    /\ job' = [job EXCEPT ![j] = IdleJob]

\* What the two updateMany leave behind.
StatusAfter(j) == [o \in Orders |-> IF o \in job[j].mine THEN "expired" ELSE status[o]]
HeldAfter(j)   == {o \in held : resLock[o] # j}

JobCommit(j) ==
    /\ job[j].pc = "expiring" /\ job[j].todo = {} /\ job[j].sent = job[j].list
    /\ status' = StatusAfter(j)
    /\ held' = HeldAfter(j)
    /\ emitted' = emitted \cup ({"ORDER_EXPIRED"} \X job[j].list)
    /\ JobUnlock(j)
    /\ UNCHANGED <<payment, tickets, confirmKey, event, due, outbox, handler, crashes>>

\* An order of the list has its event from another run: all of the transaction
\* is lost.
JobEventTaken(j) ==
    /\ job[j].pc = "expiring" /\ job[j].todo = {}
    /\ \E o \in job[j].list \ job[j].sent : ~CanEmit({"ORDER_EXPIRED"}, o)
    /\ JobUnlock(j)
    /\ UNCHANGED <<dbVars, due, outbox, handler, crashes>>
-------------------------------------------------------------------------------
(* Postgres, the clock, and failures                                        *)

\* p waits for a lock, or for an index entry, that q's transaction holds.
WaitsFor(p, q) ==
    \/ /\ p \in Handlers /\ At(p, "paying")
       /\ q = resLock[OrderOf(p)]
    \/ /\ p \in Handlers /\ At(p, "admitted")
       /\ q \in Inserting(PayOf(p))
    \/ /\ p \in Jobs
       /\ \/ job[p].pc = "releasing" /\ \E o \in job[p].todo : q = resLock[o]
          \/ job[p].pc = "expiring"  /\ \E o \in job[p].todo : q = rowLock[o]
          \/ /\ job[p].pc = "expiring" /\ job[p].todo = {}
             /\ \E o \in job[p].list \ job[p].sent : q \in Expiring(o)

Processes == Handlers \cup Jobs

\* p waits, over any number of others, for itself: it is in every set that
\* holds what p waits for and whatever a member of the set waits for.
Deadlocked(p) ==
    /\ \E q \in Processes : WaitsFor(p, q)
    /\ \A S \in SUBSET Processes :
        (\A q \in S \cup {p}, r \in Processes : WaitsFor(q, r) => r \in S) => p \in S

\* The deadlock detector ends the transaction of one of the processes in a cycle.
HandlerVictim(p) == Deadlocked(p) /\ Rollback(p, "other")
JobVictim(j) ==
    /\ Deadlocked(j)
    /\ JobUnlock(j)
    /\ UNCHANGED <<dbVars, due, outbox, handler, crashes>>

\* The process dies, or its connection, its five seconds or the queue's: the
\* transaction is rolled back and what the handler had left to do is not done.
Crash ==
    /\ crashes < MaxCrashes
    /\ crashes' = crashes + 1
    /\ \/ \E p \in Handlers :
            /\ ~At(p, "idle")
            /\ handler' = [handler EXCEPT ![p] = Idle]
            /\ Unlock(p)
            /\ UNCHANGED <<resLock, job>>
       \/ \E j \in Jobs :
            /\ job[j].pc # "idle"
            /\ JobUnlock(j)
            /\ UNCHANGED handler
    /\ UNCHANGED <<dbVars, due, outbox>>

\* reservedUntil passes.
Lapse(o) ==
    /\ due[o] = "ahead"
    /\ due' = [due EXCEPT ![o] = "past"]
    /\ UNCHANGED <<dbVars, outbox, rowLock, resLock, handler, job, crashes>>
-------------------------------------------------------------------------------
ConfirmStep(c) ==
    \/ ConfirmRefuse(c) \/ ConfirmRecordKey(c) \/ ConfirmAdmit(c)
    \/ ConfirmInsertPayment(c) \/ ConfirmCommit(c) \/ ConfirmKeyTaken(c)
    \/ ConfirmEnqueue(c) \/ UniqueKeyTaken(c)

HookStep(h) ==
    \/ HookIgnore(h) \/ HookRefuse(h) \/ HookTransition(h) \/ HookAdmit(h)
    \/ HookNoStock(h) \/ HookUnpayable(h) \/ HookInsertPayment(h)
    \/ HookCommit(h) \/ HookRecordError(h) \/ UniqueKeyTaken(h)
    \/ HookUnresolved(h) \/ HookDeduped(h)

JobStep(j) ==
    \/ JobRead(j) \/ JobLockReservation(j) \/ JobExpire(j) \/ JobLockOrder(j)
    \/ JobEmit(j) \/ JobCommit(j) \/ JobEventTaken(j)

Next ==
    \/ \E c \in Confirmers : ConfirmReceive(c) \/ ConfirmStep(c)
    \/ \E h \in Webhooks : HookStore(h) \/ HookDuplicate(h) \/ HookStep(h)
    \/ \E j \in Jobs : JobStep(j) \/ JobVictim(j)
    \/ \E p \in Handlers : HandlerVictim(p)
    \/ \E o \in Orders : Lapse(o)
    \/ Crash

Spec == Init /\ [][Next]_vars

\* Lock queues are first come first served, so a transaction that is blocked and
\* unblocked again and again still gets its turn; the job runs periodically; the
\* deadlock detector runs.  Nobody has to send a request or to crash.
Fairness ==
    /\ \A c \in Confirmers : SF_vars(ConfirmStep(c))
    /\ \A h \in Webhooks : SF_vars(HookStep(h))
    /\ \A j \in Jobs : SF_vars(JobStep(j)) /\ WF_vars(JobVictim(j))
    /\ \A p \in Handlers : WF_vars(HandlerVictim(p))
    /\ \A o \in Orders : WF_vars(Lapse(o))

FairSpec == Spec /\ Fairness
-------------------------------------------------------------------------------
(* Properties                                                               *)

PaymentsOf(o) == {k \in PayKeys : payment[k] = o}

\* Tickets of an order are issued once, and exactly when it is paid, whichever
\* of confirm and webhooks got there first and however often each was tried
\* (server.ts:847-876, applyPaymentEvent.ts:130-159).
TicketsMatchStatus ==
    \A o \in Orders : tickets[o] = IF status[o] = "paid" THEN 1 ELSE 0

\* An order is charged once: paid and paid_no_stock orders have one Payment, and
\* no other order but a canceled one has any.  Hence the "existing" branch of
\* confirm is never taken (server.ts:819-830).
OnePaymentPerOrder ==
    \A o \in Orders :
        /\ status[o] \in {"paid", "paid_no_stock"} => \E k \in PayKeys : PaymentsOf(o) = {k}
        /\ status[o] \in {"pending", "reserved", "expired", "failed", "refunded"}
              => PaymentsOf(o) = {}

\* The once-only events say what happened: ORDER_PAID and TICKETS_ISSUED for the
\* paid orders and for no other (server.ts:834-876, applyPaymentEvent.ts:146-175).
EventsMatchStatus ==
    \A o \in Orders, n \in {"ORDER_PAID", "TICKETS_ISSUED"} :
        <<n, o>> \in emitted <=> status[o] = "paid"

\* A run of the job that emits ORDER_EXPIRED twice for an order loses all its
\* work; an order that is still reserved never has the event, or no run could
\* ever expire it, nor the orders of the same run (domainEvents.ts:60-64).
NoPoisonedRun ==
    \A o \in Orders : <<"ORDER_EXPIRED", o>> \in emitted => status[o] # "reserved"

\* The stock of a reserved order is never released under it, and a paid order
\* holds no reservation (server.ts:878-881, releaseExpiredReservations.ts:14-15).
ReservationMatchesStatus ==
    \A o \in Orders :
        /\ status[o] = "reserved" => o \in held
        /\ status[o] = "paid" => o \notin held

\* A stored confirm key answers later requests with an order paid with the
\* reference it was stored with (server.ts:736-765, 883-893).
KeysNamePaidOrders ==
    \A k \in Keys : confirmKey[k] # None =>
        \E o \in Orders, r \in Refs :
            /\ confirmKey[k] = <<o, r>>
            /\ status[o] = "paid" /\ payment[<<Mock, r>>] = o

\* An event marked processed and not ignored has had its effect, which no later
\* event, confirm or run of the job has undone (applyPaymentEvent.ts:99-224).
ProcessedEventsTookEffect ==
    \A e \in Events :
        LET row == event[e] IN
        row # None /\ row.processed /\ row.ignored = "no" =>
            CASE mapEventTypeToTarget(row.type) = "paid" ->
                    /\ payment[<<e[1], row.ref>>] = row.order
                    /\ status[row.order] \in {"paid", "paid_no_stock"}
              [] mapEventTypeToTarget(row.type) = "refunded" ->
                    status[row.order] \in {"refunded", "canceled"}
              [] OTHER -> <<"PAYMENT_MARKED_FAILED", row.order>> \in emitted

\* A terminal order stays as it is, and an expired one never goes back to
\* selling tickets: neither the stale list of the job nor a late confirm or
\* webhook moves it (applyPaymentEvent.ts:67-70, 101-128).
StatusMovesForward ==
    [][\A o \in Orders :
        /\ status[o] \in terminalStatuses => status'[o] = status[o]
        /\ status[o] = "expired" => status'[o] \in {"expired", "paid_no_stock", "refunded"}]_vars

\* Each step of the handlers and the job is a step of OrderContract or changes
\* nothing it speaks of: the effects of a payment are all there or not at all,
\* and are there once, for any interleaving, conflict, deadlock or crash
\* (ADR-0005 decision 3, releaseExpiredReservations.ts:9-30).
Contract == INSTANCE OrderContract
KeepsContract == Contract!Spec

\* Every reserved order whose deadline passes leaves that state, and its
\* reservation is released in the end: no deadlock, poisoned transaction or
\* bounded number of crashes keeps the job from it.
ReservationsAreReleased ==
    \A o \in Orders :
        /\ (status[o] = "reserved") ~> (status[o] # "reserved")
        /\ (o \in held) ~> (o \notin held)

\* Every request is answered: no execution waits forever for a row lock, for an
\* index entry or for another execution that waits for it.
RequestsAreAnswered ==
    \A p \in Handlers : ~At(p, "idle") ~> At(p, "idle")
-------------------------------------------------------------------------------
(* What the repository says of the program, and its runs refute             *)

\* A stored event whose application failed or was cut off, and could succeed now:
\* its payment id is there and belongs to no other order.
Applicable(e) ==
    LET row == event[e] IN
    /\ row # None /\ ~row.processed
    /\ mapEventTypeToTarget(row.type) = "paid" =>
         row.ref # None /\ payment[<<e[1], row.ref>>] \in {None, row.order}

\* An execution has such an event delivered to it again and answers 200, deduped.
DedupedOf(e) == \E h \in Webhooks : handler[h].tag = e /\ HookDeduped(h)

\* "Failed attempts remain retryable (not permanently deduped)" (ADR-0005:32, and
\* its line 21, error => retry claim and process): an event that is delivered
\* again and again is processed in the end, a failed or lost attempt or not.
FailedAttemptsAreRetried ==
    \A e \in Events :
        []<><<DedupedOf(e)>>_vars => (Applicable(e) ~> (event[e] # None /\ event[e].processed))
===============================================================================
