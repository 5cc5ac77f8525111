------------------------------- MODULE Inventory -------------------------------
(***************************************************************************)
(* POST /checkout/reserve: concurrent requests that each take several      *)
(* ticket types off the stock of an event, all or none of them, and create *)
(* one order per clientRequestId.  A request is one READ COMMITTED         *)
(* transaction between two lookups of its key; it is cut where it may wait *)
(* for another one: at the lock of a ticket type, and at the unique key.   *)
(***************************************************************************)
EXTENDS Naturals, Sequences, FiniteSets

CONSTANTS
    Types,        \* rows of TicketType
    Foreign,      \* the ticket types of other events
    Quota,        \* TicketType.quota
    MaxPerOrder,  \* TicketType.maxPerOrder
    Rank,         \* how localeCompare orders the ids of the ticket types
    Carts,        \* the items of the requests, as they are in the body
    Keys,         \* clientRequestIds
    Orders,       \* rows of Order, at least as many as there are keys
    Requests,     \* concurrent executions of the handler
    None,         \* no row, nobody
    MaxFailures   \* bound on transactions lost to a crash or a timeout

Line == [type : Types, quantity : Nat \ {0}]

ASSUME InventoryAssumption ==
    /\ IsFiniteSet(Types) /\ Foreign \subseteq Types
    /\ Quota \in [Types -> Nat] /\ MaxPerOrder \in [Types -> Nat]
    /\ Rank \in [Types -> Nat]
    /\ \A s, t \in Types : Rank[s] = Rank[t] => s = t
    /\ Carts \subseteq Seq(Line) \ {<<>>}
    /\ None \notin Orders \cup Requests \cup Carts
    /\ MaxFailures \in Nat

VARIABLES
    remaining,  \* TicketType.remaining
    cart,       \* OrderItem and InventoryReservation rows of an order, or None
    fate,       \* Order.status, as far as the stock is concerned
    key,        \* ReserveIdempotencyKey: the order of a clientRequestId, or None
    lock,       \* who holds the row lock of a ticket type
    request,    \* what each execution is doing
    failures    \* transactions lost so far

rows == <<remaining, cart, fate, key>>
vars == <<rows, lock, request, failures>>

RequestStates ==
    [pc     : {"idle", "taking", "keyed", "lost"},
     key    : Keys \cup {None},
     cart   : Carts \cup {None},
     todo   : SUBSET Nat,         \* lines of the cart not taken yet
     taken  : [Types -> Nat],     \* what it has decremented, uncommitted
     answer : Orders \cup {None}] \* the order it last answered with

TypeOK ==
    /\ remaining \in [Types -> Nat]
    /\ cart \in [Orders -> Carts \cup {None}]
    /\ fate \in [Orders -> {"none", "reserved", "paid", "expired"}]
    /\ key \in [Keys -> Orders \cup {None}]
    /\ lock \in [Types -> Requests \cup {None}]
    /\ request \in [Requests -> RequestStates]
    /\ failures \in Nat

Nothing == [t \in Types |-> 0]

Init ==
    /\ remaining = Quota
    /\ cart = [o \in Orders |-> None]
    /\ fate = [o \in Orders |-> "none"]
    /\ key = [k \in Keys |-> None]
    /\ lock = [t \in Types |-> None]
    /\ request = [r \in Requests |->
            [pc |-> "idle", key |-> None, cart |-> None, todo |-> {},
             taken |-> Nothing, answer |-> None]]
    /\ failures = 0

-------------------------------------------------------------------------------
At(r, pc)  == request[r].pc = pc
KeyOf(r)   == request[r].key
CartOf(r)  == request[r].cart

Answer(r, o) == request' = [request EXCEPT ![r] =
    [pc |-> "idle", key |-> KeyOf(r), cart |-> None, todo |-> {}, taken |-> Nothing,
     answer |-> o]]
Unlock(r)    == lock' = [t \in Types |-> IF lock[t] = r THEN None ELSE lock[t]]

\* The transaction of r leaves nothing behind, and r answers with the error.
Rollback(r) == Answer(r, None) /\ Unlock(r) /\ UNCHANGED rows

\* The lookup before the transaction: the stored order is the answer, or the
\* transaction begins.
ReserveReplay(r) ==
    /\ At(r, "idle")
    /\ \E k \in Keys :
        /\ key[k] # None
        /\ request' = [request EXCEPT ![r].key = k, ![r].answer = key[k]]
    /\ UNCHANGED <<rows, lock, failures>>

ReserveReceive(r) ==
    /\ At(r, "idle")
    /\ \E k \in Keys, c \in Carts :
        /\ key[k] = None
        /\ request' = [request EXCEPT ![r] =
                [pc |-> "taking", key |-> k, cart |-> c, todo |-> DOMAIN c,
                 taken |-> Nothing, answer |-> None]]
    /\ UNCHANGED <<rows, lock, failures>>

\* sortedItems: by ticket type, and in the order of the body within a type.
Precedes(c, i, j) ==
    \/ Rank[c[i].type] < Rank[c[j].type]
    \/ c[i].type = c[j].type /\ i <= j

BugBodyOrder(r) == CHOOSE i \in request[r].todo : \A j \in request[r].todo : i <= j

\* The line of sortedItems that the loop has come to.
NextLine(r) ==
    CHOOSE i \in request[r].todo : \A j \in request[r].todo : Precedes(CartOf(r), i, j)

Wanted(r) == CartOf(r)[NextLine(r)]

\* The FOR UPDATE of the line's ticket type is granted.
Granted(r) == At(r, "taking") /\ request[r].todo # {} /\ lock[Wanted(r).type] \in {None, r}

BugReadOnce(r) == remaining[Wanted(r).type] >= Wanted(r).quantity

Allowed(r) ==
    /\ Wanted(r).type \notin Foreign
    /\ Wanted(r).quantity <= MaxPerOrder[Wanted(r).type]

\* The guard of the decrement, which sees what r itself has taken before.
Available(r) ==
    remaining[Wanted(r).type] >= request[r].taken[Wanted(r).type] + Wanted(r).quantity

ReserveTake(r) ==
    LET t == Wanted(r).type IN
    /\ Granted(r) /\ Allowed(r) /\ Available(r)
    /\ lock' = [lock EXCEPT ![t] = r]
    /\ request' = [request EXCEPT ![r].todo = @ \ {NextLine(r)},
                                  ![r].taken[t] = @ + Wanted(r).quantity]
    /\ UNCHANGED <<rows, failures>>

\* Not a type of the event, more than the maximum, or "Sin stock".
ReserveRefuse(r) ==
    /\ Granted(r) /\ ~(Allowed(r) /\ Available(r))
    /\ Rollback(r)
    /\ UNCHANGED failures

\* All the lines are taken, and no open transaction has inserted the same key.
ReadyForKey(r) ==
    /\ At(r, "taking") /\ request[r].todo = {}
    /\ \A q \in Requests : ~(At(q, "keyed") /\ KeyOf(q) = KeyOf(r))

BugLookupOnly(r) == TRUE

KeyFree(r) == key[KeyOf(r)] = None

\* order.create and reserveIdempotencyKey.create.
ReserveInsertKey(r) ==
    /\ ReadyForKey(r) /\ KeyFree(r)
    /\ request' = [request EXCEPT ![r].pc = "keyed"]
    /\ UNCHANGED <<rows, lock, failures>>

\* The commit: a fresh order with the lines of the cart.
ReserveCommit(r) ==
    /\ At(r, "keyed")
    /\ \E o \in Orders :
        /\ cart[o] = None
        /\ cart' = [cart EXCEPT ![o] = CartOf(r)]
        /\ fate' = [fate EXCEPT ![o] = "reserved"]
        /\ key' = [key EXCEPT ![KeyOf(r)] = o]
        /\ Answer(r, o)
    /\ remaining' = [t \in Types |-> remaining[t] - request[r].taken[t]]
    /\ Unlock(r)
    /\ UNCHANGED failures

BugBeginAgain(r) ==
    request' = [request EXCEPT ![r].todo = DOMAIN CartOf(r), ![r].taken = Nothing]

\* RESERVE_IDEMPOTENCY_RACE: out of the transaction, to the lookup of the winner.
Lose(r) == request' = [request EXCEPT ![r].pc = "lost", ![r].taken = Nothing]

ReserveRace(r) ==
    /\ ReadyForKey(r) /\ ~KeyFree(r)
    /\ Lose(r)
    /\ Unlock(r)
    /\ UNCHANGED <<rows, failures>>

ReserveWinner(r) ==
    /\ At(r, "lost")
    /\ Answer(r, key[KeyOf(r)])
    /\ UNCHANGED <<rows, lock, failures>>

\* A crash, a lost connection, or the five seconds of the transaction.
Fail(r) ==
    /\ failures < MaxFailures
    /\ ~At(r, "idle")
    /\ failures' = failures + 1
    /\ Rollback(r)

\* The ticket types whose tickets an order has.
TypesOf(o) == {cart[o][l].type : l \in DOMAIN cart[o]}

\* What becomes of the order: paid by /checkout/confirm or a webhook, in one
\* transaction that writes nothing of TicketType; but its ticket.createMany takes
\* a key share of each type, by foreign key, and waits for a FOR UPDATE on it.
OrderPaid(o) ==
    /\ fate[o] = "reserved"
    /\ \A t \in TypesOf(o) : lock[t] = None
    /\ fate' = [fate EXCEPT ![o] = "paid"]
    /\ UNCHANGED <<remaining, cart, key, lock, request, failures>>

\* Or expired by the job, in one transaction that does not touch TicketType.
OrderExpired(o) ==
    /\ fate[o] = "reserved"
    /\ fate' = [fate EXCEPT ![o] = "expired"]
    /\ UNCHANGED <<remaining, cart, key, lock, request, failures>>
-------------------------------------------------------------------------------
ReserveStep(r) ==
    \/ ReserveTake(r) \/ ReserveRefuse(r) \/ ReserveInsertKey(r)
    \/ ReserveCommit(r) \/ ReserveRace(r) \/ ReserveWinner(r)

Next ==
    \/ \E r \in Requests : ReserveReplay(r) \/ ReserveReceive(r) \/ ReserveStep(r) \/ Fail(r)
    \/ \E o \in Orders : OrderPaid(o) \/ OrderExpired(o)

Spec == Init /\ [][Next]_vars

\* Lock queues are first come first served; nobody has to send a request, to pay
\* or to fail.
FairSpec == Spec /\ \A r \in Requests : SF_vars(ReserveStep(r))
-------------------------------------------------------------------------------
(* Properties                                                               *)

\* One element for each ticket of type t in the lines of cart c.
Units(c, t) == UNION {{i} \X (1..c[i].quantity) : i \in {l \in DOMAIN c : c[l].type = t}}

\* The tickets of type t of the orders whose fate is in F.
UnitsOf(F, t) == UNION {{o} \X Units(cart[o], t) : o \in {x \in Orders : fate[x] \in F}}

\* No ticket is promised twice: what every order ever got and what is left make
\* up the quota, whatever requests interleave, fail or are retried, even with a
\* ticket type on two lines of a cart (server.ts:606-625, migration 0011:37-39).
StockConserved ==
    \A t \in Types :
        /\ remaining[t] + Cardinality(UnitsOf({"reserved", "paid", "expired"}, t)) = Quota[t]
        /\ remaining[t] >= 0

\* A clientRequestId makes one order: no order without its key, no two keys for
\* an order, and no request answered with another order than its key's, whether
\* it created it, found it or lost the race for it; the loser always finds the
\* order of the winner, never the error after that lookup (server.ts:575-588,
\* 667-725).
OneOrderPerKey ==
    /\ \A o \in Orders : cart[o] # None => \E k \in Keys : key[k] = o
    /\ \A k, l \in Keys : key[k] = key[l] /\ key[k] # None => k = l
    /\ \A r \in Requests : request[r].answer # None => request[r].answer = key[KeyOf(r)]
    /\ \A r \in Requests : At(r, "lost") => key[KeyOf(r)] # None

Contract == INSTANCE Sales
    WITH remaining <- remaining, cart <- cart, fate <- fate, key <- key

\* The loop over the lines, its locks and the race for the key come to one step
\* of Sales at the commit: all the lines of a cart or none, each unit off the
\* stock that is there at that moment (server.ts:590-716).
KeepsSales == Contract!SalesSpec

WaitsFor(p, q) ==
    /\ p # q /\ At(p, "taking")
    /\ \/ request[p].todo # {} /\ lock[Wanted(p).type] = q
       \/ request[p].todo = {} /\ At(q, "keyed") /\ KeyOf(q) = KeyOf(p)

\* "Ordenar items por ticketTypeId para evitar deadlocks por lock ordering": in no
\* set of requests does everyone wait for another one of the set (server.ts:601).
NoDeadlock ==
    \A S \in (SUBSET Requests) \ {{}} :
        \E p \in S : \A q \in S : ~WaitsFor(p, q)

\* Every request is answered, the losers of the race included.
ReservesAreAnswered == \A r \in Requests : ~At(r, "idle") ~> At(r, "idle")
-------------------------------------------------------------------------------
(* What the repository says of the program, and its runs refute             *)

\* "remaining = quota - active_reservations - paid_tickets [...] Restored at TTL
\* release." (migration 0011:2-3): the stock of expired orders comes back.
StockIsRestored ==
    \A t \in Types :
        remaining[t] + Cardinality(UnitsOf({"reserved", "paid"}, t)) = Quota[t]
===============================================================================
