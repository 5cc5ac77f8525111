# A TLA+ model of Articket

Articket sells tickets: a Fastify API over Postgres (Prisma interactive
transactions, READ COMMITTED), a job that expires reservations, a BullMQ queue
on Redis with a worker that mails confirmations, and a React frontend. Several
API processes, job runs and workers may run at the same time; what they share is
the database. Paths below are relative to the repository; `server.ts` is
`apps/api/src/server.ts`.

## Inventory

| Component | State | Operations | Hard behaviour | What makes it correct |
|---|---|---|---|---|
| Reservation and stock: `POST /checkout/reserve` (server.ts:566-726) | TicketType.remaining, Order with items and reservations, ReserveIdempotencyKey | lookup of the key; row locks in sorted order; guarded decrement; order; key; lookup of the winner | concurrent requests with one key, lock order, a type on two lines, rollback | no ticket is promised twice; one order per key; no deadlock |
| Confirmation: `POST /checkout/confirm` (server.ts:728-912) | Order.status, Payment, Ticket, DomainEvent, InventoryReservation, ConfirmIdempotencyKey | lookup of the key; row lock; replay, refusal or paid transition; key; mail job | races with webhooks and the job, unique keys lost after a lookup, failed statements that abort the transaction | an order is charged and its tickets are issued once |
| Payment webhook: server.ts:1225-1363, `modules/payments/applyPaymentEvent.ts`, `materializePayment.ts` | payment_events and the same rows | store (a commit), apply (a transaction), record the error (a commit) | redelivery, any order of events, crash between the commits, two orders with one reference | a processed event took effect and is not undone |
| Expiry job: `jobs/releaseExpiredReservations.ts` | the same rows | one transaction: list, release reservations, expire orders, emit events | stale list, lock order inverse to the paid transition, once-only events | expires only open orders, and in the end every one of them |
| Domain events: `lib/domainEvents.ts` | DomainEvent with three once-only indexes | insert, swallow P2002 | P2002 aborts the enclosing transaction | no once-only event is ever emitted twice by a run that matters |
| Provider event lease: `modules/payments/webhook-idempotency.ts` | PaymentProviderEvent | claim, mark processed, mark error | expired leases, late markers | one holder at a time, until somebody marks an event that was taken from them |
| Notifications: `workers/notificationsWorker.ts`, `modules/notifications/` | queue, Order.confirmationEmailSentAt | add, process, retry, manual resend (server.ts:1062) | crash between mail and mark, lost job locks, duplicate job ids | a mail for each confirmed order, not two |
| Late payments: server.ts:1077-1223 | LatePaymentCase.version, Order.latePaymentReviewRequired | list, resolve | two reviewers, several cases of an order | one resolution per version, events in one chain |
| Memberships: server.ts:301-545 | Membership, AuditLog | create, change role, remove | checks outside the transaction, a row gone or made again meanwhile | an organizer keeps an owner, the log tells the truth |
| Check-in: server.ts:178-188, 914-1059 | Ticket.status, TicketScan | validate, scan | two scanners, a second connection inside a transaction | a ticket admits once |
| Activity feed, dashboard: `modules/activity/service.ts`, `modules/events/dashboard/` | read only | cursor pages, aggregates | rows that commit while pages are read, reads without a snapshot | no event twice, none skipped that was there; numbers of the time they are read in |
| Rate limit: `modules/payments/webhook-rate-limit.ts` | Redis counters | INCR, EXPIRE | crash in between | a window ends (called by no handler) |
| Authorization: `lib/adminAuthz.ts`, `packages/shared/src/adminAuthz.ts` | none | table of capabilities, and a second copy of it in the members list | permission checked before it is used | the copies agree |
| Authentication, organizers, events, ticket types, SendGrid webhook, ticket codes, metrics, frontend, seed | single rows | single inserts, cryptography, I/O | none of their own | outside the model |

The components meet in the database. A reservation creates the order that
confirm, webhook and job then race for; each of these runs one transaction that
locks the Order row (`FOR UPDATE`, or the `UPDATE` of the job), and they differ in
what else they lock, and in which order. After its commit confirm adds a mail job
to the queue; workers on the queue mark the order when its mail is out. Members and
their roles decide who may resolve a late payment, in a check that is over before the
resolution commits. The activity feed and the dashboard read what all of these write.
The model of each part is cut where another transaction can interfere: at row locks,
at entries of unique indexes, where the clock is read and at commits. Everything a
transaction writes appears at its commit.

## Plan

Done, in this order:

1. `OrderLifecycle` with `OrderContract` and `OrderInvariant`: confirm, webhook, job;
   the abstract specification they implement; the inductive invariant.
2. `Inventory`: the reservation, and `Sales`, the atomic reservation it implements.
3. `ProviderEventLease` with `LeaseContract`; `Notifications`.
4. `Membership` and `LatePayment` over `AdminAuthz`, composed in `Backoffice`.
5. `CheckIn`.
6. `ActivityFeed` and `Dashboard` (over `Sales`), composed in `Screens`.
7. Proofs of every safety property of 1 to 6, and of what the modules take of each
   other: `Sales` and `Notifications` of the life of an order, the dashboard of `Sales`.

Left:

- `Ticketing`: Inventory composed with OrderContract over the same orders, so that
  `OrderPaid` and `OrderExpired` become the steps of the contract.
- `Pricing` (fees in integer arithmetic) against a reference definition.

| Module | Models | Extends, instantiates |
|---|---|---|
| OrderLifecycle | confirm, webhook, expiry job | instantiates OrderContract |
| Inventory | reservation | instantiates Sales |
| ProviderEventLease | claims and marks of a provider event | instantiates LeaseContract |
| Notifications | mail queue and worker | |
| AdminAuthz | roles, capabilities, requests of the back office | |
| Membership, LatePayment | the two kinds of such requests | AdminAuthz |
| Backoffice | both, on the same members | Membership, LatePayment |
| CheckIn | scans at the door | |
| ActivityFeed, Dashboard | the two screens of an event | Dashboard: Sales |
| Screens | either of them | ActivityFeed, Dashboard |
| MC... | constants for TLC | the module of the same name |
| ...Proofs | theorems | the module they are about |

Modules that proofs speak of declare no RECURSIVE operator, name the assumptions on
their constants, and have one action per operation.

## OrderLifecycle

State: one variable per table or column the three programs share (`status`, `due`,
`held`, `payment`, `tickets`, `emitted`, `confirmKey`, `event`), the mail queue
(`outbox`), the row locks (`rowLock` of Order rows, `resLock` of reservation rows),
and for each execution of a handler or of the job where it is (`handler`, `job`).
`due` is `reservedUntil` against the clock: an order is ahead of its deadline until
`Lapse`, and each transaction reads the clock where the code does (server.ts:811,
applyPaymentEvent.ts:99, releaseExpiredReservations.ts:6).

| Steps | Code |
|---|---|
| ConfirmReceive, ConfirmRefuse, ConfirmRecordKey, ConfirmAdmit | server.ts:736-811: lookup of the key, FOR UPDATE, replay of a paid order, refusals |
| ConfirmInsertPayment, ConfirmCommit | server.ts:813-896: payment, paid transition, key, commit |
| ConfirmKeyTaken, UniqueKeyTaken | unique keys lost to another transaction; the caught P2002 leaves an aborted transaction, so the request fails |
| ConfirmEnqueue | server.ts:898-904, after the commit |
| HookStore, HookRecordError | server.ts:1264-1274, 1298-1304: commits of their own before and after the application |
| HookDuplicate, HookUnresolved, HookDeduped | server.ts:1323-1355: the delivery of an event that is stored already, the lookup of its row, and the answer, 422 again or 200 and deduped |
| HookIgnore, HookRefuse, HookTransition, HookAdmit, HookNoStock, HookUnpayable, HookInsertPayment, HookCommit | applyPaymentEvent.ts:37-225, one step per outcome, the paid one in three |
| JobRead | releaseExpiredReservations.ts:6-12: the clock, the list, and the rows the first updateMany finds |
| JobLockReservation, JobExpire, JobLockOrder | releaseExpiredReservations.ts:14-15: the two updateMany, row by row; each waits for a row another transaction has, and looks again at what it then finds |
| JobEmit, JobCommit, JobEventTaken | releaseExpiredReservations.ts:17-31: the events one by one, waiting for those another run has inserted and not committed; the commit; the unique violation |
| HandlerVictim, JobVictim | the deadlock detector of Postgres, for cycles of any length (Deadlocked) |
| Crash | death of a process, timeout of a transaction, an unavailable queue |

A confirm whose key is stored is answered by its first lookup, which changes nothing
and is no step. The reservation rows of one order are locked as one. Emitting a once-only event again is a unique violation that
`emitDomainEvent` swallows; Postgres has aborted the transaction by then, so the
model lets such a transaction only fail (`CanEmit`). Amounts, ticket codes, quantities
and payloads are abstracted; `tickets` counts how often the tickets of an order were
issued. The initial states are what reserve and the seed leave: reserved, pending
(with a deadline and no reservation) and canceled orders.

`OrderContract` says what the three programs promise: each transition of an order is
one step, with payment, tickets and reservation together, and decided on an order
that is still open. `KeepsContract` is that OrderLifecycle implements it: the mapping
is the identity on the shared variables, because writes appear at commits.

`OrderInvariant` strengthens the properties to an inductive invariant, `IInv`:
requests keep their arguments (RequestsOK), row locks belong to who thinks so and to
nobody else (LocksOK), what a transaction has checked still holds while it waits for the rest of
its locks (TransactionsOK), the rows of a run of the job are past their deadline, and
a reserved order among them is one whose reservation it has yet to visit or holds and
then one it has yet to visit or expires itself (JobsOK), expired orders are past their deadline (DeadlinesOK).

## Inventory (reservation)

State: `remaining`, the committed orders (`cart`, `fate`), the keys, the row locks of the
ticket types and each request. ReserveReceive and ReserveReplay are the lookup of
the key; ReserveTake and ReserveRefuse one iteration of the loop over the sorted
items, from the grant of the lock on; ReserveInsertKey, ReserveCommit and ReserveRace
the insert of order and key; ReserveWinner the second lookup. A decrement is held in
the request until the commit. `Fail` is a crash or a timeout. OrderPaid and
OrderExpired stand for the transactions of OrderLifecycle that end a reservation;
neither writes to TicketType, but the tickets of a paid order refer to it, so that
OrderPaid waits for requests that have locked a type of the order (server.ts:862,
applyPaymentEvent.ts:145). Its own key shares are not modelled: they are given back at
its commit, and NoDeadlock is about reserve requests alone (see Also observed). `Sales` is the same with each operation one step;
`KeepsSales` is that Inventory implements it, by the identity on stock, carts, fates and
keys. Prices, fees, the check of the organizer and malformed
ids are left out: they end the request without an effect.

## ProviderEventLease

State: the rows of PaymentProviderEvent (`status`, `leaseUntil`; 0 stands for null, which
only settled rows have), each consumer with its event and the time it read, and the
clock. Claim reads the clock (webhook-idempotency.ts:20); ClaimInsert and ClaimExists
are the insert (23-37), ClaimTurnedAway and ClaimMayRetry the lookup and the checks
after it (42-64), ClaimRetry and ClaimLost the guarded update (66-85), the two marks
94-116. Between any two of them another worker, the clock or a crash may come. No
handler calls the module: what a consumer does between claim and mark is what
ADR-0005 describes, work of any length. `late` records events somebody marked after
another had taken them over, which the where of the marks does not prevent.

`LeaseContract` is a lock with a deadline, whose holder may settle an event; who marks it
late may settle it otherwise, also after it was done. ExclusiveUntilLateMark exempts such
events: it says when a lease is exclusive, not that a late mark does no harm. The status
`received` of the schema is left out, for no function writes it. `KeepsLease` maps a row to a phase and the
consumers at work to the holders.

## Notifications

State: the columns the worker reads and writes (`paid`, `sent`), the events and the
mails of an order, the confirms that have committed and not yet added their job
(`adding`), the BullMQ jobs by id with state, attempts, stalls and lock, and each
worker. Confirm, ConfirmEnqueue and ConfirmDrop are server.ts:878-904, Resend
server.ts:1062-1075; Look, sendTemplateEmail and Mark are the three awaits of
notificationsWorker.ts:46-93, Throw and Complete what BullMQ makes of the outcome
under the options of queue.ts:8-14. LookOrSendFails is a failure the code sees;
SendAnswerLost, MarkFails, Crash and LoseLock are faults, and Stalled is BullMQ's check
for active jobs without a lock. `excused` counts executions that were cut off between
look and mark, or that lost their lock before the mark and could go on.

## Back office

`AdminAuthz` has the memberships of one organizer, the table of capabilities and the
record of a request: what it read of its target and what it asks for. In `Membership`
the first step of a request is the check of its actor, the second that of its target,
the third (for an owner) the count of the owners, the last the transaction with the
audit entry (server.ts:342-545). In `LatePayment` a request reads the case, checks
capability and transition, and commits with the status and the version it read in the
where (server.ts:1113-1223). `Backoffice` lets both kinds run on the same members, so
that permissions change between check and commit, and any request may die.
canChangeRole, allowedRoleTargets and ListedCapabilities are what the members list
shows (server.ts:301-340). Ids are not used twice: a membership made again has another.

## CheckIn

A scan (server.ts:914-1058) is one transaction: Connect takes a connection of the
pool, ScanLock is the FOR UPDATE with the validation under it, ScanMembership asks for
a second connection because requireMembership uses the client and not the
transaction, ScanRefuse and ScanAdmit write and commit. Timeout stands for maxWait and
timeout of Prisma's transactions and for a crash. GET /tickets/validate/:code is the
same validation without a lock and without a write, and is no step. Other users of the
pool, which finish on their own, are left out.

## Screens

`ActivityFeed`: an event gets its time when it is inserted and is seen when its
transaction commits, so it may appear behind a cursor; FetchPage is one query of
service.ts:54-104 and the use EventActivityPage.tsx makes of its cursor. Ids compare
like numbers. A cursor has the whole time of an event: encodeCursor (service.ts:38) cuts
it to milliseconds, while migration 0001:185 lets the column keep microseconds, so exact
pages rest on Prisma storing the milliseconds of a Date. `Dashboard`: each statement of the Promise.all of dashboard.service.ts is
a step, over tables that `Sales` changes meanwhile, with the time of the start as
`now`; ExpireLapsed is the job, which comes some time after the deadline. Rows are sets:
a unit of a cart, an order with the line and the number of the ticket in it, is a
reserved unit while the order is reserved, a row of Ticket once it is paid, and
`admitted` has those that are checked in. What a statement counts is the size of such a
set, so that the sums of the dashboard are compared with the rows they are sums of.

## Runs

| Run | Bounds | Shows |
|---|---|---|
| webhooks | 1 order, 2 references, 2 event ids, 5 event types, 1 confirm, 2 webhooks, 1 job, 1 crash | types, TicketsMatchStatus, EventsMatchStatus, OnePaymentPerOrder, ProcessedEventsTookEffect, KeysNamePaidOrders |
| convergence | 2 orders, 1 reference, 1 key, 2 confirms, 1 webhook with paid events, 2 job runs, 1 crash | IInv, NoPoisonedRun, ReservationMatchesStatus, StatusMovesForward, KeepsContract |
| progress | 2 orders, 1 of each execution, 1 crash, fairness | ReservationsAreReleased, RequestsAreAnswered |
| reserve | 4 types (one foreign), 6 carts (three of them a ring of 3 types), 2 keys, 3 requests, 1 failure | types, StockConserved, OneOrderPerKey, NoDeadlock, KeepsSales |
| reserve_progress | 1 key, 2 requests, fairness | ReservesAreAnswered |
| lease | 1 event, 3 consumers, leases of 2, clock to 5 | types, ExclusiveUntilLateMark, KeepsLease |
| notifications | 1 order, its job and one resend, 2 workers, 2 attempts, 1 stall, 2 faults, fairness | types, CompletedMeansSent, MarkedMeansMailed, OneMailPerJob, ConfirmationsGoOut |
| backoffice | 3 users, 3 membership ids, 1 case, 2 requests at a time | types, OwnersAreLostOnlyToOverlap, AuditTellsTheMembers, ListTellsTheTruth, EventsTellOneStory |
| checkin | 2 tickets, 2 users (one a member), 3 scans, 2 connections, fairness | types, TicketAdmitsOnce, StalemateNeedsAllConnections, ScansAreAnswered |
| screens | 4 events in 3 instants, pages of 1 and 2; 2 orders of 2 types | types, PagesAreExact, NumbersAreOfTheTime, QuietBoardsAddUp |

Two orders and one reference are enough for a payment reference to be contended, two
runs of the job for a list to be stale because of another run, two webhooks and a
confirm for every pair of payment paths to race, and one crash for each step to be
the last of its request. The executions serve any number of requests, one after the
other: the only bounds are those of the constants. The event types of the webhooks
run are the three words `mapEventTypeToTarget` looks for, a text with two of them and one
with none. Quotas of 4, 2 and 2 let two orders succeed and a third run out of stock.

A lease of 2 on a clock to 5 runs out twice, so that the consumer who took an event
over is taken over itself while the first is still at work. Two attempts instead of
the code's 5 are enough for a retry that succeeds and for one that does not; two
faults let a lost lock meet a crash. Two requests of the back office are what a race
needs, one of them may serve another request meanwhile; the organizers start with one
owner and with two, and requests ask for the roles admin and scanner (staff differs
from them in capabilities only, which ListTellsTheTruth compares for whatever roles
there are) and for the outcomes ACCEPTED, REFUND_REQUESTED and REFUNDED (REJECTED is
ACCEPTED under another name). Three scans on two connections leave one outside when
the pool is used up, and two that share a ticket while the third has the other.
Pages of one and two cut four events in three instants between equal times and between
different ones. The theorems below lift these bounds for everything but the liveness
properties.

Symmetry is declared for runs of invariants and of action properties, not for the
runs of liveness properties.

Fairness. Postgres grants row locks first come first served, so an execution whose
next step is enabled again and again takes it (strong fairness of the steps of an
execution that has begun, in OrderLifecycle, Inventory and CheckIn); the deadlock
detector runs (weak fairness of the victims); the job is started again and again (its
first step is part of JobStep: docs/adr/0003-stock-reservas.md:5 calls it a periodic job and
the package has a script for it, but no code schedules it) and time passes; a transaction that takes too long is
ended by Prisma (weak fairness of Timeout in CheckIn). Workers of the queue poll, go on
with what they have begun, and BullMQ looks for stalled jobs on a timer (weak fairness
in Notifications; a confirm that has committed adds its job or dies). Nothing makes a
client send a request, and crashes are bounded.

Runs that refute what the repository says:

| Run | What is said | What happens |
|---|---|---|
| failed_attempts (1 order, 1 reference, 1 key, 1 of each execution, no crash, fairness) | ADR-0005, line 32: failed attempts remain retryable (and line 21: an event in error is claimed and processed again) | The order's deadline passes while a paid delivery is being applied; the delivery waits for the reservation row, the job for the order, and the detector ends the delivery, whose event keeps an error. Every redelivery is then answered 200, deduped (server.ts:1345-1355), and the event is never processed, although it could be. A crash between the two commits leads to the same. ADR-0006, line 27, describes what the code does: the two documents disagree |
| stock_restored | migration 0011, lines 2-3: remaining is restored at TTL release | nothing increments it |

## Also observed

Found while modelling, at these lines; where a property states what does hold instead,
it is named.

Checkout. The job emits ORDER_EXPIRED for every order of its list, also for one that
was paid meanwhile (metrics.ts:102-106 say it skips those; EventsMatchStatus allows
it). A webhook emits PAYMENT_MARKED_FAILED also when its guarded update matched no order
(applyPaymentEvent.ts:187-191), and keeps its Payment of a canceled order (86-128; it is
PayCanceled of OrderContract). The catch at server.ts:885 calls a P2002 safe to ignore,
but Postgres has aborted the transaction, so the request fails. ADR-0006, line 29, promises 409 for a reused
reference; the loser of a race between lookup and insert (materializePayment.ts:41) gets
the database error. The maximum per order is compared line by line (server.ts:611): two
lines of one type pass it together. The key shares that ticket.createMany takes on
ticket types are taken in the order of the items, not of sorted ids (server.ts:852-862),
so a payment and a reservation can deadlock over two types; Postgres ends one of them.
Two runs of the job can deadlock with each other, over reservations or orders they
visit in different orders: nothing sorts the rows of an updateMany. A confirm that replays its own key is answered
before the queue comes up, so a mail job lost after the commit is not added by
retrying, and an order paid by a webhook never has one (server.ts:736-760, 898-904).

Mail. The resend of an order that has its mail adds a job the worker skips
(notificationsWorker.ts:46-57). Adding a job whose id exists does nothing, also when it has
failed. ORDER_CONFIRMATION_EMAIL_SENT is not a once-only event. A mail is sent twice
when an execution is cut off between look and mark (OneMailPerJob counts these).

Members and late payments. Two overlapping removals leave an organizer without an
owner (server.ts:510-517; OwnersAreLostOnlyToOverlap). The previousRole of an audit entry may be
stale. Nothing in the repository creates a LatePaymentCase, although
docs/ops/late-payments.md:4 speaks of it. Resolving one case clears the review flag of
the order while another case of it is pending (server.ts:1182). The gauge of pending
cases is not set to 0 for a provider that has none left (server.ts:163-176).

Door. The override branches at server.ts:1005-1036 are not reached by a ticket that is
checked in, because the validation refuses it first (ADR-0003 describes the override).
The second connection of a scan can stall every scan until the timeout
(StalemateNeedsAllConnections).

Unused. No handler calls the provider event lease or the webhook rate limit.

## Proofs

All proofs hold for any sets of orders, references, keys, events and executions and
any bound on crashes, and so on for the other modules. They assume what the modules
assume of their constants: that None is none of the values it is mixed with, that the
sets of executions of OrderLifecycle are disjoint, that sets whose sizes are compared
(workers, scans, ticket types) are finite, and that bounds are numbers.

`OrderInvariantProofs`: `InvariantHolds`, Spec => []IInv, in three layers.

- Types: `TypeCorrect`, Spec => [](TypeOK /\ RequestsOK). RequestsOK is needed because
  an action indexes the tables with the arguments of its request: they must still be an
  order, a payment key and a stored event. The lemmas follow the pieces actions are made
  of: a step moves one request (Moves) or finishes it (Finishes), and keeps the rows of
  payment_events (RowsKept).
- Locks. Seen from the row locks, each step of a handler gives its lock back, keeps
  what it had or takes a free one (HandlerShape); a run of the job takes free ones and
  gives all of them back at once. Hence LocksOK, and `LocksHeld`. It says both that who
  works on an order holds its row and that no row is locked by anybody else: without
  the second half nothing could be said of who waits for whom.
- Transactions, runs and orders. None of the properties is inductive alone: a paid
  transition checks the order and the payment key well before it commits, and only the
  row lock (for the order) and the pending insert (for the key) keep both as they were,
  which is TransactionsOK; a commit of the job releases what it locked earlier, and
  only JobsOK says that a reserved order among these is one that it expires. The steps
  fall into five kinds: those that only move a request (QuietKeepsInvariant), the paid
  transition of either path (PaidKeepsInvariant), the other outcomes of a webhook
  (SettleKeepsInvariant), the steps of the job, one lemma each, and the clock.

`TicketsOnce`, `ChargedOnce`, `EventsSayPaid`, `RunsAreNotPoisoned` and `StockFollowsStatus`
are conjuncts of IInv.

`OnlyTheJobDeadlocks` is about the inverse lock orders of job and paid transition:
whenever a request is in a deadlock, so is a run of the job, so that no mix of confirms
and webhooks deadlocks by itself. Deadlocked(p) says that p waits and is in every set
that has what p waits for and is closed under waiting. A paying request waits for one
process only, the run that holds its reservations; an admitted one for one only, the
paying request that has inserted its key, which TransactionsOK says is unique. And who
waits for a single process passes its deadlock on to that one (SoleSuccessor). Nothing of
the kind holds for runs, which wait for several processes and for each other. The theorem
is stated for the detector of any number of processes; a cycle of two requests that share
a key and two runs is longer than those in the runs of TLC need be.

`OrderContractProofs`: `ImplementsContract`, Spec => KeepsContract. From a state of IInv
each commit is the step of OrderContract of the same name, a run of the job is
Expire(mine, what it locked), and everything else stutters. What follows uses the
contract instead of the code: statuses only move forward (`StatusForward`), recorded
payments stay (PaidStays), so a stored key goes on naming a paid order (`KeysAnswer`)
and an applied event keeps its effect (`EventsTookEffect`, by the stronger EffectsOK,
which also says that the order and the payment key of the event exist). Two theorems say
what other modules take of OrderLifecycle: a mail is queued only for an order that is
paid, and by the contract stays so (`QueuedOrdersArePaid`, for Notifications, whose `paid`
only grows); and an order, seen from the stock, is reserved and then paid or never
sold, for good (`FatesAreFinal`, for Sales, whose `fate` it computes from the status).

`InventoryProofs`. The invariant says that what a request has taken is what the lines it
has done ask for (RequestOK), that it holds the locks of these types and that the stock
covers what is taken under each (LocksOK), that a key it has inserted is its own
(KeyLocksOK), and that committed carts and stock add up (StockConserved). The decrement
is held in the request until its commit, so stock that is promised twice shows only
there; the lock is why it cannot be. `ImplementsSales` needs that the lines add up to
Quantity of the cart, by cardinalities of sets of units. `DeadlockFree`: who holds a type
that another request waits for, and waits itself, waits for a type of a higher rank
(WaitsClimb); in a finite set of waiting requests one waits for the highest (lemma
First).

`LeaseProofs`. ExclusiveUntilLateMark is inductive together with: the time a worker read
is past, and the row exists once its insert has failed (RequestsOK). Four kinds of
steps remain: those that only proceed, grants, marks, and the clock. A grant happens
only if the row is new, failed, or its lease is over at a time that is past; a holder
whose row it was is then out of its lease. `ImplementsLease` maps the same grants.

`NotificationsProofs`. OneMailPerJob is not inductive: a mail in the hands of a worker is
not in it, nor who may still send one. The budget is MailsOfJobs: mails, and one for
each worker that lost its lock and may still mail (Unlocked), never exceed the jobs that
have used their one mail (Spent) and the excuses. A job has used it when its holder has
mailed, and, once the order is marked, unless its holder is about to send after an
earlier look. Each step moves the four numbers in one of six ways (JobsCount). With it
go the shape of queue and workers, and MailsOfMarks for MarkedMeansMailed.

`BackofficeProofs`. The invariant adds to the properties what each request still relies
on (SessionOK): a row whose role is about to change is not an owner's; one about to be
removed is an owner's only if the owners were counted, and then another owner is left or
raced is set (also when two removals aim at one row, which is more than it need allow); a resolution about to commit is an allowed transition of the status it
read. The unique index and the version in the where carry the rest.

`CheckInProofs`. Locks belong to the scan that thinks so, and while it has one the
validation it made stays true (ValidStill); `OnlyTheConnections` follows from the locks:
a holder of a row lock waits for nothing but a connection.

`ScreensProofs`. For the feed (FeedOK): pages shown are in the order of time and id, the
cursor is the last of what is shown, and an event that was there when the reader began is
shown or still behind the cursor. A page is the least of what is behind the cursor, and
there is a least one because a finite set that a relation orders has a first element
(lemma First, by well-founded induction on subsets), so that an event a page leaves out
is behind the last one it shows. For the tables (TablesOK): stock and the units of all
carts make up the quota. For the board (BoardOK): each growing number read so far lies
between its value at the start and its value now, and everything read so far is what the
tables say if nothing was committed since. What is counted changes by whole orders, which
have no units in common (OrdersApart); that the totals are the sums of the ticket types is
PartsAddUp, the size of a finite union of disjoint finite sets, proved by gluing the
bijections of the parts. `QuotaIsKept` and `SellsAsPromised` follow from TablesOK and from
the actions: what is sold and reserved of a type is within its quota, whoever is admitted
has a ticket of a paid order, and every transaction the screens run beside is a step of
the Sales that Inventory implements. DashAssumption (finite sets of types and orders,
carts of positive quantities) and that NoCursor is no id are what these proofs take of the
constants.

So every safety property the passing runs check is proved for all values of the constants.
Only model-checked are the liveness properties (ReservationsAreReleased,
RequestsAreAnswered, ReservesAreAnswered, ConfirmationsGoOut, ScansAreAnswered), because
fairness and ENABLED are out of the prover's reach; and the two refuted claims, which need
one counterexample each. DeadlocksNeedTheJob, MailsArePaidFor, SettledStays and
NobodyIsSoldTooMuch are theorems only.

## Not modelled

- Webhook rate limit: INCR and EXPIRE on a Redis counter that no handler consults.
- Authentication, ticket codes: hashing and signing by libraries.
- Organizers, events and ticket types (server.ts:237-292, 547-564): single inserts; what
  they leave are initial states of Membership, Inventory and Dashboard.
- SendGrid webhook (server.ts:1364-1386): inserts that only the dashboard counts.
- Of the dashboard, revenue, the series of sales, the latest scans and events and the
  mail failures: single reads shown as they are.
- Metrics, environment, seed and verification scripts: output, configuration, test data.
- Web frontend: at this commit it does not build. main.tsx imports ./lib/adminAccess,
  which is not there, and takes from useAdminContext an `authorization` it does not
  return. Only the walk of EventActivityPage through its pages is modelled.

In OrderLifecycle: rows deleted by hand, an isolation level other than READ COMMITTED,
more than one payment amount, webhooks for orders that do not exist (the foreign key
refuses the event, nothing changes). In Backoffice: more than one organizer, whose
members have nothing in common; amounts and reasons of a resolution. In Notifications:
Redis losing jobs it has accepted.
