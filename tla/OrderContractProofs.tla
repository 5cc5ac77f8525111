-------------------------- MODULE OrderContractProofs --------------------------
(***************************************************************************)
(* That OrderLifecycle implements OrderContract: seen from the orders, each *)
(* transaction is one atomic step, however the handlers and the job are    *)
(* interleaved before it commits.                                          *)
(***************************************************************************)
EXTENDS OrderInvariantProofs

contractVars == <<status, due, held, payment, tickets>>

LEMMA PaidIsPay ==
    ASSUME IInv, NEW p \in Handlers, At(p, "paying"), OrderOf(p) \in Orders,
           status' = [status EXCEPT ![OrderOf(p)] = "paid"],
           InsertPayment(p), Issue(OrderOf(p)), Release(OrderOf(p)), UNCHANGED due
    PROVE  Contract!Next
<1>1. PICK o \in Orders : o = OrderOf(p)
  OBVIOUS
<1>2. PICK k \in PayKeys : k = PayOf(p)
  BY HeldOrder DEF IInv, At, PayOf, Held
<1>3. status[o] \in {"pending", "reserved"} /\ payment[k] = None
  BY <1>1, <1>2 DEF IInv, TransactionsOK
<1>4. tickets[o] = 0
  BY <1>3 DEF IInv, TicketsMatchStatus
<1>5. tickets' = [tickets EXCEPT ![o] = 1]
  BY <1>1, <1>4 DEF Issue, IInv, TypeOK
<1>6. Contract!Pay(o, k)
  BY <1>1, <1>2, <1>3, <1>5 DEF InsertPayment, Release, Contract!Pay, Contract!Become,
     Contract!Record
<1> QED
  BY <1>6 DEF Contract!Next

LEMMA ConfirmContract ==
    ASSUME IInv, NEW c \in Confirmers, ConfirmReceive(c) \/ ConfirmStep(c)
    PROVE  Contract!Next \/ UNCHANGED contractVars
<1> USE DEF contractVars, dbVars
<1>1. CASE ConfirmCommit(c)
  <2>1. c \in Handlers /\ OrderOf(c) \in Orders
    BY <1>1, HeldOrder DEF ConfirmCommit, Handlers, Held, At, OrderOf, IInv
  <2> QED
    BY <1>1, <2>1, PaidIsPay DEF ConfirmCommit
<1>2. CASE ConfirmRefuse(c) \/ ConfirmKeyTaken(c) \/ UniqueKeyTaken(c)
  BY <1>2 DEF ConfirmRefuse, ConfirmKeyTaken, UniqueKeyTaken, Rollback
<1>3. CASE ConfirmReceive(c) \/ ConfirmRecordKey(c) \/ ConfirmAdmit(c)
            \/ ConfirmInsertPayment(c) \/ ConfirmEnqueue(c)
  BY <1>3 DEF ConfirmReceive, ConfirmRecordKey, ConfirmAdmit, ConfirmInsertPayment,
     ConfirmEnqueue
<1> QED
  BY <1>1, <1>2, <1>3 DEF ConfirmStep

LEMMA HookContract ==
    ASSUME IInv, NEW h \in Webhooks, HookStore(h) \/ HookDuplicate(h) \/ HookStep(h)
    PROVE  Contract!Next \/ UNCHANGED contractVars
<1> USE DEF contractVars, dbVars
<1>a. h \in Handlers /\ TypeOK
  BY DEF Handlers, IInv
<1>b. handler[h].pc \in Held => OrderOf(h) \in Orders /\ PayOf(h) \in PayKeys
  BY <1>a, HeldOrder DEF IInv, OrderOf, PayOf
<1>1. CASE HookCommit(h)
  <2>1. OrderOf(h) \in Orders
    BY <1>1, <1>b DEF HookCommit, Held, At
  <2> QED
    BY <1>1, <1>a, <2>1, PaidIsPay DEF HookCommit
<1>2. CASE HookRefuse(h) \/ UniqueKeyTaken(h)
  BY <1>2 DEF HookRefuse, UniqueKeyTaken, Rollback
<1>3. CASE HookStore(h) \/ HookIgnore(h) \/ HookAdmit(h) \/ HookInsertPayment(h)
            \/ HookRecordError(h) \/ HookDuplicate(h) \/ HookUnresolved(h) \/ HookDeduped(h)
  BY <1>3 DEF HookStore, HookIgnore, HookAdmit, HookInsertPayment, HookRecordError,
     HookDuplicate, HookUnresolved, HookDeduped
<1>4. CASE HookTransition(h)
  <2>1. OrderOf(h) \in Orders
    BY <1>4, <1>a DEF HookTransition, IgnoreReason, TypeOK, HandlerStates, OrderOf
  <2>2. PICK o \in Orders : o = OrderOf(h)
    BY <2>1
  <2>3. CASE Target(h) = "failed"
    <3>1. status' = [status EXCEPT ![o] = IF @ \in {"pending", "reserved"} THEN "failed" ELSE @]
      BY <1>4, <2>2, <2>3 DEF HookTransition
    <3>2. CASE status[o] \in {"pending", "reserved"}
      <4>1. Contract!Fail(o)
        BY <1>4, <1>a, <3>1, <3>2 DEF HookTransition, Contract!Fail, Contract!Become, TypeOK
      <4> QED
        BY <4>1 DEF Contract!Next
    <3>3. CASE status[o] \notin {"pending", "reserved"}
      BY <1>4, <1>a, <3>1, <3>3 DEF HookTransition, TypeOK
    <3> QED
      BY <3>2, <3>3
  <2>4. CASE Target(h) = "refunded"
    <3>1. status' = [status EXCEPT ![o] =
              IF @ \in {"paid", "failed", "pending", "reserved", "expired"} THEN "refunded" ELSE @]
      BY <1>4, <2>2, <2>4 DEF HookTransition
    <3>2. status[o] \notin {"paid", "failed"}
      BY <1>4, <2>2 DEF HookTransition, IgnoreReason, terminalStatuses
    <3>3. CASE status[o] \in {"pending", "reserved", "expired"}
      <4>1. Contract!Refund(o)
        BY <1>4, <1>a, <3>1, <3>3 DEF HookTransition, Contract!Refund, Contract!Become, TypeOK
      <4> QED
        BY <4>1 DEF Contract!Next
    <3>4. CASE status[o] \notin {"pending", "reserved", "expired"}
      BY <1>4, <1>a, <3>1, <3>2, <3>4 DEF HookTransition, TypeOK
    <3> QED
      BY <3>3, <3>4
  <2> QED
    BY <1>4, <2>3, <2>4 DEF HookTransition
<1>5. ASSUME At(h, "admitted"), CanInsertPayment(h), InsertPayment(h)
      PROVE  \E o \in Orders, k \in PayKeys :
                /\ o = OrderOf(h) /\ k = PayOf(h)
                /\ payment[k] \in {None, o} /\ payment' = [payment EXCEPT ![k] = o]
                /\ status[o] \in {"pending", "reserved", "expired", "canceled"}
  BY <1>5, <1>a, <1>b DEF CanInsertPayment, InsertPayment, Held, At, IInv, TransactionsOK
<1>6. CASE HookNoStock(h)
  <2>1. PICK o \in Orders, k \in PayKeys :
          /\ o = OrderOf(h) /\ payment[k] \in {None, o} /\ payment' = [payment EXCEPT ![k] = o]
          /\ status[o] \in {"pending", "reserved", "expired", "canceled"}
    BY <1>5, <1>6 DEF HookNoStock
  <2>2. status[o] # "canceled"
    BY <1>6, <2>1 DEF HookNoStock, IInv, DeadlinesOK
  <2>3. payment[k] = None
    BY <2>1, <2>2 DEF IInv, OnePaymentPerOrder, PaymentsOf
  <2>4. Contract!PayLate(o, k)
    BY <1>6, <2>1, <2>2, <2>3 DEF HookNoStock, Contract!PayLate, Contract!Become,
       Contract!Record
  <2> QED
    BY <2>4 DEF Contract!Next
<1>7. CASE HookUnpayable(h)
  <2>1. PICK o \in Orders, k \in PayKeys :
          /\ o = OrderOf(h) /\ payment[k] \in {None, o} /\ payment' = [payment EXCEPT ![k] = o]
          /\ status[o] \in {"pending", "reserved", "expired", "canceled"}
    BY <1>5, <1>7 DEF HookUnpayable
  <2>2. status[o] = "canceled" /\ UNCHANGED <<status, due, held, tickets>>
    BY <1>7, <2>1 DEF HookUnpayable, payable
  <2>3. CASE payment[k] = None
    <3>1. Contract!PayCanceled(o, k)
      BY <2>1, <2>2, <2>3 DEF Contract!PayCanceled, Contract!Record
    <3> QED
      BY <3>1 DEF Contract!Next
  <2>4. CASE payment[k] = o
    BY <1>a, <2>1, <2>2, <2>4 DEF TypeOK
  <2> QED
    BY <2>1, <2>3, <2>4
<1> QED
  BY <1>1, <1>2, <1>3, <1>4, <1>6, <1>7 DEF HookStep

LEMMA JobContract ==
    ASSUME IInv, NEW j \in Jobs, JobStep(j) \/ JobVictim(j)
    PROVE  Contract!Next \/ UNCHANGED contractVars
<1> USE DEF contractVars, dbVars
<1>1. CASE JobCommit(j)
  <2> DEFINE S == job[j].mine
             R == {o \in Orders : resLock[o] = j}
  <2>1. /\ job[j] \in JobStates /\ job[j].pc = "expiring" /\ job[j].todo = {}
        /\ S \subseteq Orders /\ S \subseteq job[j].now
    BY <1>1 DEF JobCommit, IInv, TypeOK, JobStates, JobsOK, RunOK
  <2>2. \A o \in R : o \in job[j].now
    BY DEF IInv, JobsOK, RunOK
  <2>3. S \subseteq R /\ \A o \in S : status[o] = "reserved"
    BY <2>1 DEF IInv, JobsOK, RunOK
  <2>4. \A o \in R : due[o] = "past"
    BY <2>2 DEF IInv, JobsOK, RunOK
  <2>5. \A o \in R \ S : status[o] # "reserved"
    BY <2>1, <2>2 DEF IInv, JobsOK, RunOK
  <2>6. held' = held \ R
    BY <1>1 DEF JobCommit, HeldAfter, IInv, TypeOK
  <2>7. status' = [o \in Orders |-> IF o \in S THEN "expired" ELSE status[o]]
    BY <1>1 DEF JobCommit, StatusAfter
  <2>8. UNCHANGED <<due, payment, tickets>> /\ S \in SUBSET Orders /\ R \in SUBSET Orders
    BY <1>1, <2>1 DEF JobCommit
  <2> HIDE DEF S, R
  <2>9. \E S1, R1 \in SUBSET Orders : Contract!Expire(S1, R1)
    BY <2>3, <2>4, <2>5, <2>6, <2>7, <2>8 DEF Contract!Expire
  <2> QED
    BY <2>9 DEF Contract!Next
<1>2. CASE JobRead(j) \/ JobLockReservation(j) \/ JobExpire(j) \/ JobLockOrder(j)
            \/ JobEmit(j) \/ JobEventTaken(j) \/ JobVictim(j)
  BY <1>2 DEF JobRead, JobLockReservation, JobExpire, JobLockOrder, JobEmit,
     JobEventTaken, JobVictim
<1> QED
  BY <1>1, <1>2 DEF JobStep

LEMMA StepsKeepContract ==
    ASSUME IInv, [Next]_vars
    PROVE  Contract!Next \/ UNCHANGED contractVars
<1> USE DEF contractVars, dbVars
<1>1. CASE \E p \in Handlers : HandlerVictim(p)
  BY <1>1 DEF HandlerVictim, Rollback
<1>2. CASE \E o \in Orders : Lapse(o)
  <2>1. PICK o \in Orders : Lapse(o)
    BY <1>2
  <2>2. Contract!Lapse(o)
    BY <2>1 DEF Lapse, Contract!Lapse
  <2> QED
    BY <2>2 DEF Contract!Next
<1>3. CASE Crash \/ UNCHANGED vars
  BY <1>3 DEF Crash, vars
<1> QED
  BY <1>1, <1>2, <1>3, ConfirmContract, HookContract, JobContract DEF Next

\* The payment paths and the job implement the contract of an order: for any
\* number of them, any interleaving, conflict, deadlock or crash, the effects of
\* a payment or of an expiry appear together, once, or not at all
\* (ADR-0005 decision 3, releaseExpiredReservations.ts:9-30).
THEOREM ImplementsContract == Spec => KeepsContract
<1>1. Init => Contract!Init
  BY DEF Init, Contract!Init
<1>2. IInv /\ [Next]_vars => [Contract!Next]_(Contract!contractVars)
  BY StepsKeepContract DEF contractVars, Contract!contractVars
<1> QED
  BY <1>1, <1>2, InvariantHolds, PTL DEF Spec, KeepsContract, Contract!Spec

\* A terminal order stays as it is and an expired one never sells its tickets:
\* a consequence of the contract alone (applyPaymentEvent.ts:67-70, 101-128).
THEOREM StatusForward == Spec => StatusMovesForward
<1> DEFINE Forward ==
      \A o \in Orders :
        /\ status[o] \in terminalStatuses => status'[o] = status[o]
        /\ status[o] = "expired" => status'[o] \in {"expired", "paid_no_stock", "refunded"}
<1>1. ASSUME IInv, [Next]_vars PROVE Forward
  <2>1. status \in [Orders -> Statuses]
    BY <1>1 DEF IInv, TypeOK
  <2>2. CASE Contract!Next
    BY <2>1, <2>2 DEF Contract!Next, Contract!Pay, Contract!PayLate, Contract!PayCanceled,
       Contract!Fail, Contract!Refund, Contract!Lapse, Contract!Expire, Contract!Become,
       terminalStatuses
  <2>3. CASE UNCHANGED contractVars
    BY <2>3 DEF contractVars, terminalStatuses
  <2> QED
    BY <1>1, <2>2, <2>3, StepsKeepContract
<1>2. IInv /\ [Next]_vars => [Forward]_vars
  BY <1>1
<1> QED
  BY <1>2, InvariantHolds, PTL DEF Spec, StatusMovesForward

\* A recorded payment stays with its order, and a settled status stays.
LEMMA PaidStays ==
    ASSUME IInv, [Next]_vars
    PROVE  /\ \A k \in PayKeys : payment[k] # None => payment'[k] = payment[k]
           /\ \A o \in Orders :
                status[o] \in {"paid", "paid_no_stock", "refunded", "canceled"} =>
                  status'[o] = status[o]
<1>1. status \in [Orders -> Statuses] /\ payment \in [PayKeys -> Orders \cup {None}]
  BY DEF IInv, TypeOK
<1>2. CASE Contract!Next
  BY <1>1, <1>2 DEF Contract!Next, Contract!Pay, Contract!PayLate, Contract!PayCanceled,
     Contract!Fail, Contract!Refund, Contract!Lapse, Contract!Expire, Contract!Become,
     Contract!Record
<1>3. CASE UNCHANGED contractVars
  BY <1>3 DEF contractVars
<1> QED
  BY <1>2, <1>3, StepsKeepContract

\* Only these two steps store a key.
LEMMA KeysStored ==
    ASSUME [Next]_vars
    PROVE  \/ UNCHANGED confirmKey
           \/ \E c \in Confirmers : ConfirmRecordKey(c) \/ ConfirmCommit(c)
<1> USE DEF dbVars
<1>1. ASSUME NEW c \in Confirmers, ConfirmReceive(c) \/ ConfirmStep(c)
      PROVE  UNCHANGED confirmKey \/ ConfirmRecordKey(c) \/ ConfirmCommit(c)
  BY <1>1 DEF ConfirmReceive, ConfirmStep, ConfirmRefuse, ConfirmAdmit, ConfirmInsertPayment,
     ConfirmKeyTaken, ConfirmEnqueue, UniqueKeyTaken, Rollback
<1>2. ASSUME NEW h \in Webhooks, HookStore(h) \/ HookDuplicate(h) \/ HookStep(h)
      PROVE  UNCHANGED confirmKey
  BY <1>2 DEF HookStore, HookStep, HookIgnore, HookRefuse, HookTransition, HookAdmit,
     HookNoStock, HookUnpayable, HookInsertPayment, HookCommit, HookRecordError,
     HookDuplicate, HookUnresolved, HookDeduped, UniqueKeyTaken, Rollback
<1>3. ASSUME NEW j \in Jobs, JobStep(j) \/ JobVictim(j)
      PROVE  UNCHANGED confirmKey
  BY <1>3 DEF JobStep, JobRead, JobLockReservation, JobExpire, JobLockOrder, JobEmit,
     JobCommit, JobEventTaken, JobVictim
<1>4. CASE (\E p \in Handlers : HandlerVictim(p)) \/ (\E o \in Orders : Lapse(o)) \/ Crash
  BY <1>4 DEF HandlerVictim, Rollback, Lapse, Crash
<1> QED
  BY <1>1, <1>2, <1>3, <1>4 DEF Next, vars

LEMMA KeysStep ==
    ASSUME IInv, KeysNamePaidOrders, [Next]_vars
    PROVE  KeysNamePaidOrders'
<1>1. \A r \in Refs : <<Mock, r>> \in PayKeys
  BY OrderLifecycleAssumption DEF PayKeys
\* A key that is stored already keeps its order and its reference.
<1>2. ASSUME NEW k \in Keys, confirmKey[k] # None, confirmKey'[k] = confirmKey[k]
      PROVE  \E o \in Orders, r \in Refs :
                /\ confirmKey'[k] = <<o, r>>
                /\ status'[o] = "paid" /\ payment'[<<Mock, r>>] = o
  <2>1. PICK o \in Orders, r \in Refs :
          /\ confirmKey[k] = <<o, r>>
          /\ status[o] = "paid" /\ payment[<<Mock, r>>] = o
    BY <1>2 DEF KeysNamePaidOrders
  <2>2. status'[o] = "paid" /\ payment'[<<Mock, r>>] = o
    BY <1>1, <2>1, PaidStays, OrderLifecycleAssumption
  <2> QED
    BY <1>2, <2>1, <2>2
<1>3. ASSUME NEW c \in Confirmers, ConfirmRecordKey(c) \/ ConfirmCommit(c)
      PROVE  KeysNamePaidOrders'
  <2>1. /\ c \in Handlers /\ OrderOf(c) \in Orders /\ handler[c].tag \in Keys
        /\ PayOf(c) \in {Mock} \X Refs /\ PayOf(c) \in PayKeys
    BY <1>1, <1>3 DEF ConfirmRecordKey, ConfirmCommit, IInv, RequestsOK, ConfirmOK, At, Handlers
  <2>2. PICK o \in Orders, r \in Refs, t \in Keys :
          /\ o = OrderOf(c) /\ PayOf(c) = <<Mock, r>> /\ r = PayOf(c)[2] /\ t = handler[c].tag
    BY <2>1
  <2>3. confirmKey' = [confirmKey EXCEPT ![t] = <<o, r>>]
    BY <1>3, <2>2 DEF ConfirmRecordKey, ConfirmCommit
  <2>4. status'[o] = "paid" /\ payment'[<<Mock, r>>] = o
    <3>1. CASE ConfirmCommit(c)
      BY <1>1, <2>2, <3>1 DEF ConfirmCommit, InsertPayment, IInv, TypeOK
    <3>2. CASE ConfirmRecordKey(c)
      <4>1. ~Existing(c)
        BY <1>1, <2>2 DEF Existing, InTime, IInv, OnePaymentPerOrder, PaymentsOf
      <4>2. status[o] = "paid" /\ payment[<<Mock, r>>] = o
        BY <2>2, <3>2, <4>1 DEF ConfirmRecordKey, Replayed, MockRefs
      <4> QED
        BY <3>2, <4>2 DEF ConfirmRecordKey
    <3> QED
      BY <1>3, <3>1, <3>2
  <2>5. confirmKey'[t] = <<o, r>> /\ \A k \in Keys \ {t} : confirmKey'[k] = confirmKey[k]
    BY <2>3 DEF IInv, TypeOK
  <2> QED
    BY <1>2, <2>2, <2>4, <2>5 DEF KeysNamePaidOrders
<1>4. CASE UNCHANGED confirmKey
  BY <1>2, <1>4 DEF KeysNamePaidOrders
<1> QED
  BY <1>3, <1>4, KeysStored

\* Every stored confirm key answers later requests with an order that is paid
\* with the reference it was stored with (server.ts:736-765, 883-893).
THEOREM KeysAnswer == Spec => []KeysNamePaidOrders
<1>1. Init => KeysNamePaidOrders
  BY DEF Init, KeysNamePaidOrders
<1>2. IInv /\ KeysNamePaidOrders /\ [Next]_vars => KeysNamePaidOrders'
  BY KeysStep
<1> QED
  BY <1>1, <1>2, InvariantHolds, PTL DEF Spec
-------------------------------------------------------------------------------
(* Processed events                                                         *)

\* What an event that was applied has done, and to which order.
Effect(e, row) ==
    /\ row.order \in Orders
    /\ mapEventTypeToTarget(row.type) \in {"paid", "failed", "refunded"}
    /\ mapEventTypeToTarget(row.type) = "paid" =>
         /\ <<e[1], row.ref>> \in PayKeys /\ payment[<<e[1], row.ref>>] = row.order
         /\ status[row.order] \in {"paid", "paid_no_stock"}
    /\ mapEventTypeToTarget(row.type) = "refunded" =>
         status[row.order] \in {"refunded", "canceled"}
    /\ mapEventTypeToTarget(row.type) = "failed" =>
         <<"PAYMENT_MARKED_FAILED", row.order>> \in emitted

Applied(row) == row # None /\ row.processed /\ row.ignored = "no"

EffectsOK == \A e \in Events : Applied(event[e]) => Effect(e, event[e])

LEMMA EmittedStays ==
    ASSUME [Next]_vars
    PROVE  emitted \subseteq emitted'
<1> USE DEF dbVars
<1>1. ASSUME NEW c \in Confirmers, ConfirmReceive(c) \/ ConfirmStep(c)
      PROVE  emitted \subseteq emitted'
  BY <1>1 DEF ConfirmReceive, ConfirmStep, ConfirmRefuse, ConfirmRecordKey, ConfirmAdmit,
     ConfirmInsertPayment, ConfirmCommit, ConfirmKeyTaken, ConfirmEnqueue, UniqueKeyTaken,
     Rollback, Emit
<1>2. ASSUME NEW h \in Webhooks, HookStore(h) \/ HookDuplicate(h) \/ HookStep(h)
      PROVE  emitted \subseteq emitted'
  BY <1>2 DEF HookStore, HookStep, HookIgnore, HookRefuse, HookTransition, HookAdmit,
     HookNoStock, HookUnpayable, HookInsertPayment, HookCommit, HookRecordError,
     HookDuplicate, HookUnresolved, HookDeduped, UniqueKeyTaken, Rollback, Emit
<1>3. ASSUME NEW j \in Jobs, JobStep(j) \/ JobVictim(j)
      PROVE  emitted \subseteq emitted'
  BY <1>3 DEF JobStep, JobRead, JobLockReservation, JobExpire, JobLockOrder, JobEmit,
     JobCommit, JobEventTaken, JobVictim
<1>4. CASE (\E p \in Handlers : HandlerVictim(p)) \/ (\E o \in Orders : Lapse(o)) \/ Crash
  BY <1>4 DEF HandlerVictim, Rollback, Lapse, Crash
<1> QED
  BY <1>1, <1>2, <1>3, <1>4 DEF Next, vars

LEMMA EffectStays ==
    ASSUME IInv, [Next]_vars, NEW e, NEW row, Effect(e, row)
    PROVE  Effect(e, row)'
BY PaidStays, EmittedStays, OrderLifecycleAssumption DEF Effect

\* What markEventProcessed leaves of an event.
LEMMA Marked ==
    ASSUME IInv, NEW h \in Webhooks,
           handler[h].pc \in {"begun", "admitted", "paying"}, NEW reason \in Reasons,
           markEventProcessed(h, reason)
    PROVE  \E t \in Events :
             /\ t = handler[h].tag /\ event[t] \in EventRows
             /\ event'[t].processed /\ event'[t].ignored = reason
             /\ event'[t].order = OrderOf(h) /\ event'[t].type = event[t].type
             /\ event'[t].ref = event[t].ref /\ PayOf(h) = <<t[1], event[t].ref>>
             /\ \A e \in Events \ {t} : event'[e] = event[e]
<1>1. PICK t \in Events : t = handler[h].tag
  BY DEF IInv, RequestsOK, HookOK, At
<1>2. /\ event[t] \in EventRows /\ event[t].order = OrderOf(h)
      /\ PayOf(h) = <<t[1], event[t].ref>>
  BY <1>1 DEF IInv, RequestsOK, HookOK, EventOf, At
<1> DEFINE new == [event[t] EXCEPT !.processed = TRUE, !.ignored = reason, !.error = "none"]
<1>3. /\ new.processed /\ new.ignored = reason /\ new.order = event[t].order
      /\ new.type = event[t].type /\ new.ref = event[t].ref
  BY <1>2 DEF EventRows
<1>4. event \in [Events -> EventRows \cup {None}] /\ event' = [event EXCEPT ![t] = new]
  BY <1>1 DEF markEventProcessed, IInv, TypeOK
<1> HIDE DEF new
<1> QED
  BY <1>1, <1>2, <1>3, <1>4

LEMMA EffectsStep ==
    ASSUME IInv, EffectsOK, [Next]_vars
    PROVE  EffectsOK'
<1>a. TypeOK /\ RequestsOK
  BY DEF IInv
\* An event whose row stays as it is, and one that is not applied.
<1>b. ASSUME NEW e \in Events, event'[e] = event[e] \/ ~Applied(event'[e])
      PROVE  Applied(event'[e]) => Effect(e, event[e])'
  <2> SUFFICES ASSUME event'[e] = event[e], Applied(event[e])
               PROVE  Effect(e, event[e])'
    BY <1>b
  <2>1. PICK row : row = event[e]
    OBVIOUS
  <2>2. Effect(e, row)
    BY <2>1 DEF EffectsOK
  <2>3. Effect(e, row)'
    BY <2>2, EffectStays
  <2> QED
    BY <2>1, <2>3 DEF Effect
<1>1. CASE UNCHANGED event
  BY <1>1, <1>b DEF EffectsOK, Applied
<1>2. ASSUME NEW h \in Webhooks, HookStore(h) \/ HookDuplicate(h) \/ HookStep(h)
      PROVE  EffectsOK'
  <2>a. h \in Handlers
    BY DEF Handlers
  <2>1. CASE HookStore(h)
    <3>1. \A e \in Events : event'[e] = event[e] \/ ~Applied(event'[e])
      BY <1>a, <2>1 DEF HookStore, Applied, TypeOK
    <3> QED
      BY <1>b, <3>1 DEF EffectsOK, Applied
  <2>2. CASE HookIgnore(h) \/ HookUnpayable(h)
    <3>1. PICK reason \in Reasons \ {"no"} : markEventProcessed(h, reason)
      BY <2>2 DEF HookIgnore, HookUnpayable, IgnoreReason, Reasons
    <3>2. handler[h].pc \in {"begun", "admitted", "paying"}
      BY <2>2 DEF HookIgnore, HookUnpayable, Reached, At
    <3>3. \A e \in Events : event'[e] = event[e] \/ ~Applied(event'[e])
      BY <3>1, <3>2, Marked DEF Applied
    <3> QED
      BY <1>b, <3>3 DEF EffectsOK, Applied
  <2>3. CASE HookTransition(h) \/ HookNoStock(h) \/ HookCommit(h)
    <3>1. handler[h].pc \in {"begun", "admitted", "paying"} /\ markEventProcessed(h, "no")
      BY <2>3 DEF HookTransition, HookNoStock, HookCommit, Reached, At
    <3>2. PICK t \in Events :
             /\ t = handler[h].tag /\ event[t] \in EventRows
             /\ event'[t].order = OrderOf(h) /\ event'[t].type = event[t].type
             /\ event'[t].ref = event[t].ref /\ PayOf(h) = <<t[1], event[t].ref>>
             /\ \A e \in Events \ {t} : event'[e] = event[e]
      BY <3>1, Marked DEF Reasons
    <3>3. Target(h) = mapEventTypeToTarget(event'[t].type)
      BY <3>2 DEF Target, EventOf
    <3>4. PICK o \in Orders : o = OrderOf(h)
      <4>1. CASE HookTransition(h)
        BY <1>a, <2>a, <4>1 DEF HookTransition, IgnoreReason, TypeOK, HandlerStates, OrderOf
      <4>2. CASE HookNoStock(h) \/ HookCommit(h)
        BY <1>a, <2>a, <4>2, HeldOrder DEF HookNoStock, HookCommit, At, Held, OrderOf
      <4> QED
        BY <2>3, <4>1, <4>2
    <3>5. Effect(t, event[t])'
      <4>1. CASE HookTransition(h)
        <5>1. status[o] \notin terminalStatuses
          BY <3>4, <4>1 DEF HookTransition, IgnoreReason
        <5>2. CASE Target(h) = "failed"
          <6>1. <<"PAYMENT_MARKED_FAILED", o>> \in emitted'
            BY <3>4, <4>1, <5>2 DEF HookTransition, Emit
          <6> QED
            BY <3>2, <3>3, <3>4, <5>2, <6>1 DEF Effect
        <5>3. CASE Target(h) = "refunded"
          <6>1. status'[o] = IF status[o] \in {"paid", "failed", "pending", "reserved", "expired"}
                             THEN "refunded" ELSE status[o]
            BY <1>a, <3>4, <4>1, <5>3 DEF HookTransition, TypeOK
          <6>2. status'[o] \in {"refunded", "canceled"}
            BY <1>a, <5>1, <6>1 DEF TypeOK, Statuses, terminalStatuses
          <6> QED
            BY <3>2, <3>3, <3>4, <5>3, <6>2 DEF Effect
        <5> QED
          BY <4>1, <5>2, <5>3 DEF HookTransition
      <4>2. CASE HookNoStock(h) \/ HookCommit(h)
        <5>1. Target(h) = "paid" /\ PayOf(h) \in PayKeys
          BY <1>a, <2>a, <4>2 DEF HookNoStock, HookCommit, At, RequestsOK, HookOK
        <5>2. payment'[<<t[1], event'[t].ref>>] = o /\ <<t[1], event'[t].ref>> \in PayKeys
          BY <1>a, <3>2, <3>4, <4>2, <5>1 DEF HookNoStock, HookCommit, InsertPayment, TypeOK
        <5>3. status'[o] \in {"paid", "paid_no_stock"}
          BY <1>a, <3>4, <4>2 DEF HookNoStock, HookCommit, TypeOK
        <5> QED
          BY <3>2, <3>3, <3>4, <5>1, <5>2, <5>3 DEF Effect
      <4> QED
        BY <2>3, <4>1, <4>2
    <3> QED
      BY <1>b, <3>2, <3>5 DEF EffectsOK, Applied
  <2>4. CASE HookRecordError(h)
    <3>1. ~At(h, "idle")
      BY <2>4 DEF HookRecordError, At
    <3>2. PICK t \in Events : t = handler[h].tag /\ event[t] \in EventRows
      BY <1>a, <3>1 DEF RequestsOK, HookOK, EventOf
    <3> DEFINE new == [event[t] EXCEPT !.error = handler[h].error]
    <3>3. event' = [event EXCEPT ![t] = new]
      BY <1>a, <2>4, <3>2 DEF HookRecordError, TypeOK
    <3>4. /\ new.processed = event[t].processed /\ new.ignored = event[t].ignored
          /\ new.order = event[t].order /\ new.ref = event[t].ref /\ new.type = event[t].type
      BY <3>2 DEF EventRows
    <3> HIDE DEF new
    <3>5. event'[t] = new /\ \A e \in Events \ {t} : event'[e] = event[e]
      BY <1>a, <3>3 DEF TypeOK
    <3>6. Applied(event'[t]) => Effect(t, event[t])'
      <4> SUFFICES ASSUME Applied(event'[t]) PROVE Effect(t, event[t])'
        OBVIOUS
      <4>1. PICK row : row = event[t]
        OBVIOUS
      <4>2. Effect(t, row)
        BY <3>2, <3>4, <3>5, <4>1, NoneIsNoRow DEF Applied, EffectsOK
      <4>3. Effect(t, row)'
        BY <4>2, EffectStays
      <4> QED
        BY <3>4, <3>5, <4>1, <4>3 DEF Effect
    <3> QED
      BY <1>b, <3>5, <3>6 DEF EffectsOK, Applied
  <2>5. CASE HookRefuse(h) \/ HookAdmit(h) \/ HookInsertPayment(h) \/ UniqueKeyTaken(h)
            \/ HookDuplicate(h) \/ HookUnresolved(h) \/ HookDeduped(h)
    BY <1>1, <2>5 DEF HookRefuse, HookAdmit, HookInsertPayment, UniqueKeyTaken, Rollback,
       HookDuplicate, HookUnresolved, HookDeduped, dbVars
  <2> QED
    BY <1>2, <2>1, <2>2, <2>3, <2>4, <2>5 DEF HookStep
<1>3. ASSUME NEW c \in Confirmers, ConfirmReceive(c) \/ ConfirmStep(c)
      PROVE  UNCHANGED event
  BY <1>3 DEF ConfirmReceive, ConfirmStep, ConfirmRefuse, ConfirmRecordKey, ConfirmAdmit,
     ConfirmInsertPayment, ConfirmCommit, ConfirmKeyTaken, ConfirmEnqueue, UniqueKeyTaken,
     Rollback, dbVars
<1>4. ASSUME NEW j \in Jobs, JobStep(j) \/ JobVictim(j)
      PROVE  UNCHANGED event
  BY <1>4 DEF JobStep, JobRead, JobLockReservation, JobExpire, JobLockOrder, JobEmit,
     JobCommit, JobEventTaken, JobVictim, dbVars
<1>5. CASE (\E p \in Handlers : HandlerVictim(p)) \/ (\E o \in Orders : Lapse(o)) \/ Crash
            \/ UNCHANGED vars
  <2>1. UNCHANGED event
    BY <1>5 DEF HandlerVictim, Rollback, Lapse, Crash, vars, dbVars
  <2> QED
    BY <1>1, <2>1
<1> QED
  BY <1>1, <1>2, <1>3, <1>4, <1>5 DEF Next

\* An event that was processed and not ignored has had its effect, which nothing
\* that happens later undoes (applyPaymentEvent.ts:99-224).
THEOREM EventsTookEffect == Spec => []ProcessedEventsTookEffect
<1>1. Init => EffectsOK
  BY DEF Init, EffectsOK, Applied
<1>2. IInv /\ EffectsOK /\ [Next]_vars => EffectsOK'
  BY EffectsStep
<1>3. EffectsOK => ProcessedEventsTookEffect
  BY DEF EffectsOK, ProcessedEventsTookEffect, Applied, Effect
<1> QED
  BY <1>1, <1>2, <1>3, InvariantHolds, PTL DEF Spec
-------------------------------------------------------------------------------
(* The confirmation mail                                                    *)

\* What is queued, and what a committed confirm has yet to queue, is paid for.
MailsArePaidFor ==
    /\ \A o \in outbox : status[o] = "paid"
    /\ \A c \in Confirmers : At(c, "committed") => status[OrderOf(c)] = "paid"

\* How a confirm comes to be about to queue a mail.
LEMMA Committing ==
    ASSUME IInv, [Next]_vars, NEW c \in Confirmers, handler'[c].pc = "committed"
    PROVE  \/ handler'[c] = handler[c]
           \/ ConfirmCommit(c)
           \/ ConfirmRecordKey(c) /\ Replayed(c)
<1>1. c \in Handlers /\ handler \in [Handlers -> HandlerStates]
  BY DEF Handlers, IInv, TypeOK
<1> USE DEF IInv
<1>2. CASE ConfirmReceive(c) \/ ConfirmStep(c)
  <2>1. CASE ConfirmReceive(c)
    BY <1>1, <2>1 DEF ConfirmReceive, Begin
  <2>2. CASE ConfirmRefuse(c) \/ ConfirmKeyTaken(c) \/ UniqueKeyTaken(c)
    BY <1>1, <2>2, RollbackShape DEF ConfirmRefuse, ConfirmKeyTaken, UniqueKeyTaken
  <2>3. CASE ConfirmRecordKey(c)
    BY <1>1, <2>3 DEF ConfirmRecordKey, Idle
  <2>4. CASE ConfirmAdmit(c)
    BY <1>1, <2>4, GotoMoves DEF ConfirmAdmit, Moves, Pcs
  <2>5. CASE ConfirmInsertPayment(c)
    BY <1>1, <2>5, GotoMoves DEF ConfirmInsertPayment, Moves, Pcs
  <2>6. CASE ConfirmEnqueue(c)
    BY <1>1, <2>6, IdleFinishes DEF ConfirmEnqueue, Finishes
  <2> QED
    BY <1>2, <2>1, <2>2, <2>3, <2>4, <2>5, <2>6 DEF ConfirmStep
<1>3. CASE \E d \in Confirmers : d # c /\ (ConfirmReceive(d) \/ ConfirmStep(d))
  BY <1>1, <1>3, ConfirmShape DEF HandlerShape
<1>4. CASE \E h \in Webhooks : HookStore(h) \/ HookDuplicate(h) \/ HookStep(h)
  BY <1>1, <1>4, HookShape, OrderLifecycleAssumption DEF HandlerShape
<1>5. CASE \E p \in Handlers : HandlerVictim(p)
  <2>1. PICK p \in Handlers : Rollback(p, "other")
    BY <1>5 DEF HandlerVictim
  <2> QED
    BY <1>1, <2>1, RollbackShape DEF HandlerShape
<1>6. CASE Crash
  BY <1>1, <1>6, IdleFinishes DEF Crash, Finishes
<1>7. CASE (\E j \in Jobs : JobStep(j) \/ JobVictim(j)) \/ (\E o \in Orders : Lapse(o))
  BY <1>7 DEF JobStep, JobRead, JobLockReservation, JobExpire, JobLockOrder, JobEmit,
     JobCommit, JobEventTaken, JobVictim, Lapse
<1>8. CASE UNCHANGED vars
  BY <1>8 DEF vars
<1> QED
  BY <1>2, <1>3, <1>4, <1>5, <1>6, <1>7, <1>8 DEF Next

\* Only a committed confirm queues a mail, that of its order.
LEMMA Queueing ==
    ASSUME [Next]_vars
    PROVE  \/ UNCHANGED outbox
           \/ \E c \in Confirmers : At(c, "committed") /\ outbox' = outbox \cup {OrderOf(c)}
<1>1. ASSUME NEW c \in Confirmers, ConfirmReceive(c) \/ ConfirmStep(c)
      PROVE  \/ UNCHANGED outbox
             \/ At(c, "committed") /\ outbox' = outbox \cup {OrderOf(c)}
  BY <1>1 DEF ConfirmReceive, ConfirmStep, ConfirmRefuse, ConfirmRecordKey, ConfirmAdmit,
     ConfirmInsertPayment, ConfirmCommit, ConfirmKeyTaken, ConfirmEnqueue, UniqueKeyTaken,
     Rollback
<1>2. ASSUME NEW h \in Webhooks, HookStore(h) \/ HookDuplicate(h) \/ HookStep(h)
      PROVE  UNCHANGED outbox
  BY <1>2 DEF HookStore, HookStep, HookIgnore, HookRefuse, HookTransition, HookAdmit,
     HookNoStock, HookUnpayable, HookInsertPayment, HookCommit, HookRecordError,
     HookDuplicate, HookUnresolved, HookDeduped, UniqueKeyTaken, Rollback
<1>3. ASSUME NEW j \in Jobs, JobStep(j) \/ JobVictim(j)
      PROVE  UNCHANGED outbox
  BY <1>3 DEF JobStep, JobRead, JobLockReservation, JobExpire, JobLockOrder, JobEmit,
     JobCommit, JobEventTaken, JobVictim
<1>4. CASE (\E p \in Handlers : HandlerVictim(p)) \/ (\E o \in Orders : Lapse(o)) \/ Crash
  BY <1>4 DEF HandlerVictim, Rollback, Lapse, Crash
<1>5. CASE UNCHANGED vars
  BY <1>5 DEF vars
<1> QED
  BY <1>1, <1>2, <1>3, <1>4, <1>5 DEF Next

LEMMA MailsStep ==
    ASSUME IInv, MailsArePaidFor, [Next]_vars
    PROVE  MailsArePaidFor'
<1>1. /\ status \in [Orders -> Statuses] /\ outbox \subseteq Orders
      /\ \A c \in Confirmers : At(c, "committed") => OrderOf(c) \in Orders
  BY DEF IInv, TypeOK, RequestsOK, ConfirmOK, At
<1>2. \A o \in Orders : status[o] = "paid" => status'[o] = "paid"
  BY PaidStays
<1>3. \A o \in outbox' : status'[o] = "paid"
  BY <1>1, <1>2, Queueing DEF MailsArePaidFor
<1>4. ASSUME NEW c \in Confirmers, handler'[c].pc = "committed"
      PROVE  status'[handler'[c].order] = "paid"
  <2>1. CASE handler'[c] = handler[c]
    BY <1>1, <1>2, <1>4, <2>1 DEF MailsArePaidFor, At, OrderOf
  <2>2. c \in Handlers /\ handler \in [Handlers -> HandlerStates]
    BY DEF Handlers, IInv, TypeOK
  <2>3. CASE ConfirmCommit(c) \/ (ConfirmRecordKey(c) /\ Replayed(c))
    <3>1. OrderOf(c) \in Orders
      BY <2>3 DEF ConfirmCommit, ConfirmRecordKey, IInv, RequestsOK, ConfirmOK, At
    <3>2. Goto(c, "committed")
      BY <2>3 DEF ConfirmCommit, ConfirmRecordKey, Goto
    <3>3. handler'[c].order = OrderOf(c)
      BY <2>2, <3>2, GotoMoves DEF IInv, Moves, Pcs, OrderOf
    <3>4. status'[OrderOf(c)] = "paid"
      BY <1>1, <2>3, <3>1 DEF ConfirmCommit, ConfirmRecordKey, Replayed
    <3> QED
      BY <3>3, <3>4
  <2> QED
    BY <1>4, <2>1, <2>3, Committing
<1> QED
  BY <1>3, <1>4 DEF MailsArePaidFor, At, OrderOf

\* A confirmation is queued only for an order that is paid and, StatusForward says,
\* stays so, which is what Notifications takes of the API: the worker never finds
\* the order of an automatic mail unpaid (server.ts:898-904,
\* notificationsWorker.ts:51).
THEOREM QueuedOrdersArePaid == Spec => []MailsArePaidFor
<1>1. Init => MailsArePaidFor
  BY DEF Init, MailsArePaidFor, At, Idle, Handlers
<1>2. IInv /\ MailsArePaidFor /\ [Next]_vars => MailsArePaidFor'
  BY MailsStep
<1> QED
  BY <1>1, <1>2, InvariantHolds, PTL DEF Spec
-------------------------------------------------------------------------------
(* The sale                                                                 *)

\* What has become of the tickets an order has reserved, as Sales has it.
fate == [o \in Orders |->
    CASE status[o] \in {"pending", "reserved"} -> "reserved"
      [] status[o] = "paid" -> "paid"
      [] OTHER -> "expired"]

SettledStays ==
    [][\A o \in Orders : fate[o] # "reserved" => fate'[o] = fate[o]]_vars

\* Of each order this is the sale Inventory and the dashboard are part of: it is
\* reserved, then either paid or never sold, and that is final, whatever statuses
\* a late payment or a refund takes it through after (applyPaymentEvent.ts:67-128,
\* releaseExpiredReservations.ts:15).
THEOREM FatesAreFinal == Spec => SettledStays
<1> DEFINE Stay == \A o \in Orders : fate[o] # "reserved" => fate'[o] = fate[o]
<1>1. ASSUME IInv, [Next]_vars PROVE Stay
  <2> SUFFICES ASSUME NEW o \in Orders, fate[o] # "reserved"
               PROVE  fate'[o] = fate[o]
    OBVIOUS
  <2>1. status \in [Orders -> Statuses] /\ status[o] \notin {"pending", "reserved"}
    BY <1>1 DEF IInv, TypeOK, fate
  <2>2. status[o] = "paid" <=> status'[o] = "paid"
    <3>1. CASE Contract!Next
      BY <2>1, <3>1 DEF Contract!Next, Contract!Pay, Contract!PayLate, Contract!PayCanceled,
         Contract!Fail, Contract!Refund, Contract!Lapse, Contract!Expire, Contract!Become
    <3>2. CASE UNCHANGED contractVars
      BY <3>2 DEF contractVars
    <3> QED
      BY <1>1, <3>1, <3>2, StepsKeepContract
  <2>3. status'[o] \notin {"pending", "reserved"}
    <3>1. CASE Contract!Next
      BY <2>1, <3>1 DEF Contract!Next, Contract!Pay, Contract!PayLate, Contract!PayCanceled,
         Contract!Fail, Contract!Refund, Contract!Lapse, Contract!Expire, Contract!Become
    <3>2. CASE UNCHANGED contractVars
      BY <2>1, <3>2 DEF contractVars
    <3> QED
      BY <1>1, <3>1, <3>2, StepsKeepContract
  <2> QED
    BY <2>1, <2>2, <2>3 DEF fate
<1>2. IInv /\ [Next]_vars => [Stay]_vars
  BY <1>1
<1> QED
  BY <1>2, InvariantHolds, PTL DEF Spec, SettledStays
===============================================================================
