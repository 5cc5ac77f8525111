------------------------- MODULE OrderInvariantProofs -------------------------
(***************************************************************************)
(* That IInv of OrderInvariant is an invariant of OrderLifecycle, for any  *)
(* number of orders, requests, events and runs of the job, in three        *)
(* layers: types, with the arguments of the requests; the locks; what the  *)
(* transactions and the runs of the job know, together with what holds of  *)
(* the orders.                                                             *)
(***************************************************************************)
EXTENDS OrderInvariant, TLAPS

-------------------------------------------------------------------------------
(* What the pieces the actions are made of do to the state.                 *)

Reasons == {"no", "unmatched", "terminal_guard", "unsupported_event_type"}
Pcs == {"idle", "begun", "admitted", "paying", "committed", "failing"}

\* Handler p goes to pc and keeps its request; the others are as they were.
Moves(p, pc) ==
    /\ handler' \in [Handlers -> HandlerStates]
    /\ handler'[p].pc = pc
    /\ handler'[p].order = handler[p].order
    /\ handler'[p].pay = handler[p].pay
    /\ handler'[p].tag = handler[p].tag
    /\ \A q \in Handlers \ {p} : handler'[q] = handler[q]

\* Handler p has answered; the others are as they were.
Finishes(p) ==
    /\ handler' \in [Handlers -> HandlerStates]
    /\ handler'[p].pc = "idle"
    /\ \A q \in Handlers \ {p} : handler'[q] = handler[q]

\* The rows of payment_events stay and keep what was delivered.
RowsKept ==
    /\ event' \in [Events -> EventRows \cup {None}]
    /\ \A e \in Events : event[e] \in EventRows =>
        /\ event'[e] \in EventRows
        /\ event'[e].order = event[e].order
        /\ event'[e].ref = event[e].ref
        /\ event'[e].type = event[e].type

LEMMA GotoMoves ==
    ASSUME TypeOK, NEW p \in Handlers, NEW pc \in Pcs, Goto(p, pc)
    PROVE  Moves(p, pc)
<1>1. handler \in [Handlers -> HandlerStates]
  BY DEF TypeOK
<1>2. [handler[p] EXCEPT !.pc = pc] \in HandlerStates
  BY <1>1 DEF HandlerStates, Pcs
<1>3. handler' = [handler EXCEPT ![p] = [handler[p] EXCEPT !.pc = pc]]
  BY <1>1 DEF Goto
<1>4. handler[p] \in HandlerStates
  BY <1>1
<1> QED
  BY <1>1, <1>2, <1>3, <1>4 DEF Moves, HandlerStates

LEMMA IdleFinishes ==
    ASSUME TypeOK, NEW p \in Handlers, handler' = [handler EXCEPT ![p] = Idle]
    PROVE  Finishes(p)
BY DEF TypeOK, Finishes, Idle, HandlerStates

LEMMA UnlockTypes ==
    ASSUME TypeOK, NEW p, Unlock(p)
    PROVE  /\ rowLock' \in [Orders -> Handlers \cup Jobs \cup {None}]
           /\ \A o \in Orders : rowLock[o] # p => rowLock'[o] = rowLock[o]
           /\ \A o \in Orders : rowLock[o] = p => rowLock'[o] = None
BY DEF TypeOK, Unlock

\* A transaction that fails changes nothing but its handler and its lock.
LEMMA RollbackMoves ==
    ASSUME TypeOK, NEW p \in Handlers, NEW error \in {"identity", "reference", "other"},
           Rollback(p, error)
    PROVE  /\ p \in Confirmers => Finishes(p)
           /\ p \notin Confirmers => Moves(p, "failing")
           /\ Unlock(p)
           /\ UNCHANGED <<dbVars, due, outbox, resLock, job, crashes>>
<1>1. handler \in [Handlers -> HandlerStates]
  BY DEF TypeOK
<1>2. CASE p \in Confirmers
  <2>1. handler' = [handler EXCEPT ![p] = Idle]
    BY <1>1, <1>2 DEF Rollback
  <2> QED
    BY <1>2, <2>1, IdleFinishes DEF Rollback
<1>3. CASE p \notin Confirmers
  <2> DEFINE new == [handler[p] EXCEPT !.pc = "failing", !.error = error]
  <2>1. handler[p] \in HandlerStates
    BY <1>1
  <2>2. new \in HandlerStates /\ new.pc = "failing" /\ new.order = handler[p].order
          /\ new.pay = handler[p].pay /\ new.tag = handler[p].tag
    BY <2>1 DEF HandlerStates
  <2>3. handler' = [handler EXCEPT ![p] = new]
    BY <1>1, <1>3 DEF Rollback
  <2> HIDE DEF new
  <2> QED
    BY <1>1, <1>3, <2>2, <2>3 DEF Rollback, Moves
<1> QED
  BY <1>2, <1>3

LEMMA MarkKeepsRows ==
    ASSUME TypeOK, NEW h \in Handlers, handler[h].tag \in Events,
           event[handler[h].tag] \in EventRows,
           NEW reason \in Reasons,
           markEventProcessed(h, reason)
    PROVE  RowsKept
<1> DEFINE e == handler[h].tag
           new == [event[e] EXCEPT !.processed = TRUE, !.ignored = reason, !.error = "none"]
<1>1. event \in [Events -> EventRows \cup {None}] /\ e \in Events
  BY DEF TypeOK
<1>2. new \in EventRows /\ new.order = event[e].order /\ new.ref = event[e].ref
        /\ new.type = event[e].type
  BY DEF EventRows, Reasons
<1>3. event' = [event EXCEPT ![e] = new]
  BY <1>1 DEF markEventProcessed
<1> HIDE DEF new, e
<1> QED
  BY <1>1, <1>2, <1>3 DEF RowsKept

LEMMA SameRows ==
    ASSUME TypeOK, UNCHANGED event
    PROVE  RowsKept
BY DEF TypeOK, RowsKept

\* RequestsOK only depends on the handlers and on what was delivered.
LEMMA OthersKeepRequests ==
    ASSUME TypeOK, RequestsOK, RowsKept
    PROVE  /\ \A c \in Confirmers : handler'[c] = handler[c] => ConfirmOK(c)'
           /\ \A h \in Webhooks : handler'[h] = handler[h] => HookOK(h)'
<1>1. ASSUME NEW c \in Confirmers, handler'[c] = handler[c] PROVE ConfirmOK(c)'
  BY <1>1 DEF RequestsOK, ConfirmOK, At, OrderOf, PayOf
<1>2. ASSUME NEW h \in Webhooks, handler'[h] = handler[h] PROVE HookOK(h)'
  BY <1>2 DEF RequestsOK, HookOK, At, OrderOf, PayOf, EventOf, Target, RowsKept
<1> QED
  BY <1>1, <1>2

LEMMA FinishKeepsRequests ==
    ASSUME TypeOK, RequestsOK, RowsKept, NEW p \in Handlers, Finishes(p)
    PROVE  RequestsOK'
BY OthersKeepRequests DEF Handlers, Finishes, RequestsOK, ConfirmOK, HookOK, At

LEMMA MoveKeepsRequests ==
    ASSUME TypeOK, RequestsOK, RowsKept, NEW p \in Handlers, NEW pc \in Pcs, Moves(p, pc),
           handler[p].pc \notin {"idle", "duplicate"},
           p \in Confirmers => pc # "failing",
           p \in Webhooks => pc # "committed",
           p \in Webhooks /\ pc \in {"admitted", "paying"} =>
              OrderOf(p) \in Orders /\ PayOf(p) \in PayKeys /\ Target(p) = "paid"
    PROVE  RequestsOK'
<1>1. \A c \in Confirmers \ {p} : ConfirmOK(c)'
  BY OthersKeepRequests DEF Moves, Handlers
<1>2. \A h \in Webhooks \ {p} : HookOK(h)'
  BY OthersKeepRequests DEF Moves, Handlers
<1>3. p \in Confirmers => ConfirmOK(p)'
  BY DEF RequestsOK, ConfirmOK, Moves, At, OrderOf, PayOf, Pcs
<1>4. p \in Webhooks => HookOK(p)'
  BY DEF RequestsOK, HookOK, Moves, At, OrderOf, PayOf, EventOf, Target, RowsKept
<1> QED
  BY <1>1, <1>2, <1>3, <1>4 DEF RequestsOK

-------------------------------------------------------------------------------
(* /checkout/confirm keeps the types.                                       *)

LEMMA ConfirmReceiveTypes ==
    ASSUME TypeOK, RequestsOK, NEW c \in Confirmers, ConfirmReceive(c)
    PROVE  TypeOK' /\ RequestsOK'
<1> USE OrderLifecycleAssumption DEF Handlers, Events, PayKeys
<1>1. PICK o \in Orders, r \in Refs, k \in Keys : Begin(c, o, <<Mock, r>>, k)
  BY DEF ConfirmReceive
<1> DEFINE new == [pc |-> "begun", order |-> o, pay |-> <<Mock, r>>, tag |-> k,
                   error |-> "none"]
<1>2. new \in HandlerStates
  BY DEF HandlerStates
<1>3. handler' = [handler EXCEPT ![c] = new]
  BY <1>1 DEF Begin
<1>4. RowsKept
  BY SameRows DEF ConfirmReceive, dbVars
<1>5. new.pc = "begun" /\ new.order \in Orders /\ new.pay \in {Mock} \X Refs /\ new.tag \in Keys
  OBVIOUS
<1> HIDE DEF new
<1>6. handler' \in [Handlers -> HandlerStates] /\ handler'[c] = new
        /\ \A p \in Handlers \ {c} : handler'[p] = handler[p]
  BY <1>2, <1>3 DEF TypeOK
<1>7. TypeOK'
  BY <1>6 DEF TypeOK, ConfirmReceive, dbVars
<1>8. ConfirmOK(c)'
  BY <1>5, <1>6 DEF ConfirmOK, At, OrderOf, PayOf
<1> QED
  BY <1>4, <1>6, <1>7, <1>8, OthersKeepRequests DEF RequestsOK

\* Steps that only move the request and maybe its row lock.
LEMMA QuietTypes ==
    ASSUME TypeOK, RequestsOK, NEW p \in Handlers,
           UNCHANGED <<dbVars, due, outbox, resLock, job, crashes>>,
           rowLock' \in [Orders -> Handlers \cup Jobs \cup {None}],
           \/ Finishes(p)
           \/ \E pc \in Pcs :
                /\ Moves(p, pc) /\ handler[p].pc \notin {"idle", "duplicate"}
                /\ p \in Confirmers => pc # "failing"
                /\ p \in Webhooks => pc # "committed"
                /\ p \in Webhooks /\ pc \in {"admitted", "paying"} =>
                     OrderOf(p) \in Orders /\ PayOf(p) \in PayKeys /\ Target(p) = "paid"
    PROVE  TypeOK' /\ RequestsOK'
<1>1. handler' \in [Handlers -> HandlerStates]
  BY DEF Moves, Finishes
<1>2. TypeOK'
  BY <1>1 DEF TypeOK, dbVars
<1>3. RowsKept
  BY SameRows DEF dbVars
<1> QED
  BY <1>2, <1>3, FinishKeepsRequests, MoveKeepsRequests

LEMMA LockTypes ==
    ASSUME TypeOK, NEW p \in Handlers, Lock(p)
    PROVE  rowLock' \in [Orders -> Handlers \cup Jobs \cup {None}]
BY DEF TypeOK, Lock

LEMMA RollbackTypes ==
    ASSUME TypeOK, RequestsOK, NEW p \in Handlers,
           handler[p].pc \notin {"idle", "duplicate"},
           NEW error \in {"identity", "reference", "other"}, Rollback(p, error)
    PROVE  TypeOK' /\ RequestsOK'
<1>1. /\ Finishes(p) \/ (p \notin Confirmers /\ Moves(p, "failing"))
      /\ Unlock(p)
      /\ UNCHANGED <<dbVars, due, outbox, resLock, job, crashes>>
  BY RollbackMoves
<1>2. rowLock' \in [Orders -> Handlers \cup Jobs \cup {None}]
  BY <1>1, UnlockTypes
<1> QED
  BY <1>1, <1>2, QuietTypes DEF Pcs

\* The columns that the paid transition writes.
PaidTypes(p) ==
    /\ status' \in [Orders -> Statuses]
    /\ payment' \in [PayKeys -> Orders \cup {None}]
    /\ tickets' \in [Orders -> Nat]
    /\ emitted' \in SUBSET (EventNames \X Orders)
    /\ held' \in SUBSET Orders

LEMMA PaidStepTypes ==
    ASSUME TypeOK, NEW p \in Handlers, OrderOf(p) \in Orders,
           status' = [status EXCEPT ![OrderOf(p)] = "paid"],
           InsertPayment(p),
           Emit({"ORDER_PAID"} \cup IssueNames(OrderOf(p)), OrderOf(p)),
           Issue(OrderOf(p)), Release(OrderOf(p))
    PROVE  PaidTypes(p)
<1>1. status' \in [Orders -> Statuses]
  BY DEF TypeOK, Statuses
<1>2. payment' \in [PayKeys -> Orders \cup {None}]
  BY DEF TypeOK, InsertPayment
<1>3. tickets' \in [Orders -> Nat]
  BY DEF TypeOK, Issue
<1>4. emitted' \in SUBSET (EventNames \X Orders)
  BY DEF TypeOK, Emit, IssueNames, EventNames
<1>5. held' \in SUBSET Orders
  BY DEF TypeOK, Release
<1> QED
  BY <1>1, <1>2, <1>3, <1>4, <1>5 DEF PaidTypes

LEMMA ConfirmStepTypes ==
    ASSUME TypeOK, RequestsOK, NEW c \in Confirmers, ConfirmStep(c)
    PROVE  TypeOK' /\ RequestsOK'
<1> USE OrderLifecycleAssumption DEF Handlers, Events, PayKeys
<1>a. c \in Handlers /\ c \notin Webhooks
  OBVIOUS
<1>b. ~At(c, "idle") => OrderOf(c) \in Orders /\ handler[c].tag \in Keys
        /\ PayOf(c) \in PayKeys /\ PayOf(c)[2] \in Refs
        /\ handler[c].pc \notin {"idle", "duplicate"}
  BY DEF RequestsOK, ConfirmOK, At
<1>1. CASE ConfirmRefuse(c)
  BY <1>1, <1>a, RollbackTypes DEF ConfirmRefuse, At
<1>2. CASE ConfirmRecordKey(c)
  <2>1. ~At(c, "idle")
    BY <1>2 DEF ConfirmRecordKey, At
  <2>2. confirmKey' \in [Keys -> (Orders \X Refs) \cup {None}]
    BY <1>2, <1>b, <2>1 DEF ConfirmRecordKey, TypeOK
  <2>3. Finishes(c) \/ Moves(c, "committed")
    <3>1. CASE Replayed(c)
      BY <1>2, <1>a, <3>1, GotoMoves DEF ConfirmRecordKey, Goto, Pcs
    <3>2. CASE ~Replayed(c)
      BY <1>2, <1>a, <3>2, IdleFinishes DEF ConfirmRecordKey
    <3> QED
      BY <3>1, <3>2
  <2>4. handler' \in [Handlers -> HandlerStates]
    BY <2>3 DEF Moves, Finishes
  <2>5. TypeOK'
    BY <1>2, <2>2, <2>4 DEF ConfirmRecordKey, TypeOK
  <2>6. RowsKept
    BY <1>2, SameRows DEF ConfirmRecordKey
  <2> QED
    BY <1>a, <1>b, <2>1, <2>3, <2>5, <2>6, FinishKeepsRequests, MoveKeepsRequests DEF Pcs
<1>3. CASE ConfirmAdmit(c)
  <2>1. Moves(c, "admitted") /\ ~At(c, "idle")
    BY <1>3, <1>a, GotoMoves DEF ConfirmAdmit, Pcs, At
  <2> QED
    BY <1>3, <1>a, <1>b, <2>1, LockTypes, QuietTypes DEF ConfirmAdmit, Pcs
<1>4. CASE ConfirmInsertPayment(c)
  <2>1. Moves(c, "paying") /\ ~At(c, "idle")
    BY <1>4, <1>a, GotoMoves DEF ConfirmInsertPayment, Pcs, At
  <2>2. UNCHANGED <<dbVars, due, outbox, resLock, job, crashes>> /\ UNCHANGED rowLock
    BY <1>4 DEF ConfirmInsertPayment
  <2>3. rowLock' \in [Orders -> Handlers \cup Jobs \cup {None}]
    BY <2>2 DEF TypeOK
  <2> QED
    BY <1>a, <1>b, <2>1, <2>2, <2>3, QuietTypes DEF Pcs
<1>5. CASE ConfirmCommit(c)
  <2>1. ~At(c, "idle")
    BY <1>5 DEF ConfirmCommit, At
  <2>2. Moves(c, "committed")
    BY <1>5, <1>a, GotoMoves DEF ConfirmCommit, Pcs
  <2>3. rowLock' \in [Orders -> Handlers \cup Jobs \cup {None}]
    BY <1>5, UnlockTypes DEF ConfirmCommit
  <2>4. PaidTypes(c)
    BY <1>5, <1>a, <1>b, <2>1, PaidStepTypes DEF ConfirmCommit
  <2>5. confirmKey' \in [Keys -> (Orders \X Refs) \cup {None}]
    BY <1>5, <1>b, <2>1 DEF ConfirmCommit, TypeOK
  <2>6. TypeOK'
    BY <1>5, <2>2, <2>3, <2>4, <2>5 DEF ConfirmCommit, TypeOK, Moves, PaidTypes
  <2>7. RowsKept
    BY <1>5, SameRows DEF ConfirmCommit
  <2> QED
    BY <1>a, <1>b, <2>1, <2>2, <2>6, <2>7, MoveKeepsRequests DEF Pcs
<1>6. CASE ConfirmKeyTaken(c)
  BY <1>6, <1>a, RollbackTypes DEF ConfirmKeyTaken, At
<1>7. CASE ConfirmEnqueue(c)
  <2>1. ~At(c, "idle") /\ Finishes(c)
    BY <1>7, <1>a, IdleFinishes DEF ConfirmEnqueue, At
  <2>2. outbox' \in SUBSET Orders
    BY <1>7, <1>b, <2>1 DEF ConfirmEnqueue, TypeOK
  <2>3. TypeOK'
    BY <1>7, <2>1, <2>2 DEF ConfirmEnqueue, TypeOK, Finishes, dbVars
  <2>4. RowsKept
    BY <1>7, SameRows DEF ConfirmEnqueue, dbVars
  <2> QED
    BY <1>a, <2>1, <2>3, <2>4, FinishKeepsRequests
<1>8. CASE UniqueKeyTaken(c)
  BY <1>8, <1>a, RollbackTypes DEF UniqueKeyTaken, At
<1> QED
  BY <1>1, <1>2, <1>3, <1>4, <1>5, <1>6, <1>7, <1>8 DEF ConfirmStep
-------------------------------------------------------------------------------
(* The webhook keeps the types.                                             *)

LEMMA HookStoreTypes ==
    ASSUME TypeOK, RequestsOK, NEW h \in Webhooks, HookStore(h)
    PROVE  TypeOK' /\ RequestsOK'
<1> USE OrderLifecycleAssumption DEF Handlers, Events, PayKeys
<1>1. PICK e \in Events, o \in Orders \cup {None}, r \in Refs \cup {None}, t \in EventTypes :
        /\ event[e] = None
        /\ event' = [event EXCEPT ![e] =
                [order |-> o, ref |-> r, type |-> t, processed |-> FALSE,
                 ignored |-> "no", error |-> "none"]]
        /\ Begin(h, o, <<e[1], r>>, e)
  BY DEF HookStore
<1> DEFINE new == [pc |-> "begun", order |-> o, pay |-> <<e[1], r>>, tag |-> e,
                   error |-> "none"]
           row == [order |-> o, ref |-> r, type |-> t, processed |-> FALSE,
                   ignored |-> "no", error |-> "none"]
<1>2. new \in HandlerStates /\ row \in EventRows
  BY DEF HandlerStates, EventRows
<1>4. handler' = [handler EXCEPT ![h] = new] /\ event' = [event EXCEPT ![e] = row]
  BY <1>1 DEF Begin
<1>5. new.pc = "begun" /\ new.order = row.order /\ new.pay = <<e[1], row.ref>> /\ new.tag = e
  OBVIOUS
<1> HIDE DEF new, row
<1>6. handler' \in [Handlers -> HandlerStates] /\ handler'[h] = new
        /\ \A p \in Handlers \ {h} : handler'[p] = handler[p]
  BY <1>2, <1>4 DEF TypeOK
<1>7. event' \in [Events -> EventRows \cup {None}] /\ event'[e] = row
        /\ \A f \in Events \ {e} : event'[f] = event[f]
  BY <1>2, <1>4 DEF TypeOK
<1>8. TypeOK'
  BY <1>6, <1>7 DEF TypeOK, HookStore
<1>9. HookOK(h)'
  BY <1>2, <1>5, <1>6, <1>7 DEF HookOK, At, OrderOf, PayOf, EventOf
<1>10. \A p \in Webhooks \ {h} : HookOK(p)'
  <2> SUFFICES ASSUME NEW p \in Webhooks \ {h} PROVE HookOK(p)'
    OBVIOUS
  <2>1. CASE At(p, "idle")
    BY <1>6, <2>1 DEF HookOK, At
  <2>2. CASE ~At(p, "idle")
    <3>1. handler[p].tag \in Events /\ event[handler[p].tag] \in EventRows
      BY <2>2 DEF RequestsOK, HookOK, EventOf
    <3>2. event'[handler[p].tag] = event[handler[p].tag]
      BY <1>1, <1>7, <3>1, NoneIsNoRow
    <3> QED
      BY <1>6, <2>2, <3>1, <3>2 DEF RequestsOK, HookOK, At, OrderOf, PayOf, EventOf, Target
  <2> QED
    BY <2>1, <2>2
<1>11. \A c \in Confirmers : ConfirmOK(c)'
  BY <1>6 DEF RequestsOK, ConfirmOK, At, OrderOf, PayOf
<1> QED
  BY <1>8, <1>9, <1>10, <1>11 DEF RequestsOK

LEMMA HookDuplicateTypes ==
    ASSUME TypeOK, RequestsOK, NEW h \in Webhooks, HookDuplicate(h)
    PROVE  TypeOK' /\ RequestsOK'
<1> USE OrderLifecycleAssumption DEF Handlers, Events, PayKeys
<1>1. PICK e \in Events :
        event[e] # None /\ handler' = [handler EXCEPT ![h] = [Idle EXCEPT !.pc = "duplicate", !.tag = e]]
  BY DEF HookDuplicate
<1> DEFINE new == [Idle EXCEPT !.pc = "duplicate", !.tag = e]
<1>2. new \in HandlerStates /\ new.pc = "duplicate" /\ new.tag = e
  BY DEF HandlerStates, Idle
<1>3. handler' = [handler EXCEPT ![h] = new]
  BY <1>1
<1> HIDE DEF new
<1>4. handler' \in [Handlers -> HandlerStates] /\ handler'[h] = new
        /\ \A p \in Handlers \ {h} : handler'[p] = handler[p]
  BY <1>2, <1>3 DEF TypeOK
<1>5. RowsKept /\ event' = event
  BY SameRows DEF HookDuplicate, dbVars
<1>6. TypeOK'
  BY <1>4 DEF TypeOK, HookDuplicate, dbVars
<1>7. HookOK(h)'
  BY <1>1, <1>2, <1>4, <1>5 DEF HookOK, At, EventOf, TypeOK
<1> QED
  BY <1>4, <1>5, <1>6, <1>7, OthersKeepRequests DEF RequestsOK

LEMMA MarkTypes ==
    ASSUME TypeOK, RequestsOK, NEW h \in Webhooks, ~At(h, "idle"),
           NEW reason \in Reasons,
           markEventProcessed(h, reason), handler' = [handler EXCEPT ![h] = Idle]
    PROVE  /\ RowsKept /\ Finishes(h) /\ RequestsOK'
           /\ handler' \in [Handlers -> HandlerStates]
           /\ event' \in [Events -> EventRows \cup {None}]
<1>1. h \in Handlers /\ handler[h].tag \in Events /\ event[handler[h].tag] \in EventRows
  BY DEF Handlers, RequestsOK, HookOK, EventOf
<1>2. RowsKept /\ Finishes(h)
  BY <1>1, MarkKeepsRows, IdleFinishes
<1> QED
  BY <1>1, <1>2, FinishKeepsRequests DEF RowsKept, Finishes

LEMMA HookStepTypes ==
    ASSUME TypeOK, RequestsOK, NEW h \in Webhooks, HookStep(h)
    PROVE  TypeOK' /\ RequestsOK'
<1> USE OrderLifecycleAssumption DEF Handlers, Events, PayKeys
<1>a. h \in Handlers /\ h \notin Confirmers
  OBVIOUS
<1>b. /\ handler \in [Handlers -> HandlerStates]
      /\ OrderOf(h) \in Orders \cup {None}
      /\ ~At(h, "idle") => EventOf(h) \in EventRows /\ handler[h].tag \in Events
      /\ At(h, "begun") => /\ EventOf(h).order = OrderOf(h)
                           /\ PayOf(h) = <<handler[h].tag[1], EventOf(h).ref>>
  BY DEF TypeOK, HandlerStates, RequestsOK, HookOK, OrderOf, At
<1>c. handler[h].pc \in {"admitted", "paying"} =>
        OrderOf(h) \in Orders /\ PayOf(h) \in PayKeys /\ Target(h) = "paid"
  BY DEF RequestsOK, HookOK, At
<1>1. CASE HookIgnore(h)
  <2>1. PICK reason \in Reasons :
          reason = IgnoreReason(h)
    BY DEF IgnoreReason, Reasons
  <2>2. /\ RequestsOK'
        /\ handler' \in [Handlers -> HandlerStates]
        /\ event' \in [Events -> EventRows \cup {None}]
    <3>1. markEventProcessed(h, reason)
      BY <1>1, <2>1 DEF HookIgnore
    <3>2. ~At(h, "idle") /\ handler' = [handler EXCEPT ![h] = Idle]
      BY <1>1 DEF HookIgnore, Reached, At
    <3> QED
      BY <3>1, <3>2, MarkTypes
  <2> QED
    BY <1>1, <2>2 DEF HookIgnore, TypeOK
<1>2. CASE HookRefuse(h)
  BY <1>2, <1>a, RollbackTypes DEF HookRefuse, Reached, At
<1>3. CASE HookTransition(h)
  <2>1. ~At(h, "idle") /\ OrderOf(h) \in Orders
    BY <1>3, <1>b DEF HookTransition, Reached, At, IgnoreReason
  <2>2. /\ RequestsOK'
        /\ handler' \in [Handlers -> HandlerStates]
        /\ event' \in [Events -> EventRows \cup {None}]
    BY <1>3, <2>1, MarkTypes DEF Reasons, HookTransition
  <2>3. status' \in [Orders -> Statuses]
    BY <1>3, <2>1 DEF HookTransition, TypeOK, Statuses
  <2>4. emitted' \in SUBSET (EventNames \X Orders)
    BY <1>3, <2>1 DEF HookTransition, TypeOK, Emit, EventNames
  <2> QED
    BY <1>3, <2>2, <2>3, <2>4 DEF HookTransition, TypeOK
<1>4. CASE HookAdmit(h)
  <2>1. Moves(h, "admitted") /\ At(h, "begun") /\ ~At(h, "idle")
    BY <1>4, <1>a, GotoMoves DEF HookAdmit, Reached, Pcs, At
  <2>2. OrderOf(h) \in Orders /\ PayOf(h) \in PayKeys /\ Target(h) = "paid"
    BY <1>4, <1>b, <2>1 DEF HookAdmit, IgnoreReason, EventRows
  <2>3. UNCHANGED <<dbVars, due, outbox, resLock, job, crashes>> /\ Lock(h)
    BY <1>4 DEF HookAdmit
  <2> QED
    BY <1>a, <2>1, <2>2, <2>3, LockTypes, QuietTypes DEF Pcs, At
<1>5. CASE HookNoStock(h)
  <2>1. ~At(h, "idle") /\ OrderOf(h) \in Orders
    BY <1>5, <1>c DEF HookNoStock, At
  <2>2. /\ RequestsOK'
        /\ handler' \in [Handlers -> HandlerStates]
        /\ event' \in [Events -> EventRows \cup {None}]
    BY <1>5, <2>1, MarkTypes DEF Reasons, HookNoStock
  <2>3. status' \in [Orders -> Statuses]
    BY <1>5, <2>1 DEF HookNoStock, TypeOK, Statuses
  <2>4. emitted' \in SUBSET (EventNames \X Orders)
    BY <1>5, <2>1 DEF HookNoStock, TypeOK, Emit, EventNames
  <2>5. payment' \in [PayKeys -> Orders \cup {None}]
    BY <1>5, <2>1 DEF HookNoStock, TypeOK, InsertPayment
  <2>6. rowLock' \in [Orders -> Handlers \cup Jobs \cup {None}]
    BY <1>5, UnlockTypes DEF HookNoStock
  <2> QED
    BY <1>5, <2>2, <2>3, <2>4, <2>5, <2>6 DEF HookNoStock, TypeOK
<1>6. CASE HookUnpayable(h)
  <2>1. ~At(h, "idle") /\ OrderOf(h) \in Orders
    BY <1>6, <1>c DEF HookUnpayable, At
  <2>2. /\ RequestsOK'
        /\ handler' \in [Handlers -> HandlerStates]
        /\ event' \in [Events -> EventRows \cup {None}]
    BY <1>6, <2>1, MarkTypes DEF Reasons, HookUnpayable
  <2>3. payment' \in [PayKeys -> Orders \cup {None}]
    BY <1>6, <2>1 DEF HookUnpayable, TypeOK, InsertPayment
  <2>4. rowLock' \in [Orders -> Handlers \cup Jobs \cup {None}]
    BY <1>6, UnlockTypes DEF HookUnpayable
  <2> QED
    BY <1>6, <2>2, <2>3, <2>4 DEF HookUnpayable, TypeOK
<1>7. CASE HookInsertPayment(h)
  <2>1. Moves(h, "paying") /\ handler[h].pc \notin {"idle", "duplicate"}
    BY <1>7, <1>a, GotoMoves DEF HookInsertPayment, Pcs, At
  <2>2. UNCHANGED <<dbVars, due, outbox, resLock, job, crashes>> /\ UNCHANGED rowLock
    BY <1>7 DEF HookInsertPayment
  <2>3. rowLock' \in [Orders -> Handlers \cup Jobs \cup {None}]
    BY <2>2 DEF TypeOK
  <2>4. OrderOf(h) \in Orders /\ PayOf(h) \in PayKeys /\ Target(h) = "paid"
    BY <1>7, <1>c DEF HookInsertPayment, At
  <2> QED
    BY <1>a, <2>1, <2>2, <2>3, <2>4, QuietTypes DEF Pcs
<1>8. CASE HookCommit(h)
  <2>1. ~At(h, "idle") /\ OrderOf(h) \in Orders
    BY <1>8, <1>c DEF HookCommit, At
  <2>2. /\ RequestsOK'
        /\ handler' \in [Handlers -> HandlerStates]
        /\ event' \in [Events -> EventRows \cup {None}]
    BY <1>8, <2>1, MarkTypes DEF Reasons, HookCommit
  <2>3. PaidTypes(h)
    BY <1>8, <1>a, <2>1, PaidStepTypes DEF HookCommit
  <2>4. rowLock' \in [Orders -> Handlers \cup Jobs \cup {None}]
    BY <1>8, UnlockTypes DEF HookCommit
  <2> QED
    BY <1>8, <2>2, <2>3, <2>4 DEF HookCommit, TypeOK, PaidTypes
<1>9. CASE HookRecordError(h)
  <2>1. ~At(h, "idle") /\ Finishes(h)
    BY <1>9, <1>a, IdleFinishes DEF HookRecordError, At
  <2> DEFINE e   == handler[h].tag
             new == [event[e] EXCEPT !.error = handler[h].error]
  <2>2. event' = [event EXCEPT ![e] = new]
    BY <1>9, <1>b, <2>1 DEF HookRecordError, TypeOK
  <2>3. handler[h].error \in {"none", "identity", "reference", "other"}
    BY <1>a, <1>b DEF HandlerStates
  <2>4. new \in EventRows /\ new.order = event[e].order /\ new.ref = event[e].ref
          /\ new.type = event[e].type
    BY <1>b, <2>1, <2>3 DEF EventRows, EventOf
  <2>5. e \in Events
    BY <1>b, <2>1
  <2> HIDE DEF e, new
  <2>6. RowsKept
    BY <2>2, <2>4, <2>5 DEF TypeOK, RowsKept
  <2>7. TypeOK'
    BY <1>9, <2>1, <2>6 DEF HookRecordError, TypeOK, RowsKept, Finishes
  <2> QED
    BY <1>a, <2>1, <2>6, <2>7, FinishKeepsRequests
<1>10. CASE UniqueKeyTaken(h)
  BY <1>10, <1>a, RollbackTypes DEF UniqueKeyTaken, At
<1>11. CASE HookUnresolved(h) \/ HookDeduped(h)
  <2>1. Finishes(h) /\ UNCHANGED <<dbVars, due, outbox, rowLock, resLock, job, crashes>>
    BY <1>11, <1>a, IdleFinishes DEF HookUnresolved, HookDeduped
  <2> QED
    BY <1>a, <2>1, QuietTypes DEF TypeOK
<1> QED
  BY <1>1, <1>2, <1>3, <1>4, <1>5, <1>6, <1>7, <1>8, <1>9, <1>10, <1>11 DEF HookStep
-------------------------------------------------------------------------------
(* The job, the deadlock detector, failures and the clock keep the types.   *)

\* RequestsOK does not speak of what the job writes.
LEMMA SameRequests ==
    ASSUME RequestsOK, UNCHANGED <<handler, event>>
    PROVE  RequestsOK'
BY DEF RequestsOK, ConfirmOK, HookOK, At, OrderOf, PayOf, EventOf, Target

LEMMA JobUnlockTypes ==
    ASSUME TypeOK, NEW j \in Jobs, JobUnlock(j)
    PROVE  /\ rowLock' \in [Orders -> Handlers \cup Jobs \cup {None}]
           /\ resLock' \in [Orders -> Jobs \cup {None}]
           /\ job' \in [Jobs -> JobStates]
<1>1. IdleJob \in JobStates
  BY DEF IdleJob, JobStates
<1> QED
  BY <1>1, UnlockTypes DEF JobUnlock, TypeOK

LEMMA JobStepTypes ==
    ASSUME TypeOK, RequestsOK, NEW j \in Jobs, JobStep(j) \/ JobVictim(j)
    PROVE  TypeOK' /\ RequestsOK'
<1>a. job \in [Jobs -> JobStates] /\ job[j] \in JobStates
  BY DEF TypeOK
<1>1. CASE JobRead(j)
  <2> DEFINE now == {o \in Orders : due[o] = "past"}
             new == [pc |-> "releasing", now |-> now,
                     list |-> {o \in now : status[o] = "reserved"},
                     todo |-> DueRows(now), mine |-> {}, sent |-> {}]
  <2>1. new \in JobStates
    BY DEF JobStates, DueRows
  <2>2. job' = [job EXCEPT ![j] = new]
    BY <1>1 DEF JobRead
  <2> HIDE DEF new
  <2>3. job' \in [Jobs -> JobStates]
    BY <1>a, <2>1, <2>2
  <2> QED
    BY <1>1, <2>3, SameRequests DEF JobRead, TypeOK, dbVars
<1>2. CASE JobExpire(j)
  <2> DEFINE todo == {o \in job[j].now : status[o] = "reserved"}
             new == [job[j] EXCEPT !.pc = "expiring", !.todo = todo]
  <2>1. new \in JobStates
    BY <1>a DEF JobStates
  <2>2. job' = [job EXCEPT ![j] = new]
    BY <1>2, <1>a DEF JobExpire
  <2> HIDE DEF new
  <2>3. job' \in [Jobs -> JobStates]
    BY <1>a, <2>1, <2>2
  <2> QED
    BY <1>2, <2>3, SameRequests DEF JobExpire, TypeOK, dbVars
<1>6. CASE JobLockReservation(j)
  <2>1. PICK o \in job[j].todo :
          /\ resLock' = [resLock EXCEPT ![o] = IF o \in held THEN j ELSE None]
          /\ job' = [job EXCEPT ![j].todo = @ \ {o}]
    BY <1>6 DEF JobLockReservation
  <2>2. resLock' \in [Orders -> Jobs \cup {None}]
    BY <2>1 DEF TypeOK
  <2> DEFINE new == [job[j] EXCEPT !.todo = @ \ {o}]
  <2>3. new \in JobStates
    BY <1>a DEF JobStates
  <2>4. job' = [job EXCEPT ![j] = new]
    BY <1>a, <2>1
  <2> HIDE DEF new
  <2>5. job' \in [Jobs -> JobStates]
    BY <1>a, <2>3, <2>4
  <2> QED
    BY <1>6, <2>2, <2>5, SameRequests DEF JobLockReservation, TypeOK, dbVars
<1>7. CASE JobEmit(j)
  <2>1. PICK o \in job[j].list : job' = [job EXCEPT ![j].sent = @ \cup {o}]
    BY <1>7 DEF JobEmit
  <2> DEFINE new == [job[j] EXCEPT !.sent = @ \cup {o}]
  <2>2. new \in JobStates
    BY <1>a DEF JobStates
  <2>3. job' = [job EXCEPT ![j] = new]
    BY <1>a, <2>1
  <2> HIDE DEF new
  <2>4. job' \in [Jobs -> JobStates]
    BY <1>a, <2>2, <2>3
  <2> QED
    BY <1>7, <2>4, SameRequests DEF JobEmit, TypeOK, dbVars
<1>3. CASE JobLockOrder(j)
  <2>1. PICK o \in job[j].todo :
          \/ rowLock' = [rowLock EXCEPT ![o] = j]
             /\ job' = [job EXCEPT ![j].todo = @ \ {o}, ![j].mine = @ \cup {o}]
          \/ job' = [job EXCEPT ![j].todo = @ \ {o}] /\ UNCHANGED rowLock
    BY <1>3 DEF JobLockOrder
  <2>2. o \in Orders
    BY <1>a DEF JobStates
  <2>3. rowLock' \in [Orders -> Handlers \cup Jobs \cup {None}]
    BY <2>1, <2>2 DEF TypeOK
  <2> DEFINE more == [job[j] EXCEPT !.todo = @ \ {o}, !.mine = @ \cup {o}]
             less == [job[j] EXCEPT !.todo = @ \ {o}]
  <2>4. more \in JobStates /\ less \in JobStates
    BY <1>a, <2>2 DEF JobStates
  <2>5. job' = [job EXCEPT ![j] = more] \/ job' = [job EXCEPT ![j] = less]
    BY <1>a, <2>1
  <2> HIDE DEF more, less
  <2>6. job' \in [Jobs -> JobStates]
    BY <1>a, <2>4, <2>5
  <2> QED
    BY <1>3, <2>3, <2>6, SameRequests DEF JobLockOrder, TypeOK, dbVars
<1>4. CASE JobCommit(j)
  <2>1. status' \in [Orders -> Statuses]
    BY <1>4 DEF JobCommit, StatusAfter, TypeOK, Statuses
  <2>2. held' \in SUBSET Orders
    BY <1>4 DEF JobCommit, HeldAfter, TypeOK
  <2>3. emitted' \in SUBSET (EventNames \X Orders)
    <3>1. job[j].list \subseteq Orders
      BY <1>a DEF JobStates
    <3> QED
      BY <1>4, <3>1 DEF JobCommit, TypeOK, EventNames
  <2> QED
    BY <1>4, <2>1, <2>2, <2>3, JobUnlockTypes, SameRequests DEF JobCommit, TypeOK
<1>5. CASE JobEventTaken(j) \/ JobVictim(j)
  BY <1>5, JobUnlockTypes, SameRequests DEF JobEventTaken, JobVictim, TypeOK, dbVars
<1> QED
  BY <1>1, <1>2, <1>3, <1>4, <1>5, <1>6, <1>7 DEF JobStep

LEMMA HandlerVictimTypes ==
    ASSUME TypeOK, RequestsOK, NEW p \in Handlers, HandlerVictim(p)
    PROVE  TypeOK' /\ RequestsOK'
<1>1. handler[p].pc \notin {"idle", "duplicate"}
  <2>1. PICK q \in Processes : WaitsFor(p, q)
    BY DEF HandlerVictim, Deadlocked
  <2> QED
    BY <2>1, OrderLifecycleAssumption DEF WaitsFor, At, Handlers, Processes
<1> QED
  BY <1>1, RollbackTypes DEF HandlerVictim

LEMMA CrashTypes ==
    ASSUME TypeOK, RequestsOK, Crash
    PROVE  TypeOK' /\ RequestsOK'
<1>1. crashes' \in Nat
  BY DEF Crash, TypeOK
<1>2. CASE \E p \in Handlers :
            /\ ~At(p, "idle")
            /\ handler' = [handler EXCEPT ![p] = Idle]
            /\ Unlock(p)
            /\ UNCHANGED <<resLock, job>>
  <2>1. PICK p \in Handlers : Finishes(p) /\ Unlock(p) /\ UNCHANGED <<resLock, job>>
    BY <1>2, IdleFinishes
  <2>2. rowLock' \in [Orders -> Handlers \cup Jobs \cup {None}]
    BY <2>1, UnlockTypes
  <2>3. RowsKept
    BY SameRows DEF Crash, dbVars
  <2>4. TypeOK'
    BY <1>1, <2>1, <2>2 DEF Crash, TypeOK, Finishes, dbVars
  <2> QED
    BY <2>1, <2>3, <2>4, FinishKeepsRequests
<1>3. CASE \E j \in Jobs : job[j].pc # "idle" /\ JobUnlock(j) /\ UNCHANGED handler
  BY <1>1, <1>3, JobUnlockTypes, SameRequests DEF Crash, TypeOK, dbVars
<1> QED
  BY <1>2, <1>3 DEF Crash

LEMMA LapseTypes ==
    ASSUME TypeOK, RequestsOK, NEW o \in Orders, Lapse(o)
    PROVE  TypeOK' /\ RequestsOK'
BY SameRequests DEF Lapse, TypeOK, dbVars
-------------------------------------------------------------------------------
LEMMA InitTypes ==
    ASSUME Init
    PROVE  TypeOK /\ RequestsOK
<1>1. Idle \in HandlerStates /\ IdleJob \in JobStates
  BY DEF Idle, IdleJob, HandlerStates, JobStates
<1>2. TypeOK
  BY <1>1 DEF Init, TypeOK, Statuses, EventNames
<1>3. RequestsOK
  BY DEF Init, RequestsOK, ConfirmOK, HookOK, At, Idle, Handlers
<1> QED
  BY <1>2, <1>3

LEMMA NextTypes ==
    ASSUME TypeOK, RequestsOK, [Next]_vars
    PROVE  TypeOK' /\ RequestsOK'
<1>1. CASE Next
  BY <1>1, ConfirmReceiveTypes, ConfirmStepTypes, HookStoreTypes, HookDuplicateTypes,
     HookStepTypes, JobStepTypes, HandlerVictimTypes, CrashTypes, LapseTypes DEF Next
<1>2. CASE UNCHANGED vars
  BY <1>2, SameRequests DEF vars, dbVars, TypeOK
<1> QED
  BY <1>1, <1>2

\* Every variable keeps its type, and every request under way keeps the arguments
\* it came with, whatever the interleaving (server.ts:728-912, 1225-1363).
THEOREM TypeCorrect == Spec => [](TypeOK /\ RequestsOK)
<1>1. Init => TypeOK /\ RequestsOK
  BY InitTypes
<1>2. TypeOK /\ RequestsOK /\ [Next]_vars => (TypeOK /\ RequestsOK)'
  BY NextTypes
<1> QED
  BY <1>1, <1>2, PTL DEF Spec

Held == {"admitted", "paying"}

-------------------------------------------------------------------------------
(* Locks                                                                    *)

\* A step of handler p as the row locks see it: it gives its lock back, or keeps
\* what it had, or takes a free one and is admitted.
HandlerShape(p) ==
    /\ UNCHANGED <<resLock, job>>
    /\ \A q \in Handlers \ {p} : handler'[q] = handler[q]
    /\ \/ Unlock(p) /\ handler'[p].pc \notin Held
       \/ /\ UNCHANGED rowLock
          /\ handler'[p].pc \in Held <=> handler[p].pc \in Held
          /\ handler[p].pc \in Held => handler'[p].order = handler[p].order
       \/ /\ Free(OrderOf(p)) /\ Lock(p) /\ OrderOf(p) \in Orders
          /\ handler[p].pc \notin Held /\ handler'[p].pc \in Held
          /\ handler'[p].order = handler[p].order

\* A handler that holds a lock holds that of an order.
LEMMA HeldOrder ==
    ASSUME RequestsOK, NEW p \in Handlers, handler[p].pc \in Held
    PROVE  handler[p].order \in Orders /\ handler[p].pay \in PayKeys
BY OrderLifecycleAssumption DEF RequestsOK, ConfirmOK, HookOK, Handlers, Held, At, OrderOf, PayOf, PayKeys

LEMMA ShapeKeepsLocks ==
    ASSUME TypeOK, RequestsOK, LocksOK, NEW p \in Handlers, HandlerShape(p)
    PROVE  LocksOK'
<1> USE OrderLifecycleAssumption DEF Handlers, Held
<1>1. \A q \in Handlers : handler'[q].pc \in Held => rowLock'[handler'[q].order] = q
  <2> SUFFICES ASSUME NEW q \in Handlers, handler'[q].pc \in Held
               PROVE  rowLock'[handler'[q].order] = q
    OBVIOUS
  <2>1. CASE q = p
    BY <2>1 DEF HandlerShape, LocksOK, TypeOK, Lock, OrderOf
  <2>2. CASE q # p
    <3>1. handler'[q] = handler[q] /\ rowLock[handler[q].order] = q
      BY <2>2 DEF HandlerShape, LocksOK, OrderOf
    <3>2. handler[q].order \in Orders
      BY <3>1, HeldOrder
    <3>3. CASE Unlock(p)
      BY <2>2, <3>1, <3>2, <3>3 DEF Unlock, TypeOK
    <3>4. CASE UNCHANGED rowLock
      BY <3>1, <3>4
    <3>5. CASE Free(OrderOf(p)) /\ Lock(p)
      BY <3>1, <3>2, <3>5 DEF Free, Lock, TypeOK
    <3> QED
      BY <3>3, <3>4, <3>5 DEF HandlerShape
  <2> QED
    BY <2>1, <2>2
<1>2. \A j \in Jobs : \A o \in job'[j].mine : rowLock'[o] = j
  <2> SUFFICES ASSUME NEW j \in Jobs, NEW o \in job[j].mine
               PROVE  rowLock'[o] = j
    BY DEF HandlerShape
  <2>1. o \in Orders /\ rowLock[o] = j /\ j # p /\ j # None
    BY DEF TypeOK, JobStates, LocksOK
  <2> QED
    BY <2>1 DEF HandlerShape, Unlock, Free, Lock, TypeOK
<1>3. \A q \in Handlers, o \in Orders :
        rowLock'[o] = q => handler'[q].pc \in Held /\ handler'[q].order = o
  <2> SUFFICES ASSUME NEW q \in Handlers, NEW o \in Orders, rowLock'[o] = q
               PROVE  handler'[q].pc \in Held /\ handler'[q].order = o
    OBVIOUS
  <2>1. rowLock[o] = q => handler[q].pc \in Held /\ handler[q].order = o
    BY DEF LocksOK, OrderOf
  <2>2. CASE Unlock(p) /\ handler'[p].pc \notin Held
    <3>1. rowLock[o] = q /\ q # p
      BY <2>2 DEF Unlock, TypeOK
    <3> QED
      BY <2>1, <3>1 DEF HandlerShape
  <2>3. CASE /\ UNCHANGED rowLock
             /\ handler'[p].pc \in Held <=> handler[p].pc \in Held
             /\ handler[p].pc \in Held => handler'[p].order = handler[p].order
    <3>1. q = p \/ handler'[q] = handler[q]
      BY DEF HandlerShape
    <3> QED
      BY <2>1, <2>3, <3>1
  <2>4. CASE /\ Free(OrderOf(p)) /\ Lock(p) /\ OrderOf(p) \in Orders
             /\ handler[p].pc \notin Held /\ handler'[p].pc \in Held
             /\ handler'[p].order = handler[p].order
    <3>1. IF o = OrderOf(p) THEN q = p ELSE rowLock[o] = q
      BY <2>4 DEF Lock, TypeOK
    <3>2. q # p => handler'[q] = handler[q]
      BY DEF HandlerShape
    <3> QED
      BY <2>1, <2>4, <3>1, <3>2 DEF OrderOf
  <2> QED
    BY <2>2, <2>3, <2>4 DEF HandlerShape
<1>4. \A j \in Jobs, o \in Orders :
        rowLock'[o] = j => job'[j].pc = "expiring" /\ o \in job'[j].mine
  <2> SUFFICES ASSUME NEW j \in Jobs, NEW o \in Orders, rowLock'[o] = j
               PROVE  rowLock[o] = j
    BY DEF LocksOK, HandlerShape
  <2> QED
    BY DEF HandlerShape, Unlock, Lock, TypeOK
<1> QED
  BY <1>1, <1>2, <1>3, <1>4 DEF LocksOK, HandlerShape, OrderOf

LEMMA RollbackShape ==
    ASSUME TypeOK, NEW p \in Handlers, NEW error \in {"identity", "reference", "other"},
           Rollback(p, error)
    PROVE  HandlerShape(p) /\ handler'[p].pc \in {"idle", "failing"}
BY RollbackMoves DEF HandlerShape, Moves, Finishes, Held

LEMMA ConfirmShape ==
    ASSUME TypeOK, RequestsOK, LocksOK, NEW c \in Confirmers,
           ConfirmReceive(c) \/ ConfirmStep(c)
    PROVE  HandlerShape(c)
<1> USE DEF Held
<1>a. c \in Handlers
  BY DEF Handlers
<1>b. handler \in [Handlers -> HandlerStates]
  BY DEF TypeOK
<1>c. ~At(c, "idle") => OrderOf(c) \in Orders
  BY DEF RequestsOK, ConfirmOK
<1>0. CASE ConfirmReceive(c)
  BY <1>0, <1>a, <1>b DEF ConfirmReceive, Begin, At, HandlerShape
<1>1. CASE ConfirmRefuse(c)
  BY <1>1, <1>a, RollbackShape DEF ConfirmRefuse
<1>2. CASE ConfirmRecordKey(c)
  <2>1. Finishes(c) \/ Moves(c, "committed")
    <3>1. CASE Replayed(c)
      BY <1>2, <1>a, <3>1, GotoMoves DEF ConfirmRecordKey, Goto, Pcs
    <3>2. CASE ~Replayed(c)
      BY <1>2, <1>a, <3>2, IdleFinishes DEF ConfirmRecordKey
    <3> QED
      BY <3>1, <3>2
  <2> QED
    BY <1>2, <2>1 DEF ConfirmRecordKey, At, HandlerShape, Moves, Finishes
<1>3. CASE ConfirmAdmit(c)
  <2>1. Moves(c, "admitted")
    BY <1>3, <1>a, GotoMoves DEF ConfirmAdmit, Pcs
  <2> QED
    BY <1>3, <1>c, <2>1 DEF ConfirmAdmit, HandlerShape, Moves, At
<1>4. CASE ConfirmInsertPayment(c)
  <2>1. Moves(c, "paying")
    BY <1>4, <1>a, GotoMoves DEF ConfirmInsertPayment, Pcs
  <2> QED
    BY <1>4, <2>1 DEF ConfirmInsertPayment, HandlerShape, Moves, At
<1>5. CASE ConfirmCommit(c)
  <2>1. Moves(c, "committed")
    BY <1>5, <1>a, GotoMoves DEF ConfirmCommit, Pcs
  <2> QED
    BY <1>5, <2>1 DEF ConfirmCommit, HandlerShape, Moves
<1>6. CASE ConfirmKeyTaken(c)
  BY <1>6, <1>a, RollbackShape DEF ConfirmKeyTaken
<1>7. CASE ConfirmEnqueue(c)
  BY <1>7, <1>a, IdleFinishes DEF ConfirmEnqueue, At, HandlerShape, Finishes
<1>8. CASE UniqueKeyTaken(c)
  BY <1>8, <1>a, RollbackShape DEF UniqueKeyTaken
<1> QED
  BY <1>0, <1>1, <1>2, <1>3, <1>4, <1>5, <1>6, <1>7, <1>8 DEF ConfirmStep

LEMMA HookShape ==
    ASSUME TypeOK, RequestsOK, LocksOK, NEW h \in Webhooks,
           HookStore(h) \/ HookDuplicate(h) \/ HookStep(h)
    PROVE  HandlerShape(h)
<1> USE DEF Held
<1>a. h \in Handlers
  BY DEF Handlers
<1>b. handler \in [Handlers -> HandlerStates]
  BY DEF TypeOK
<1>0. CASE HookStore(h)
  BY <1>0, <1>a, <1>b DEF HookStore, Begin, At, HandlerShape
<1>6. CASE HookDuplicate(h)
  BY <1>6, <1>a, <1>b DEF HookDuplicate, At, HandlerShape, Idle
<1>1. CASE HookIgnore(h) \/ HookTransition(h) \/ HookRecordError(h)
  <2>1. Finishes(h)
    BY <1>1, <1>a, IdleFinishes DEF HookIgnore, HookTransition, HookRecordError
  <2> QED
    BY <1>1, <2>1 DEF HookIgnore, HookTransition, HookRecordError, Reached, At,
       HandlerShape, Finishes
<1>7. CASE HookUnresolved(h) \/ HookDeduped(h)
  <2>1. Finishes(h)
    BY <1>7, <1>a, IdleFinishes DEF HookUnresolved, HookDeduped
  <2> QED
    BY <1>7, <2>1 DEF HookUnresolved, HookDeduped, At, HandlerShape, Finishes
<1>2. CASE HookRefuse(h) \/ UniqueKeyTaken(h)
  BY <1>2, <1>a, RollbackShape DEF HookRefuse, UniqueKeyTaken
<1>3. CASE HookAdmit(h)
  <2>1. Moves(h, "admitted")
    BY <1>3, <1>a, GotoMoves DEF HookAdmit, Pcs
  <2>2. OrderOf(h) \in Orders /\ Free(OrderOf(h))
    BY <1>3, <1>a, <1>b DEF HookAdmit, Reached, IgnoreReason, OrderOf, HandlerStates
  <2> QED
    BY <1>3, <2>1, <2>2 DEF HookAdmit, Reached, At, HandlerShape, Moves
<1>4. CASE HookNoStock(h) \/ HookUnpayable(h) \/ HookCommit(h)
  <2>1. Finishes(h)
    BY <1>4, <1>a, IdleFinishes DEF HookNoStock, HookUnpayable, HookCommit
  <2> QED
    BY <1>4, <2>1 DEF HookNoStock, HookUnpayable, HookCommit, HandlerShape, Finishes
<1>5. CASE HookInsertPayment(h)
  <2>1. Moves(h, "paying")
    BY <1>5, <1>a, GotoMoves DEF HookInsertPayment, Pcs
  <2> QED
    BY <1>5, <2>1 DEF HookInsertPayment, HandlerShape, Moves, At
<1> QED
  BY <1>0, <1>1, <1>2, <1>3, <1>4, <1>5, <1>6, <1>7 DEF HookStep

\* The end of a transaction of the job, with or without its writes.
LEMMA JobUnlockKeepsLocks ==
    ASSUME TypeOK, RequestsOK, LocksOK, NEW j \in Jobs, JobUnlock(j), UNCHANGED handler
    PROVE  LocksOK'
<1> USE OrderLifecycleAssumption DEF Handlers
<1>1. \A p \in Handlers : handler'[p].pc \in Held => rowLock'[handler'[p].order] = p
  <2> SUFFICES ASSUME NEW p \in Handlers, handler[p].pc \in Held
               PROVE  rowLock'[handler[p].order] = p
    OBVIOUS
  <2>1. rowLock[handler[p].order] = p /\ p # j
    BY DEF LocksOK, Held, OrderOf
  <2>2. handler[p].order \in Orders
    BY HeldOrder
  <2> QED
    BY <2>1, <2>2 DEF JobUnlock, Unlock, TypeOK
<1>2. \A k \in Jobs : \A o \in job'[k].mine : rowLock'[o] = k
  BY DEF JobUnlock, Unlock, IdleJob, LocksOK, TypeOK, JobStates
<1>3. \A k \in Jobs, o \in Orders : resLock'[o] = k => job'[k].pc # "idle"
  BY DEF JobUnlock, LocksOK, TypeOK
<1>4. \A p \in Handlers, o \in Orders :
        rowLock'[o] = p => handler'[p].pc \in Held /\ handler'[p].order = o
  BY DEF JobUnlock, Unlock, LocksOK, TypeOK, Held, OrderOf
<1>5. \A k \in Jobs, o \in Orders :
        rowLock'[o] = k => job'[k].pc = "expiring" /\ o \in job'[k].mine
  BY DEF JobUnlock, Unlock, LocksOK, TypeOK
<1> QED
  BY <1>1, <1>2, <1>3, <1>4, <1>5 DEF LocksOK, Held, OrderOf

LEMMA JobKeepsLocks ==
    ASSUME TypeOK, RequestsOK, LocksOK, NEW j \in Jobs, JobStep(j) \/ JobVictim(j)
    PROVE  LocksOK'
<1> USE OrderLifecycleAssumption DEF Handlers
<1>a. job \in [Jobs -> JobStates]
  BY DEF TypeOK
<1>b. UNCHANGED handler
  BY DEF JobStep, JobRead, JobLockReservation, JobExpire, JobLockOrder, JobEmit, JobCommit,
     JobEventTaken, JobVictim
<1>1. CASE JobRead(j)
  <2>1. \A k \in Jobs : k # j => job'[k] = job[k]
    BY <1>1, <1>a DEF JobRead
  <2>2. job'[j].mine = {} /\ UNCHANGED <<rowLock, resLock>> /\ job[j].pc = "idle"
    BY <1>1, <1>a DEF JobRead
  <2> QED
    BY <1>b, <2>1, <2>2 DEF LocksOK, OrderOf
<1>2. CASE JobExpire(j) \/ JobEmit(j)
  <2>1. \A k \in Jobs : k # j => job'[k] = job[k]
    BY <1>2, <1>a DEF JobExpire, JobEmit
  <2>2. /\ job'[j].mine = job[j].mine /\ job'[j].pc = "expiring"
        /\ job[j].pc \in {"releasing", "expiring"}
    BY <1>2, <1>a DEF JobExpire, JobEmit, JobStates
  <2>3. UNCHANGED <<rowLock, resLock>>
    BY <1>2 DEF JobExpire, JobEmit
  <2> QED
    BY <1>b, <2>1, <2>2, <2>3 DEF LocksOK, OrderOf
<1>5. CASE JobLockReservation(j)
  <2>1. PICK o \in job[j].todo :
          /\ resLock' = [resLock EXCEPT ![o] = IF o \in held THEN j ELSE None]
          /\ job' = [job EXCEPT ![j].todo = @ \ {o}]
    BY <1>5 DEF JobLockReservation
  <2>2. /\ \A k \in Jobs : k # j => job'[k] = job[k]
        /\ job'[j].mine = job[j].mine /\ job'[j].pc = job[j].pc
    BY <1>a, <2>1 DEF JobStates
  <2>3. UNCHANGED rowLock /\ job[j].pc = "releasing"
    BY <1>5 DEF JobLockReservation
  <2>4. \A x \in Orders : resLock'[x] \in {resLock[x], j, None}
    BY <2>1 DEF TypeOK
  <2> QED
    BY <1>b, <2>2, <2>3, <2>4 DEF LocksOK, OrderOf
<1>3. CASE JobLockOrder(j)
  <2>1. PICK o \in job[j].todo :
          /\ Free(o)
          /\ IF StillReserved(o)
             THEN /\ rowLock' = [rowLock EXCEPT ![o] = j]
                  /\ job' = [job EXCEPT ![j].todo = @ \ {o}, ![j].mine = @ \cup {o}]
             ELSE /\ job' = [job EXCEPT ![j].todo = @ \ {o}]
                  /\ UNCHANGED rowLock
    BY <1>3 DEF JobLockOrder
  <2>2. o \in Orders /\ job[j] \in JobStates
    BY <1>a DEF JobStates
  <2>3. \A k \in Jobs : k # j => job'[k] = job[k]
    BY <1>a, <2>1
  <2>4. /\ job'[j].pc = job[j].pc /\ job'[j].now = job[j].now
        /\ job'[j].mine = IF StillReserved(o) THEN job[j].mine \cup {o} ELSE job[j].mine
    <3>1. CASE StillReserved(o)
      <4>1. job' = [job EXCEPT ![j].todo = @ \ {o}, ![j].mine = @ \cup {o}]
        BY <2>1, <3>1
      <4>2. job'[j] = [job[j] EXCEPT !.todo = @ \ {o}, !.mine = @ \cup {o}]
        BY <1>a, <4>1
      <4> QED
        BY <2>2, <3>1, <4>2 DEF JobStates
    <3>2. CASE ~StillReserved(o)
      <4>1. job' = [job EXCEPT ![j].todo = @ \ {o}]
        BY <2>1, <3>2
      <4>2. job'[j] = [job[j] EXCEPT !.todo = @ \ {o}]
        BY <1>a, <4>1
      <4> QED
        BY <2>2, <3>2, <4>2 DEF JobStates
    <3> QED
      BY <3>1, <3>2
  <2>5. \A x \in Orders : rowLock'[x] = rowLock[x] \/ (x = o /\ StillReserved(o) /\ rowLock'[x] = j)
    <3>1. CASE StillReserved(o)
      <4>1. rowLock' = [rowLock EXCEPT ![o] = j]
        BY <2>1, <3>1
      <4> QED
        BY <2>2, <3>1, <4>1 DEF TypeOK
    <3>2. CASE ~StillReserved(o)
      <4>1. UNCHANGED rowLock
        BY <2>1, <3>2
      <4> QED
        BY <4>1
    <3> QED
      BY <3>1, <3>2
  <2>6. rowLock[o] = None /\ (StillReserved(o) => rowLock'[o] = j)
    BY <2>1, <2>2 DEF Free, TypeOK
  <2>7. UNCHANGED resLock
    BY <1>3 DEF JobLockOrder
  <2>8. \A p \in Handlers : handler'[p].pc \in Held => rowLock'[handler'[p].order] = p
    <3> SUFFICES ASSUME NEW p \in Handlers, handler[p].pc \in Held
                 PROVE  rowLock'[handler[p].order] = p
      BY <1>b
    <3>1. rowLock[handler[p].order] = p /\ p # None
      BY DEF LocksOK, Held, OrderOf
    <3>2. handler[p].order # o /\ handler[p].order \in Orders
      BY <2>6, <3>1, HeldOrder
    <3> QED
      BY <2>5, <3>1, <3>2
  <2>9. \A k \in Jobs : \A x \in job'[k].mine : rowLock'[x] = k
    <3> SUFFICES ASSUME NEW k \in Jobs, NEW x \in job'[k].mine PROVE rowLock'[x] = k
      OBVIOUS
    <3>1. x \in job[k].mine \/ (k = j /\ x = o /\ StillReserved(o))
      BY <2>3, <2>4
    <3>2. CASE x \in job[k].mine
      BY <1>a, <2>5, <2>6, <3>2 DEF LocksOK, JobStates
    <3> QED
      BY <2>6, <3>1, <3>2
  <2>10. \A p \in Handlers, x \in Orders :
           rowLock'[x] = p => handler'[p].pc \in Held /\ handler'[p].order = x
    BY <1>b, <2>5 DEF LocksOK, Held, OrderOf
  <2>11. \A k \in Jobs, x \in Orders :
           rowLock'[x] = k => job'[k].pc = "expiring" /\ x \in job'[k].mine
    <3>1. job[j].pc = "expiring"
      BY <1>3 DEF JobLockOrder
    <3> QED
      BY <2>3, <2>4, <2>5, <3>1 DEF LocksOK
  <2> QED
    BY <2>3, <2>4, <2>7, <2>8, <2>9, <2>10, <2>11 DEF LocksOK, Held, OrderOf
<1>4. CASE JobCommit(j) \/ JobEventTaken(j) \/ JobVictim(j)
  BY <1>4, <1>b, JobUnlockKeepsLocks DEF JobCommit, JobEventTaken, JobVictim
<1> QED
  BY <1>1, <1>2, <1>3, <1>4, <1>5 DEF JobStep

\* Failures, and the victims of the deadlock detector.
LEMMA CrashKeepsLocks ==
    ASSUME TypeOK, RequestsOK, LocksOK, Crash
    PROVE  LocksOK'
<1>1. CASE \E p \in Handlers :
            /\ ~At(p, "idle")
            /\ handler' = [handler EXCEPT ![p] = Idle]
            /\ Unlock(p)
            /\ UNCHANGED <<resLock, job>>
  <2>1. PICK p \in Handlers : Finishes(p) /\ Unlock(p) /\ UNCHANGED <<resLock, job>>
    BY <1>1, IdleFinishes
  <2>2. HandlerShape(p)
    BY <2>1 DEF HandlerShape, Finishes, Held
  <2> QED
    BY <2>2, ShapeKeepsLocks
<1>2. CASE \E j \in Jobs : job[j].pc # "idle" /\ JobUnlock(j) /\ UNCHANGED handler
  BY <1>2, JobUnlockKeepsLocks
<1> QED
  BY <1>1, <1>2 DEF Crash

LEMMA LocksStep ==
    ASSUME TypeOK, RequestsOK, LocksOK, [Next]_vars
    PROVE  LocksOK'
<1>0. Confirmers \subseteq Handlers /\ Webhooks \subseteq Handlers
  BY DEF Handlers
<1>1. CASE \E c \in Confirmers : ConfirmReceive(c) \/ ConfirmStep(c)
  BY <1>0, <1>1, ConfirmShape, ShapeKeepsLocks
<1>2. CASE \E h \in Webhooks : HookStore(h) \/ HookDuplicate(h) \/ HookStep(h)
  BY <1>0, <1>2, HookShape, ShapeKeepsLocks
<1>3. CASE \E j \in Jobs : JobStep(j) \/ JobVictim(j)
  BY <1>3, JobKeepsLocks
<1>4. CASE \E p \in Handlers : HandlerVictim(p)
  BY <1>4, RollbackShape, ShapeKeepsLocks DEF HandlerVictim
<1>5. CASE \E o \in Orders : Lapse(o)
  BY <1>5 DEF Lapse, LocksOK, OrderOf
<1>6. CASE Crash
  BY <1>6, CrashKeepsLocks
<1>7. CASE UNCHANGED vars
  BY <1>7 DEF vars, LocksOK, OrderOf
<1> QED
  BY <1>1, <1>2, <1>3, <1>4, <1>5, <1>6, <1>7 DEF Next

LEMMA LocksInit ==
    ASSUME Init
    PROVE  LocksOK
BY OrderLifecycleAssumption DEF Init, LocksOK, Idle, IdleJob, Handlers

\* Every transaction under way holds the row locks it works under, and so do the
\* runs of the job, however they wait, fail, deadlock or crash: no two of them
\* ever work on the same order, and no lock is left behind by one that is over
\* (server.ts:770, applyPaymentEvent.ts:48, releaseExpiredReservations.ts:14-15).
THEOREM LocksHeld == Spec => []LocksOK
<1>1. Init => TypeOK /\ RequestsOK /\ LocksOK
  BY InitTypes, LocksInit
<1>2. TypeOK /\ RequestsOK /\ LocksOK /\ [Next]_vars => (TypeOK /\ RequestsOK /\ LocksOK)'
  BY NextTypes, LocksStep
<1> QED
  BY <1>1, <1>2, PTL DEF Spec
-------------------------------------------------------------------------------
(* Transactions, runs of the job and orders                                 *)

OrdersOK ==
    /\ DeadlinesOK /\ TicketsMatchStatus /\ EventsMatchStatus
    /\ OnePaymentPerOrder /\ ReservationMatchesStatus /\ NoPoisonedRun

\* What OrdersOK and JobsOK depend on.
orderVars == <<status, due, held, payment, tickets, emitted>>

LEMMA SameOrders ==
    ASSUME OrdersOK, UNCHANGED orderVars
    PROVE  OrdersOK'
BY DEF OrdersOK, orderVars, DeadlinesOK, TicketsMatchStatus, EventsMatchStatus,
       OnePaymentPerOrder, PaymentsOf, ReservationMatchesStatus, NoPoisonedRun

LEMMA SameJobs ==
    ASSUME JobsOK, UNCHANGED <<status, due, job, resLock>>
    PROVE  JobsOK'
BY DEF JobsOK, RunOK

\* What RunOK(k) depends on: nothing another run or a handler does to its own rows.
LEMMA OtherRunsStay ==
    ASSUME TypeOK, JobsOK, NEW k \in Jobs, UNCHANGED job[k],
           \A o \in Orders : resLock'[o] = k <=> resLock[o] = k,
           \A o \in Orders : due[o] = "past" => due'[o] = "past",
           \A o \in Orders : status'[o] = "reserved" => status[o] = "reserved",
           \A o \in job[k].mine : status'[o] = status[o]
    PROVE  RunOK(k)'
<1>1. job[k].now \subseteq Orders
  BY DEF TypeOK, JobStates
<1> QED
  BY <1>1 DEF JobsOK, RunOK

LEMMA SameTransactions ==
    ASSUME TransactionsOK, UNCHANGED <<status, payment, handler>>
    PROVE  TransactionsOK'
BY DEF TransactionsOK, At, OrderOf, PayOf

\* What a handler must know to go on, when it moves and nothing else does.
MayHold(p) ==
    /\ At(p, "admitted")' =>
         /\ status[OrderOf(p)'] \in {"pending", "reserved", "expired", "canceled"}
         /\ p \in Confirmers => status[OrderOf(p)'] = "reserved"
    /\ At(p, "paying")' =>
         /\ status[OrderOf(p)'] \in {"pending", "reserved"}
         /\ payment[PayOf(p)'] = None
         /\ \A q \in Handlers \ {p} : ~(At(q, "paying") /\ PayOf(q) = PayOf(p)')

LEMMA QuietKeepsInvariant ==
    ASSUME TransactionsOK, JobsOK, OrdersOK,
           NEW p \in Handlers, MayHold(p),
           UNCHANGED <<orderVars, job, resLock>>,
           \A q \in Handlers \ {p} : handler'[q] = handler[q]
    PROVE  (TransactionsOK /\ JobsOK /\ OrdersOK)'
<1>1. JobsOK' /\ OrdersOK'
  BY SameOrders, SameJobs DEF orderVars
<1>2. UNCHANGED <<status, payment>>
  BY DEF orderVars
<1>3. ASSUME NEW q \in Handlers
      PROVE  /\ At(q, "admitted")' =>
                  /\ status'[OrderOf(q)'] \in {"pending", "reserved", "expired", "canceled"}
                  /\ q \in Confirmers => status'[OrderOf(q)'] = "reserved"
             /\ At(q, "paying")' =>
                  status'[OrderOf(q)'] \in {"pending", "reserved"} /\ payment'[PayOf(q)'] = None
  <2>1. CASE q = p
    BY <1>2, <2>1 DEF MayHold
  <2>2. CASE q # p
    <3>1. handler'[q] = handler[q]
      BY <2>2
    <3> QED
      BY <1>2, <3>1 DEF TransactionsOK, At, OrderOf, PayOf
  <2> QED
    BY <2>1, <2>2
<1>4. ASSUME NEW q \in Handlers, NEW r \in Handlers,
             At(q, "paying")', At(r, "paying")', PayOf(q)' = PayOf(r)'
      PROVE  q = r
  BY <1>4 DEF TransactionsOK, MayHold, At, PayOf
<1>5. TransactionsOK'
  BY <1>3, <1>4 DEF TransactionsOK, At, OrderOf, PayOf
<1> QED
  BY <1>1, <1>5

\* An order that p has locked, or that nobody has, is in no other transaction.
LEMMA OthersElsewhere ==
    ASSUME LocksOK, NEW p \in Handlers, NEW o \in Orders, rowLock[o] \in {p, None}
    PROVE  /\ \A q \in Handlers \ {p} : handler[q].pc \in Held => OrderOf(q) # o
           /\ \A j \in Jobs : o \notin job[j].mine
BY OrderLifecycleAssumption DEF LocksOK, Held, Handlers

\* A step of p that gives its order o the status new, with a payment or without.
MovesOrder(p, o, new) ==
    /\ o \in Orders /\ rowLock[o] \in {p, None}
    /\ status' = [status EXCEPT ![o] = new]
    /\ UNCHANGED <<due, resLock, job>>
    /\ handler'[p].pc \notin Held
    /\ \A q \in Handlers \ {p} : handler'[q] = handler[q]

\* The payment keys of p, and whose payments change.
Inserts(p, o) ==
    /\ PayOf(p) \in PayKeys
    /\ payment[PayOf(p)] \in {None, o}
    /\ payment' = [payment EXCEPT ![PayOf(p)] = o]
    /\ \A q \in Handlers \ {p} : ~(At(q, "paying") /\ PayOf(q) = PayOf(p))

LEMMA InsertedPayments ==
    ASSUME TypeOK, NEW p \in Handlers, NEW o \in Orders, Inserts(p, o)
    PROVE  /\ PaymentsOf(o)' = PaymentsOf(o) \cup {PayOf(p)}
           /\ \A x \in Orders \ {o} : PaymentsOf(x)' = PaymentsOf(x)
BY OrderLifecycleAssumption DEF TypeOK, Inserts, PaymentsOf

LEMMA MoveKeepsTransactions ==
    ASSUME TypeOK, RequestsOK, LocksOK, TransactionsOK, JobsOK,
           NEW p \in Handlers, NEW o, NEW new \in Statuses, MovesOrder(p, o, new),
           new # "reserved" \/ UNCHANGED status,
           Inserts(p, o) \/ UNCHANGED payment
    PROVE  TransactionsOK' /\ JobsOK'
<1>a. o \in Orders
  BY DEF MovesOrder
<1>1. /\ \A q \in Handlers \ {p} : handler[q].pc \in Held => OrderOf(q) # o
      /\ \A j \in Jobs : o \notin job[j].mine
  BY <1>a, OthersElsewhere DEF MovesOrder
<1>2. \A x \in Orders \ {o} : status'[x] = status[x]
  BY DEF MovesOrder, TypeOK
<1>3. status'[o] = "reserved" => status[o] = "reserved"
  BY <1>a DEF MovesOrder, TypeOK
<1>4. ASSUME NEW q \in Handlers, handler'[q].pc \in Held
      PROVE  /\ q # p /\ handler'[q] = handler[q] /\ OrderOf(q) \in Orders \ {o}
             /\ status'[OrderOf(q)] = status[OrderOf(q)]
  <2>1. q # p /\ handler'[q] = handler[q]
    BY <1>4 DEF MovesOrder
  <2>2. OrderOf(q) \in Orders \ {o}
    BY <1>1, <1>4, <2>1, HeldOrder DEF OrderOf
  <2> QED
    BY <1>2, <2>1, <2>2
<1>5. ASSUME NEW q \in Handlers, At(q, "paying")'
      PROVE  payment'[PayOf(q)] = None
  <2>1. q # p /\ handler'[q] = handler[q]
    BY <1>4, <1>5 DEF At, Held
  <2>2. payment[PayOf(q)] = None /\ PayOf(q) \in PayKeys /\ At(q, "paying")
    BY <1>5, <2>1, HeldOrder DEF TransactionsOK, At, PayOf, Held
  <2> QED
    BY <2>1, <2>2 DEF Inserts, TypeOK
<1>6. TransactionsOK'
  <2>1. ASSUME NEW q \in Handlers
        PROVE  /\ At(q, "admitted")' =>
                  /\ status'[OrderOf(q)'] \in {"pending", "reserved", "expired", "canceled"}
                  /\ q \in Confirmers => status'[OrderOf(q)'] = "reserved"
               /\ At(q, "paying")' =>
                  status'[OrderOf(q)'] \in {"pending", "reserved"} /\ payment'[PayOf(q)'] = None
    BY <1>4, <1>5 DEF TransactionsOK, At, OrderOf, PayOf, Held
  <2>2. ASSUME NEW q \in Handlers, NEW r \in Handlers,
               At(q, "paying")', At(r, "paying")', PayOf(q)' = PayOf(r)'
        PROVE  q = r
    BY <1>4, <2>2 DEF TransactionsOK, At, PayOf, Held
  <2> QED
    BY <2>1, <2>2 DEF TransactionsOK, At, OrderOf, PayOf
<1>7. JobsOK'
  <2>1. UNCHANGED <<due, resLock, job>>
    BY DEF MovesOrder
  <2>2. \A x \in Orders : status'[x] = "reserved" => status[x] = "reserved"
    BY <1>2, <1>3
  <2>3. \A j \in Jobs : \A x \in job[j].mine : status'[x] = status[x]
    BY <1>1, <1>2 DEF TypeOK, JobStates
  <2>4. \A j \in Jobs : job[j].now \subseteq Orders
    BY DEF TypeOK, JobStates
  <2> QED
    BY <2>1, <2>2, <2>3, <2>4 DEF JobsOK, RunOK
<1> QED
  BY <1>6, <1>7

\* The paid transition, whichever path takes it: nothing of it happened before.
PaidStep(p) ==
    LET o == OrderOf(p) IN
    /\ MovesOrder(p, o, "paid") /\ Inserts(p, o)
    /\ At(p, "paying")
    /\ Emit({"ORDER_PAID"} \cup IssueNames(o), o) /\ Issue(o) /\ Release(o)

LEMMA PaidKeepsInvariant ==
    ASSUME IInv, OrdersOK, NEW p \in Handlers, PaidStep(p)
    PROVE  (TransactionsOK /\ JobsOK /\ OrdersOK)'
<1> USE DEF IInv
<1>0. PICK o \in Orders : o = OrderOf(p)
  BY DEF PaidStep, MovesOrder
<1>1. /\ o \in Orders /\ status[o] \in {"pending", "reserved"}
      /\ payment[PayOf(p)] = None
  BY <1>0 DEF PaidStep, MovesOrder, TransactionsOK
<1>2. TransactionsOK' /\ JobsOK'
  BY MoveKeepsTransactions DEF PaidStep, Statuses
<1>3. /\ status'[o] = "paid"
      /\ \A x \in Orders \ {o} : status'[x] = status[x]
  BY <1>0, <1>1 DEF PaidStep, MovesOrder, TypeOK
<1>4. tickets[o] = 0
  BY <1>1 DEF TicketsMatchStatus
<1>5. emitted' = emitted \cup ({"ORDER_PAID", "TICKETS_ISSUED"} \X {o})
  BY <1>0, <1>4 DEF PaidStep, Emit, IssueNames
<1>6. DeadlinesOK'
  BY <1>0, <1>3 DEF PaidStep, MovesOrder, DeadlinesOK
<1>7. TicketsMatchStatus'
  BY <1>0, <1>1, <1>3, <1>4 DEF PaidStep, Issue, TicketsMatchStatus, TypeOK
<1>8. EventsMatchStatus'
  BY <1>1, <1>3, <1>5 DEF EventsMatchStatus
<1>9. OnePaymentPerOrder'
  <2>1. PaymentsOf(o) = {}
    BY <1>1 DEF OnePaymentPerOrder
  <2>2. PaymentsOf(o)' = {PayOf(p)} /\ PayOf(p) \in PayKeys
    BY <1>0, <1>1, <2>1, InsertedPayments DEF PaidStep, Inserts
  <2>3. \A x \in Orders \ {o} : PaymentsOf(x)' = PaymentsOf(x)
    BY <1>0, <1>1, InsertedPayments DEF PaidStep
  <2> QED
    BY <1>3, <2>2, <2>3 DEF OnePaymentPerOrder
<1>10. ReservationMatchesStatus'
  BY <1>0, <1>1, <1>3 DEF PaidStep, Release, ReservationMatchesStatus
<1>11. NoPoisonedRun'
  BY <1>3, <1>5 DEF NoPoisonedRun
<1> QED
  BY <1>2, <1>6, <1>7, <1>8, <1>9, <1>10, <1>11 DEF OrdersOK

\* A step of a webhook that settles an order without tickets: its new status, the
\* payment, if any, and an event that may be emitted again.
SettleStep(p, new, name) ==
    LET o == OrderOf(p) IN
    /\ MovesOrder(p, o, new)
    /\ status[o] \in {"pending", "reserved", "expired", "canceled"}
    /\ UNCHANGED <<held, tickets>>
    /\ emitted' = emitted \/ (name \notin OnceOnly /\ Emit({name}, o))
    /\ \/ new = "paid_no_stock" /\ Inserts(p, o) /\ due[o] = "past"
       \/ new = status[o] /\ new = "canceled" /\ Inserts(p, o)
       \/ new = status[o] /\ UNCHANGED payment
       \/ new \in {"failed", "refunded"} /\ status[o] # "canceled" /\ UNCHANGED payment

LEMMA SettleKeepsInvariant ==
    ASSUME IInv, OrdersOK, NEW p \in Handlers, NEW new \in Statuses, NEW name,
           SettleStep(p, new, name)
    PROVE  (TransactionsOK /\ JobsOK /\ OrdersOK)'
<1> USE DEF IInv
<1>0. PICK o \in Orders : o = OrderOf(p)
  BY DEF SettleStep, MovesOrder
<1>1. /\ o \in Orders /\ status[o] \in {"pending", "reserved", "expired", "canceled"}
      /\ MovesOrder(p, o, new)
      /\ Inserts(p, o) \/ UNCHANGED payment
  BY <1>0 DEF SettleStep, MovesOrder
<1>2. /\ status'[o] = new
      /\ \A x \in Orders \ {o} : status'[x] = status[x]
      /\ new = status[o] => UNCHANGED status
  BY <1>1 DEF MovesOrder, TypeOK
<1>3. new \in {"paid_no_stock", "failed", "refunded"} \/ new = status[o]
  BY <1>0 DEF SettleStep
<1>4. TransactionsOK' /\ JobsOK'
  BY <1>1, <1>2, <1>3, MoveKeepsTransactions
<1>5. \A n \in OnceOnly : \A x : <<n, x>> \in emitted' <=> <<n, x>> \in emitted
  BY DEF SettleStep, Emit
<1>6. DeadlinesOK'
  BY <1>1, <1>2, <1>3 DEF MovesOrder, DeadlinesOK
<1>7. TicketsMatchStatus'
  BY <1>0, <1>1, <1>2, <1>3 DEF SettleStep, TicketsMatchStatus
<1>8. EventsMatchStatus'
  BY <1>1, <1>2, <1>3, <1>5 DEF EventsMatchStatus, OnceOnly
<1>9. OnePaymentPerOrder'
  <2>1. status[o] # "canceled" => PaymentsOf(o) = {}
    BY <1>1 DEF OnePaymentPerOrder
  <2>2. CASE new = "paid_no_stock" /\ Inserts(p, o) /\ due[o] = "past"
    <3>1. PaymentsOf(o) = {}
      BY <1>1, <2>1, <2>2 DEF DeadlinesOK
    <3>2. PaymentsOf(o)' = {PayOf(p)} /\ PayOf(p) \in PayKeys
      BY <1>1, <2>2, <3>1, InsertedPayments DEF Inserts
    <3>3. \A x \in Orders \ {o} : PaymentsOf(x)' = PaymentsOf(x)
      BY <1>1, <2>2, InsertedPayments
    <3> QED
      BY <1>2, <2>2, <3>2, <3>3 DEF OnePaymentPerOrder
  <2>3. CASE new = status[o] /\ new = "canceled" /\ Inserts(p, o)
    <3>1. \A x \in Orders \ {o} : PaymentsOf(x)' = PaymentsOf(x)
      BY <1>1, <2>3, InsertedPayments
    <3> QED
      BY <1>2, <2>3, <3>1 DEF OnePaymentPerOrder
  <2>4. CASE UNCHANGED payment /\ (new = status[o] \/ (new \in {"failed", "refunded"} /\ status[o] # "canceled"))
    <3>1. \A x \in Orders : PaymentsOf(x)' = PaymentsOf(x)
      BY <2>4 DEF PaymentsOf
    <3> QED
      BY <1>2, <2>1, <2>4, <3>1 DEF OnePaymentPerOrder
  <2> QED
    BY <1>0, <2>2, <2>3, <2>4 DEF SettleStep
<1>10. ReservationMatchesStatus'
  BY <1>0, <1>1, <1>2, <1>3 DEF SettleStep, ReservationMatchesStatus
<1>11. NoPoisonedRun'
  BY <1>2, <1>3, <1>5 DEF NoPoisonedRun, OnceOnly
<1> QED
  BY <1>4, <1>6, <1>7, <1>8, <1>9, <1>10, <1>11 DEF OrdersOK

\* A rollback tells the handler to stop and changes no row.
LEMMA RollbackKeepsInvariant ==
    ASSUME TypeOK, TransactionsOK, JobsOK, OrdersOK, NEW p \in Handlers,
           NEW error \in {"identity", "reference", "other"}, Rollback(p, error)
    PROVE  (TransactionsOK /\ JobsOK /\ OrdersOK)'
<1>1. HandlerShape(p) /\ handler'[p].pc \in {"idle", "failing"}
  BY RollbackShape
<1>2. UNCHANGED <<orderVars, job, resLock>>
  BY RollbackMoves DEF orderVars, dbVars
<1>3. MayHold(p)
  BY <1>1 DEF MayHold, At
<1> QED
  BY <1>1, <1>2, <1>3, QuietKeepsInvariant DEF HandlerShape
-------------------------------------------------------------------------------
(* The steps of the handlers                                                *)

\* A handler that only finishes, or goes on to a state in which it holds no lock.
LEMMA LettingGo ==
    ASSUME TransactionsOK, JobsOK, OrdersOK, NEW p \in Handlers,
           UNCHANGED <<orderVars, job, resLock>>,
           handler'[p].pc \notin Held, \A q \in Handlers \ {p} : handler'[q] = handler[q]
    PROVE  (TransactionsOK /\ JobsOK /\ OrdersOK)'
<1>1. MayHold(p)
  BY DEF MayHold, At, Held
<1> QED
  BY <1>1, QuietKeepsInvariant

\* A handler that inserts a payment key that nobody has.
LEMMA InsertKeepsInvariant ==
    ASSUME TransactionsOK, JobsOK, OrdersOK, NEW p \in Handlers,
           UNCHANGED <<orderVars, job, resLock>>, Moves(p, "paying"),
           CanInsertPayment(p), status[OrderOf(p)] \in {"pending", "reserved"},
           PayOf(p) \in PayKeys, OrderOf(p) \in Orders
    PROVE  (TransactionsOK /\ JobsOK /\ OrdersOK)'
<1>1. payment[PayOf(p)] = None
  BY DEF CanInsertPayment, OrdersOK, OnePaymentPerOrder, PaymentsOf
<1>2. MayHold(p)
  BY <1>1 DEF MayHold, Moves, At, OrderOf, PayOf, CanInsertPayment, Inserting
<1> QED
  BY <1>2, QuietKeepsInvariant DEF Moves

LEMMA ConfirmKeepsInvariant ==
    ASSUME IInv, OrdersOK, NEW c \in Confirmers, ConfirmReceive(c) \/ ConfirmStep(c)
    PROVE  (TransactionsOK /\ JobsOK /\ OrdersOK)'
<1> USE DEF Held, orderVars, dbVars
<1>a. /\ c \in Handlers /\ handler \in [Handlers -> HandlerStates]
      /\ TypeOK /\ RequestsOK /\ LocksOK /\ TransactionsOK /\ JobsOK
  BY DEF Handlers, IInv, TypeOK
<1>b. ~At(c, "idle") => OrderOf(c) \in Orders /\ PayOf(c) \in PayKeys
  BY <1>a, OrderLifecycleAssumption DEF RequestsOK, ConfirmOK, PayKeys
<1>0. CASE ConfirmReceive(c)
  <2>1. handler'[c].pc = "begun" /\ \A q \in Handlers \ {c} : handler'[q] = handler[q]
    BY <1>0, <1>a DEF ConfirmReceive, Begin
  <2> QED
    BY <1>0, <1>a, <2>1, LettingGo DEF ConfirmReceive
<1>1. CASE ConfirmRefuse(c)
  BY <1>1, <1>a, RollbackKeepsInvariant DEF ConfirmRefuse
<1>2. CASE ConfirmRecordKey(c)
  <2>1. handler'[c].pc \notin Held /\ \A q \in Handlers \ {c} : handler'[q] = handler[q]
    <3>1. CASE Replayed(c)
      BY <1>2, <1>a, <3>1, GotoMoves DEF ConfirmRecordKey, Goto, Pcs, Moves
    <3>2. CASE ~Replayed(c)
      BY <1>2, <1>a, <3>2, IdleFinishes DEF ConfirmRecordKey, Finishes
    <3> QED
      BY <3>1, <3>2
  <2> QED
    BY <1>2, <1>a, <2>1, LettingGo DEF ConfirmRecordKey
<1>3. CASE ConfirmAdmit(c)
  <2>1. Moves(c, "admitted") /\ status[OrderOf(c)] = "reserved"
    BY <1>3, <1>a, GotoMoves DEF ConfirmAdmit, Pcs, Fresh, InTime
  <2>2. MayHold(c)
    BY <2>1 DEF MayHold, Moves, At, OrderOf
  <2> QED
    BY <1>3, <1>a, <2>1, <2>2, QuietKeepsInvariant DEF ConfirmAdmit, Moves
<1>4. CASE ConfirmInsertPayment(c)
  <2>1. Moves(c, "paying") /\ At(c, "admitted") /\ CanInsertPayment(c)
    BY <1>4, <1>a, GotoMoves DEF ConfirmInsertPayment, Pcs
  <2>2. status[OrderOf(c)] = "reserved" /\ ~At(c, "idle")
    BY <1>a, <2>1 DEF TransactionsOK, At
  <2> QED
    BY <1>4, <1>a, <1>b, <2>1, <2>2, InsertKeepsInvariant DEF ConfirmInsertPayment
<1>5. CASE ConfirmCommit(c)
  <2>1. Moves(c, "committed") /\ At(c, "paying")
    BY <1>5, <1>a, GotoMoves DEF ConfirmCommit, Pcs
  <2>2. MovesOrder(c, OrderOf(c), "paid")
    BY <1>5, <1>a, <1>b, <2>1 DEF ConfirmCommit, MovesOrder, Moves, LocksOK, At
  <2>3. Inserts(c, OrderOf(c))
    BY <1>5, <1>a, <1>b, <2>1 DEF ConfirmCommit, Inserts, InsertPayment, TransactionsOK, At
  <2> QED
    BY <1>5, <1>a, <2>1, <2>2, <2>3, PaidKeepsInvariant DEF ConfirmCommit, PaidStep
<1>6. CASE ConfirmKeyTaken(c)
  BY <1>6, <1>a, RollbackKeepsInvariant DEF ConfirmKeyTaken
<1>7. CASE ConfirmEnqueue(c)
  BY <1>7, <1>a, IdleFinishes, LettingGo DEF ConfirmEnqueue, Finishes
<1>8. CASE UniqueKeyTaken(c)
  BY <1>8, <1>a, RollbackKeepsInvariant DEF UniqueKeyTaken
<1> QED
  BY <1>0, <1>1, <1>2, <1>3, <1>4, <1>5, <1>6, <1>7, <1>8 DEF ConfirmStep

LEMMA HookKeepsInvariant ==
    ASSUME IInv, OrdersOK, NEW h \in Webhooks,
           HookStore(h) \/ HookDuplicate(h) \/ HookStep(h)
    PROVE  (TransactionsOK /\ JobsOK /\ OrdersOK)'
<1> USE DEF Held, orderVars, dbVars
<1>a. /\ h \in Handlers /\ handler \in [Handlers -> HandlerStates]
      /\ TypeOK /\ RequestsOK /\ LocksOK /\ TransactionsOK /\ JobsOK
  BY DEF Handlers, IInv, TypeOK
<1>b. /\ OrderOf(h) \in Orders \cup {None}
      /\ handler[h].pc \in Held => OrderOf(h) \in Orders /\ PayOf(h) \in PayKeys
  BY <1>a, HeldOrder DEF HandlerStates, OrderOf, PayOf
<1>c. h \notin Confirmers
  BY OrderLifecycleAssumption
<1>d. IgnoreReason(h) = "no" =>
        /\ OrderOf(h) \in Orders
        /\ status[OrderOf(h)] \in {"pending", "reserved", "expired", "canceled"}
  BY <1>a, <1>b DEF IgnoreReason, terminalStatuses, TypeOK, Statuses
<1>e. handler' = [handler EXCEPT ![h] = Idle] =>
        handler'[h].pc = "idle" /\ \A q \in Handlers \ {h} : handler'[q] = handler[q]
  BY <1>a, IdleFinishes DEF Finishes
<1>0. CASE HookStore(h)
  <2>1. handler'[h].pc = "begun" /\ \A q \in Handlers \ {h} : handler'[q] = handler[q]
    BY <1>0, <1>a DEF HookStore, Begin
  <2> QED
    BY <1>0, <1>a, <2>1, LettingGo DEF HookStore
<1>10. CASE HookDuplicate(h)
  <2>1. handler'[h].pc = "duplicate" /\ \A q \in Handlers \ {h} : handler'[q] = handler[q]
    BY <1>10, <1>a DEF HookDuplicate, Idle
  <2> QED
    BY <1>10, <1>a, <2>1, LettingGo DEF HookDuplicate
<1>1. CASE HookIgnore(h) \/ HookRecordError(h) \/ HookUnresolved(h) \/ HookDeduped(h)
  BY <1>1, <1>a, <1>e, LettingGo DEF HookIgnore, HookRecordError, HookUnresolved, HookDeduped
<1>2. CASE HookRefuse(h) \/ UniqueKeyTaken(h)
  BY <1>2, <1>a, RollbackKeepsInvariant DEF HookRefuse, UniqueKeyTaken
<1>3. CASE HookTransition(h)
  <2> DEFINE o    == OrderOf(h)
             from == IF Target(h) = "failed"
                     THEN {"pending", "reserved"}
                     ELSE {"paid", "failed", "pending", "reserved", "expired"}
  <2>1. /\ Free(o) /\ o \in Orders /\ status[o] \in {"pending", "reserved", "expired", "canceled"}
        /\ Target(h) \in {"failed", "refunded"}
    BY <1>3, <1>d, OrderLifecycleAssumption DEF HookTransition, Reached
  <2>2. PICK new \in Statuses : new = IF status[o] \in from THEN Target(h) ELSE status[o]
    BY <2>1 DEF Statuses
  <2>3. PICK name \in {"PAYMENT_MARKED_FAILED", "PAYMENT_MARKED_REFUNDED"} :
          name = IF Target(h) = "failed"
                 THEN "PAYMENT_MARKED_FAILED" ELSE "PAYMENT_MARKED_REFUNDED"
    OBVIOUS
  <2>4. status' = [status EXCEPT ![o] = new] /\ Emit({name}, o)
    BY <1>3, <1>a, <2>1, <2>2, <2>3 DEF HookTransition, TypeOK
  <2>5. name \notin OnceOnly
        /\ (new = status[o] \/ (new \in {"failed", "refunded"} /\ status[o] # "canceled"))
    BY <2>1, <2>2 DEF OnceOnly
  <2>6. UNCHANGED <<held, payment, tickets, due, resLock, job>>
        /\ handler' = [handler EXCEPT ![h] = Idle]
    BY <1>3 DEF HookTransition
  <2>7. SettleStep(h, new, name)
    BY <1>e, <2>1, <2>4, <2>5, <2>6 DEF SettleStep, MovesOrder, Free
  <2> QED
    BY <1>a, <2>7, SettleKeepsInvariant
<1>4. CASE HookAdmit(h)
  <2>1. Moves(h, "admitted")
    BY <1>4, <1>a, GotoMoves DEF HookAdmit, Pcs
  <2>2. MayHold(h)
    BY <1>4, <1>c, <1>d, <2>1 DEF HookAdmit, MayHold, Moves, At, OrderOf
  <2> QED
    BY <1>4, <1>a, <2>1, <2>2, QuietKeepsInvariant DEF HookAdmit, Moves
<1>5. ASSUME At(h, "admitted"), CanInsertPayment(h), InsertPayment(h)
      PROVE  /\ Inserts(h, OrderOf(h)) /\ OrderOf(h) \in Orders
             /\ rowLock[OrderOf(h)] = h
             /\ status[OrderOf(h)] \in {"pending", "reserved", "expired", "canceled"}
  BY <1>5, <1>a, <1>b DEF Inserts, InsertPayment, CanInsertPayment, Inserting, TransactionsOK,
     LocksOK, At
<1>6. CASE HookNoStock(h)
  <2>1. SettleStep(h, "paid_no_stock", "PAYMENT_MARKED_NO_STOCK")
    BY <1>5, <1>6, <1>e DEF HookNoStock, SettleStep, MovesOrder, OnceOnly
  <2> QED
    BY <1>a, <2>1, SettleKeepsInvariant DEF Statuses
<1>7. CASE HookUnpayable(h)
  <2>1. status[OrderOf(h)] = "canceled"
    BY <1>5, <1>7 DEF HookUnpayable, payable
  <2>2. status' = [status EXCEPT ![OrderOf(h)] = "canceled"]
    BY <1>5, <1>7, <1>a, <2>1 DEF HookUnpayable, TypeOK
  <2>3. SettleStep(h, "canceled", "PAYMENT_MARKED_NO_STOCK")
    BY <1>5, <1>7, <1>e, <2>1, <2>2 DEF HookUnpayable, SettleStep, MovesOrder
  <2> QED
    BY <1>a, <2>3, SettleKeepsInvariant DEF Statuses
<1>8. CASE HookInsertPayment(h)
  <2>1. Moves(h, "paying") /\ At(h, "admitted") /\ CanInsertPayment(h)
        /\ due[OrderOf(h)] # "past" /\ status[OrderOf(h)] \in {"pending", "reserved", "expired"}
    BY <1>8, <1>a, GotoMoves DEF HookInsertPayment, Pcs, payable
  <2>2. OrderOf(h) \in Orders /\ PayOf(h) \in PayKeys
    BY <1>b, <2>1 DEF At
  <2>3. status[OrderOf(h)] # "expired"
    BY <2>1, <2>2 DEF OrdersOK, DeadlinesOK
  <2> QED
    BY <1>8, <1>a, <2>1, <2>2, <2>3, InsertKeepsInvariant DEF HookInsertPayment
<1>9. CASE HookCommit(h)
  <2>1. At(h, "paying") /\ handler'[h].pc = "idle"
        /\ \A q \in Handlers \ {h} : handler'[q] = handler[q]
    BY <1>9, <1>e DEF HookCommit
  <2>2. MovesOrder(h, OrderOf(h), "paid")
    BY <1>9, <1>a, <1>b, <2>1 DEF HookCommit, MovesOrder, LocksOK, At
  <2>3. Inserts(h, OrderOf(h))
    BY <1>9, <1>a, <1>b, <2>1 DEF HookCommit, Inserts, InsertPayment, TransactionsOK, At
  <2> QED
    BY <1>9, <1>a, <2>1, <2>2, <2>3, PaidKeepsInvariant DEF HookCommit, PaidStep
<1> QED
  BY <1>0, <1>1, <1>2, <1>3, <1>4, <1>6, <1>7, <1>8, <1>9, <1>10 DEF HookStep
-------------------------------------------------------------------------------
(* The steps of the job, failures and the clock                             *)

\* A run that ends without its writes.
LEMMA UnlockKeepsInvariant ==
    ASSUME IInv, OrdersOK, NEW j \in Jobs, JobUnlock(j), UNCHANGED <<orderVars, handler>>
    PROVE  (TransactionsOK /\ JobsOK /\ OrdersOK)'
<1> USE DEF IInv
<1>1. TransactionsOK' /\ OrdersOK'
  BY SameTransactions, SameOrders DEF orderVars
<1>2. UNCHANGED <<status, due>>
  BY DEF orderVars
<1>3. ASSUME NEW k \in Jobs, k # j
      PROVE  /\ job'[k] = job[k]
             /\ \A o \in Orders : resLock[o] = k <=> resLock'[o] = k
  BY <1>3, OrderLifecycleAssumption DEF JobUnlock, TypeOK
<1>4. job'[j] = IdleJob /\ \A o \in Orders : resLock'[o] # j
  BY OrderLifecycleAssumption DEF JobUnlock, TypeOK
<1>5. \A k \in Jobs : job[k].now \subseteq Orders
  BY DEF TypeOK, JobStates
<1>6. JobsOK'
  BY <1>2, <1>3, <1>4, <1>5 DEF JobsOK, RunOK, IdleJob
<1> QED
  BY <1>1, <1>6

LEMMA ReadKeepsInvariant ==
    ASSUME IInv, OrdersOK, NEW j \in Jobs, JobRead(j)
    PROVE  (TransactionsOK /\ JobsOK /\ OrdersOK)'
<1> USE DEF IInv
<1>1. TransactionsOK' /\ OrdersOK'
  BY SameTransactions, SameOrders DEF JobRead, orderVars, dbVars
<1>2. UNCHANGED <<status, due, resLock>>
  BY DEF JobRead, dbVars
<1>3. \A k \in Jobs \ {j} : job'[k] = job[k]
  BY DEF JobRead, TypeOK
<1> DEFINE now == {o \in Orders : due[o] = "past"}
<1>4. /\ job'[j].pc = "releasing" /\ job'[j].now = now /\ job'[j].mine = {}
      /\ job'[j].list \subseteq now /\ job'[j].todo = now \cap held
  BY DEF JobRead, TypeOK, DueRows
<1>5. \A o \in Orders : resLock[o] # j
  BY DEF JobRead, LocksOK
<1>6. \A o \in now : status[o] = "reserved" => o \in held
  BY DEF ReservationMatchesStatus
<1>7. RunOK(j)'
  BY <1>2, <1>4, <1>5, <1>6 DEF RunOK
<1>8. \A k \in Jobs \ {j} : RunOK(k)'
  BY <1>2, <1>3, OtherRunsStay
<1>9. JobsOK'
  BY <1>7, <1>8 DEF JobsOK
<1> QED
  BY <1>1, <1>9

\* A run takes an unreleased reservation, or passes a released one: the order of
\* such a one is not reserved any more.
LEMMA LockReservationKeepsInvariant ==
    ASSUME IInv, OrdersOK, NEW j \in Jobs, JobLockReservation(j)
    PROVE  (TransactionsOK /\ JobsOK /\ OrdersOK)'
<1> USE DEF IInv
<1>1. TransactionsOK' /\ OrdersOK'
  BY SameTransactions, SameOrders DEF JobLockReservation, orderVars, dbVars
<1>2. UNCHANGED <<status, due, held>>
  BY DEF JobLockReservation, dbVars
<1>3. PICK o \in job[j].todo :
        /\ resLock[o] = None
        /\ resLock' = [resLock EXCEPT ![o] = IF o \in held THEN j ELSE None]
        /\ job' = [job EXCEPT ![j].todo = @ \ {o}]
  BY DEF JobLockReservation
<1>4. job[j] \in JobStates /\ job[j].pc = "releasing"
  BY DEF JobLockReservation, TypeOK
<1>5. o \in Orders /\ o \in job[j].now
  BY <1>4 DEF JobStates, JobsOK, RunOK
<1>6. job'[j] = [job[j] EXCEPT !.todo = @ \ {o}] /\ \A k \in Jobs \ {j} : job'[k] = job[k]
  BY <1>3 DEF TypeOK
<1>7. /\ job'[j].pc = "releasing" /\ job'[j].now = job[j].now /\ job'[j].list = job[j].list
      /\ job'[j].todo = job[j].todo \ {o} /\ job'[j].mine = job[j].mine
  BY <1>4, <1>6 DEF JobStates
<1>8. /\ resLock'[o] = IF o \in held THEN j ELSE None
      /\ \A x \in Orders \ {o} : resLock'[x] = resLock[x]
  BY <1>3, <1>5 DEF TypeOK
<1>9. status[o] = "reserved" => o \in held
  BY <1>5 DEF ReservationMatchesStatus
<1>10. \A k \in Jobs : job[k].now \subseteq Orders /\ k # None
  BY OrderLifecycleAssumption DEF TypeOK, JobStates
<1>11. JobsOK'
  <2>1. ASSUME NEW k \in Jobs \ {j}, NEW x \in Orders
        PROVE  resLock'[x] = k <=> resLock[x] = k
    BY <1>3, <1>8, <1>10
  <2>2. \A k \in Jobs \ {j} : RunOK(k)'
    BY <1>2, <1>6, <2>1, OtherRunsStay
  <2>3. RunOK(j)'
    BY <1>2, <1>4, <1>5, <1>7, <1>8, <1>9, <1>10 DEF JobsOK, RunOK
  <2> QED
    BY <2>2, <2>3 DEF JobsOK
<1> QED
  BY <1>1, <1>11

LEMMA ExpireKeepsInvariant ==
    ASSUME IInv, OrdersOK, NEW j \in Jobs, JobExpire(j)
    PROVE  (TransactionsOK /\ JobsOK /\ OrdersOK)'
<1> USE DEF IInv
<1>1. TransactionsOK' /\ OrdersOK'
  BY SameTransactions, SameOrders DEF JobExpire, orderVars, dbVars
<1>2. UNCHANGED <<status, due, resLock>>
  BY DEF JobExpire, dbVars
<1> DEFINE todo == {o \in job[j].now : status[o] = "reserved"}
<1>3. /\ job[j] \in JobStates /\ job[j].pc = "releasing" /\ job[j].todo = {}
      /\ job'[j] = [job[j] EXCEPT !.pc = "expiring", !.todo = todo]
      /\ \A k \in Jobs \ {j} : job'[k] = job[k]
  BY DEF JobExpire, TypeOK
<1>4. /\ job'[j].pc = "expiring" /\ job'[j].now = job[j].now /\ job'[j].list = job[j].list
      /\ job'[j].todo = todo /\ job'[j].mine = job[j].mine
  BY <1>3 DEF JobStates
<1>5. job[j].mine = {} /\ \A k \in Jobs : job[k].now \subseteq Orders
  BY <1>3 DEF TypeOK, JobsOK, RunOK, JobStates
<1>6. \A o \in todo : resLock[o] = j
  BY <1>3, <1>5 DEF JobsOK, RunOK
<1>7. RunOK(j)'
  BY <1>2, <1>4, <1>5, <1>6 DEF JobsOK, RunOK
<1>8. \A k \in Jobs \ {j} : RunOK(k)'
  BY <1>2, <1>3, OtherRunsStay
<1>9. JobsOK'
  BY <1>7, <1>8 DEF JobsOK
<1> QED
  BY <1>1, <1>9

LEMMA EmitKeepsInvariant ==
    ASSUME IInv, OrdersOK, NEW j \in Jobs, JobEmit(j)
    PROVE  (TransactionsOK /\ JobsOK /\ OrdersOK)'
<1> USE DEF IInv
<1>1. TransactionsOK' /\ OrdersOK'
  BY SameTransactions, SameOrders DEF JobEmit, orderVars, dbVars
<1>2. UNCHANGED <<status, due, resLock>>
  BY DEF JobEmit, dbVars
<1>3. PICK o \in job[j].list : job' = [job EXCEPT ![j].sent = @ \cup {o}]
  BY DEF JobEmit
<1>4. /\ job[j] \in JobStates
      /\ job'[j] = [job[j] EXCEPT !.sent = @ \cup {o}]
      /\ \A k \in Jobs \ {j} : job'[k] = job[k]
  BY <1>3 DEF TypeOK
<1>5. /\ job'[j].pc = job[j].pc /\ job'[j].now = job[j].now /\ job'[j].list = job[j].list
      /\ job'[j].todo = job[j].todo /\ job'[j].mine = job[j].mine
  BY <1>4 DEF JobStates
<1>6. RunOK(j)'
  BY <1>2, <1>5 DEF JobsOK, RunOK
<1>7. \A k \in Jobs \ {j} : RunOK(k)'
  BY <1>2, <1>4, OtherRunsStay
<1>8. JobsOK'
  BY <1>6, <1>7 DEF JobsOK
<1> QED
  BY <1>1, <1>8

LEMMA LockOrderKeepsInvariant ==
    ASSUME IInv, OrdersOK, NEW j \in Jobs, JobLockOrder(j)
    PROVE  (TransactionsOK /\ JobsOK /\ OrdersOK)'
<1> USE DEF IInv
<1>1. TransactionsOK' /\ OrdersOK'
  BY SameTransactions, SameOrders DEF JobLockOrder, orderVars, dbVars
<1>2. UNCHANGED <<status, due, resLock>>
  BY DEF JobLockOrder, dbVars
<1>3. PICK o \in job[j].todo :
        \/ /\ status[o] = "reserved"
           /\ job' = [job EXCEPT ![j].todo = @ \ {o}, ![j].mine = @ \cup {o}]
        \/ /\ status[o] # "reserved"
           /\ job' = [job EXCEPT ![j].todo = @ \ {o}]
  BY DEF JobLockOrder, StillReserved
<1>4. /\ job[j] \in JobStates
      /\ \A k \in Jobs \ {j} : job'[k] = job[k]
  BY <1>3 DEF TypeOK
<1>5. /\ job'[j].pc = job[j].pc /\ job'[j].now = job[j].now /\ job'[j].list = job[j].list
      /\ job'[j].todo = job[j].todo \ {o}
      /\ job'[j].mine = IF status[o] = "reserved" THEN job[j].mine \cup {o} ELSE job[j].mine
  <2>1. CASE status[o] = "reserved"
    <3>1. job'[j] = [job[j] EXCEPT !.todo = @ \ {o}, !.mine = @ \cup {o}]
      BY <1>3, <2>1 DEF TypeOK
    <3> QED
      BY <1>4, <2>1, <3>1 DEF JobStates
  <2>2. CASE status[o] # "reserved"
    <3>1. job'[j] = [job[j] EXCEPT !.todo = @ \ {o}]
      BY <1>3, <2>2 DEF TypeOK
    <3> QED
      BY <1>4, <2>2, <3>1 DEF JobStates
  <2> QED
    BY <2>1, <2>2
<1>6. job[j].pc = "expiring"
  BY DEF JobLockOrder
<1>7. JobsOK'
  BY <1>2, <1>3, <1>4, <1>5, <1>6 DEF JobsOK, RunOK
<1> QED
  BY <1>1, <1>7

LEMMA CommitKeepsInvariant ==
    ASSUME IInv, OrdersOK, NEW j \in Jobs, JobCommit(j)
    PROVE  (TransactionsOK /\ JobsOK /\ OrdersOK)'
<1> USE DEF IInv
<1>1. /\ job[j] \in JobStates /\ job[j].pc = "expiring" /\ job[j].todo = {}
      /\ job[j].mine \subseteq Orders /\ job[j].now \subseteq Orders
      /\ job[j].list \subseteq job[j].now
  BY DEF JobCommit, TypeOK, JobStates, JobsOK, RunOK
<1>2. \A o \in Orders : status'[o] = IF o \in job[j].mine THEN "expired" ELSE status[o]
  BY DEF JobCommit, StatusAfter
<1>3. \A o \in job[j].mine : status[o] = "reserved" /\ due[o] = "past" /\ rowLock[o] = j
  BY DEF JobsOK, RunOK, LocksOK
<1>4. UNCHANGED <<due, payment, tickets, handler>>
  BY DEF JobCommit
\* A reserved order of this run is one it expires.
<1>5. ASSUME NEW o \in Orders, status'[o] = "reserved"
      PROVE  /\ status[o] = "reserved" /\ o \notin job[j].mine
             /\ o \notin job[j].now /\ resLock[o] # j
  <2>1. status[o] = "reserved" /\ o \notin job[j].mine
    BY <1>2, <1>5
  <2>2. o \notin job[j].now
    BY <1>1, <2>1 DEF JobsOK, RunOK
  <2> QED
    BY <2>1, <2>2 DEF JobsOK, RunOK
<1>6. TransactionsOK'
  <2>1. ASSUME NEW p \in Handlers, handler[p].pc \in Held
        PROVE  status'[OrderOf(p)] = status[OrderOf(p)]
    <3>1. OrderOf(p) \in Orders /\ rowLock[OrderOf(p)] = p
      BY <2>1, HeldOrder DEF LocksOK, Held, OrderOf
    <3>2. OrderOf(p) \notin job[j].mine
      BY <1>3, <3>1, OrderLifecycleAssumption DEF Handlers
    <3> QED
      BY <1>2, <3>1, <3>2
  <2> QED
    BY <1>4, <2>1 DEF TransactionsOK, At, OrderOf, PayOf, Held
<1>7. JobsOK'
  <2>1. job'[j] = IdleJob /\ \A o \in Orders : resLock'[o] # j
    BY OrderLifecycleAssumption DEF JobCommit, JobUnlock, TypeOK
  <2>2. ASSUME NEW k \in Jobs \ {j}
        PROVE  /\ job'[k] = job[k]
               /\ \A o \in Orders : resLock[o] = k <=> resLock'[o] = k
               /\ job[k].now \subseteq Orders
               /\ \A o \in job[k].mine : o \in Orders /\ o \notin job[j].mine
    BY <2>2, OrderLifecycleAssumption DEF JobCommit, JobUnlock, TypeOK, JobStates, LocksOK
  <2>3. ASSUME NEW k \in Jobs \ {j}
        PROVE  \A o \in job[k].mine : status'[o] = "reserved"
    BY <1>2, <2>2, <2>3 DEF JobsOK, RunOK
  <2> QED
    BY <1>4, <1>5, <2>1, <2>2, <2>3 DEF JobsOK, RunOK, IdleJob
<1>8. DeadlinesOK'
  BY <1>2, <1>3, <1>4 DEF DeadlinesOK
<1>9. TicketsMatchStatus'
  BY <1>2, <1>3, <1>4 DEF TicketsMatchStatus
<1>10. EventsMatchStatus'
  BY <1>2, <1>3 DEF JobCommit, EventsMatchStatus
<1>11. OnePaymentPerOrder'
  <2>1. \A o \in Orders : PaymentsOf(o)' = PaymentsOf(o)
    BY <1>4 DEF PaymentsOf
  <2> QED
    BY <1>2, <1>3, <2>1 DEF OnePaymentPerOrder
<1>12. ReservationMatchesStatus'
  BY <1>2, <1>3, <1>5 DEF JobCommit, HeldAfter, ReservationMatchesStatus
<1>13. NoPoisonedRun'
  BY <1>1, <1>5 DEF JobCommit, NoPoisonedRun
<1> QED
  BY <1>6, <1>7, <1>8, <1>9, <1>10, <1>11, <1>12, <1>13 DEF OrdersOK

LEMMA LapseKeepsInvariant ==
    ASSUME IInv, OrdersOK, NEW o \in Orders, Lapse(o)
    PROVE  (TransactionsOK /\ JobsOK /\ OrdersOK)'
<1> USE DEF IInv
<1>1. /\ UNCHANGED <<status, held, payment, tickets, emitted, handler, job, resLock>>
      /\ due[o] = "ahead"
      /\ \A x \in Orders : due'[x] = IF x = o THEN "past" ELSE due[x]
  BY DEF Lapse, dbVars, TypeOK
<1>2. TransactionsOK'
  BY <1>1, SameTransactions
<1>3. JobsOK'
  <2>1. \A j \in Jobs : job[j].now \subseteq Orders
    BY DEF TypeOK, JobStates
  <2> QED
    BY <1>1, <2>1 DEF JobsOK, RunOK
<1>4. OrdersOK'
  BY <1>1 DEF OrdersOK, DeadlinesOK, TicketsMatchStatus, EventsMatchStatus,
     OnePaymentPerOrder, PaymentsOf, ReservationMatchesStatus, NoPoisonedRun
<1> QED
  BY <1>2, <1>3, <1>4

LEMMA CrashKeepsInvariant ==
    ASSUME IInv, OrdersOK, Crash
    PROVE  (TransactionsOK /\ JobsOK /\ OrdersOK)'
<1> USE DEF IInv
<1>0. UNCHANGED orderVars
  BY DEF Crash, orderVars, dbVars
<1>1. CASE \E p \in Handlers :
            /\ ~At(p, "idle")
            /\ handler' = [handler EXCEPT ![p] = Idle]
            /\ Unlock(p)
            /\ UNCHANGED <<resLock, job>>
  <2>1. PICK p \in Handlers : Finishes(p) /\ UNCHANGED <<resLock, job>>
    BY <1>1, IdleFinishes
  <2> QED
    BY <1>0, <2>1, LettingGo DEF Finishes, Held
<1>2. CASE \E j \in Jobs : job[j].pc # "idle" /\ JobUnlock(j) /\ UNCHANGED handler
  BY <1>0, <1>2, UnlockKeepsInvariant
<1> QED
  BY <1>1, <1>2 DEF Crash
-------------------------------------------------------------------------------
LEMMA InitInvariant ==
    ASSUME Init
    PROVE  IInv
<1>1. TypeOK /\ RequestsOK /\ LocksOK
  BY InitTypes, LocksInit
<1>2. TransactionsOK /\ JobsOK
  BY OrderLifecycleAssumption DEF Init, TransactionsOK, JobsOK, RunOK, Idle, IdleJob, At, Handlers
<1>3. DeadlinesOK /\ TicketsMatchStatus /\ EventsMatchStatus /\ NoPoisonedRun
  BY DEF Init, DeadlinesOK, TicketsMatchStatus, EventsMatchStatus, NoPoisonedRun
<1>4. OnePaymentPerOrder /\ ReservationMatchesStatus
  BY OrderLifecycleAssumption DEF Init, OnePaymentPerOrder, PaymentsOf, ReservationMatchesStatus
<1> QED
  BY <1>1, <1>2, <1>3, <1>4 DEF IInv

LEMMA NextInvariant ==
    ASSUME IInv, [Next]_vars
    PROVE  IInv'
<1>0. OrdersOK /\ Confirmers \subseteq Handlers /\ Webhooks \subseteq Handlers
  BY DEF IInv, OrdersOK, Handlers
<1>a. /\ TypeOK /\ RequestsOK /\ LocksOK /\ TransactionsOK /\ JobsOK
  BY DEF IInv
<1>b. (TypeOK /\ RequestsOK /\ LocksOK)'
  BY <1>a, NextTypes, LocksStep
<1>c. (TransactionsOK /\ JobsOK /\ OrdersOK)'
  <2>1. CASE \E c \in Confirmers : ConfirmReceive(c) \/ ConfirmStep(c)
    BY <1>0, <2>1, ConfirmKeepsInvariant
  <2>2. CASE \E h \in Webhooks : HookStore(h) \/ HookDuplicate(h) \/ HookStep(h)
    BY <1>0, <2>2, HookKeepsInvariant
  <2>3. ASSUME NEW j \in Jobs, JobStep(j) \/ JobVictim(j)
        PROVE  (TransactionsOK /\ JobsOK /\ OrdersOK)'
    <3>1. CASE JobEventTaken(j) \/ JobVictim(j)
      BY <1>0, <3>1, UnlockKeepsInvariant DEF JobEventTaken, JobVictim, orderVars, dbVars
    <3> QED
      BY <1>0, <2>3, <3>1, ReadKeepsInvariant, LockReservationKeepsInvariant,
         ExpireKeepsInvariant, LockOrderKeepsInvariant, EmitKeepsInvariant,
         CommitKeepsInvariant DEF JobStep
  <2>4. CASE \E p \in Handlers : HandlerVictim(p)
    BY <1>0, <1>a, <2>4, RollbackKeepsInvariant DEF HandlerVictim
  <2>5. CASE \E o \in Orders : Lapse(o)
    BY <1>0, <2>5, LapseKeepsInvariant
  <2>6. CASE Crash
    BY <1>0, <2>6, CrashKeepsInvariant
  <2>7. CASE UNCHANGED vars
    BY <1>0, <1>a, <2>7, SameTransactions, SameJobs, SameOrders DEF vars, dbVars, orderVars
  <2> QED
    BY <2>1, <2>2, <2>3, <2>4, <2>5, <2>6, <2>7 DEF Next
<1> QED
  BY <1>b, <1>c DEF IInv, OrdersOK

\* The inductive invariant holds in every reachable state.
THEOREM InvariantHolds == Spec => []IInv
<1>1. Init => IInv
  BY InitInvariant
<1>2. IInv /\ [Next]_vars => IInv'
  BY NextInvariant
<1> QED
  BY <1>1, <1>2, PTL DEF Spec

\* Tickets are issued once and exactly for the paid orders, for any number of
\* confirms, webhooks and runs of the job (server.ts:847-876,
\* applyPaymentEvent.ts:130-159).
THEOREM TicketsOnce == Spec => []TicketsMatchStatus
<1>1. IInv => TicketsMatchStatus
  BY DEF IInv
<1> QED
  BY <1>1, InvariantHolds, PTL

\* An order is charged at most once, and never when it stays unpaid
\* (server.ts:819-830, materializePayment of applyPaymentEvent.ts).
THEOREM ChargedOnce == Spec => []OnePaymentPerOrder
<1>1. IInv => OnePaymentPerOrder
  BY DEF IInv
<1> QED
  BY <1>1, InvariantHolds, PTL

\* The once-only events say which orders are paid (migrations 0007 and 0008).
THEOREM EventsSayPaid == Spec => []EventsMatchStatus
<1>1. IInv => EventsMatchStatus
  BY DEF IInv
<1> QED
  BY <1>1, InvariantHolds, PTL

\* No order that is still reserved has been announced as expired: a later run of
\* the job can always expire it (releaseExpiredReservations.ts:9-48).
THEOREM RunsAreNotPoisoned == Spec => []NoPoisonedRun
<1>1. IInv => NoPoisonedRun
  BY DEF IInv
<1> QED
  BY <1>1, InvariantHolds, PTL

\* The stock of a reserved order is not released under it, and that of a paid one
\* is (server.ts:878-881, releaseExpiredReservations.ts:14-15).
THEOREM StockFollowsStatus == Spec => []ReservationMatchesStatus
<1>1. IInv => ReservationMatchesStatus
  BY DEF IInv
<1> QED
  BY <1>1, InvariantHolds, PTL
-------------------------------------------------------------------------------
(* Who waits for whom                                                       *)

\* A request is never in a deadlock of which no run of the job is part: whenever a
\* request is in a cycle of waits, so is a run.  The order of locks of a request
\* (its order, its payment key, its reservations: server.ts:770-881,
\* applyPaymentEvent.ts:76-144) leaves requests no cycle of their own; the job
\* takes reservations first and orders then (releaseExpiredReservations.ts:14-15).
DeadlocksNeedTheJob ==
    \A p \in Handlers : Deadlocked(p) => \E j \in Jobs : Deadlocked(j)

\* An admitted request waits for paying ones, a paying one for runs of the job.
LEMMA RequestsWait ==
    ASSUME TypeOK, RequestsOK, NEW p \in Handlers, NEW q \in Processes, WaitsFor(p, q)
    PROVE  \/ At(p, "admitted") /\ q \in Handlers /\ At(q, "paying")
           \/ At(p, "paying") /\ q \in Jobs
<1>1. p \notin Jobs
  BY OrderLifecycleAssumption DEF Handlers
<1>2. CASE At(p, "admitted") /\ q \in Inserting(PayOf(p))
  BY <1>2 DEF Inserting
<1>3. CASE At(p, "paying") /\ q = resLock[OrderOf(p)]
  <2>1. OrderOf(p) \in Orders
    BY <1>3, HeldOrder DEF At, Held, OrderOf
  <2> QED
    BY <1>3, <2>1, OrderLifecycleAssumption DEF TypeOK, Processes, Handlers
<1> QED
  BY <1>1, <1>2, <1>3 DEF WaitsFor

\* What a deadlocked process waits for, if it is one process only, is in the cycle.
LEMMA SoleSuccessor ==
    ASSUME NEW p \in Processes, NEW q \in Processes, q # p, Deadlocked(p), WaitsFor(p, q),
           \A r \in Processes : WaitsFor(p, r) => r = q
    PROVE  Deadlocked(q)
<1>1. ASSUME NEW S \in SUBSET Processes,
             \A x \in S \cup {p}, r \in Processes : WaitsFor(x, r) => r \in S
      PROVE  p \in S
  BY <1>1 DEF Deadlocked
<1>2. \E r \in Processes : WaitsFor(q, r)
  <2> SUFFICES ASSUME \A r \in Processes : ~WaitsFor(q, r)
               PROVE  FALSE
    OBVIOUS
  <2>1. p \in {q}
    BY <1>1
  <2> QED
    BY <2>1
<1>3. ASSUME NEW S \in SUBSET Processes,
             \A x \in S \cup {q}, r \in Processes : WaitsFor(x, r) => r \in S
      PROVE  q \in S
  <2>1. p \in S \cup {q}
    <3>1. \A x \in (S \cup {q}) \cup {p}, r \in Processes :
            WaitsFor(x, r) => r \in S \cup {q}
      BY <1>3
    <3> QED
      BY <1>1, <3>1
  <2> QED
    BY <1>3, <2>1
<1> QED
  BY <1>2, <1>3 DEF Deadlocked

LEMMA OrdersOfLocks ==
    ASSUME IInv
    PROVE  DeadlocksNeedTheJob
<1> USE DEF IInv
<1>1. Handlers \cap Jobs = {} /\ Processes = Handlers \cup Jobs
  BY OrderLifecycleAssumption DEF Handlers, Processes
\* A paying request waits for the one run that holds its reservations.
<1>2. ASSUME NEW p \in Handlers, Deadlocked(p), At(p, "paying")
      PROVE  \E j \in Jobs : Deadlocked(j)
  <2>1. PICK j \in Processes : WaitsFor(p, j)
    BY <1>2 DEF Deadlocked
  <2>2. j \in Jobs /\ j # p
    BY <1>1, <1>2, <2>1, RequestsWait DEF At
  <2>3. \A r \in Processes : WaitsFor(p, r) => r = resLock[OrderOf(p)]
    BY <1>1, <1>2 DEF WaitsFor, At
  <2>4. Deadlocked(j)
    BY <1>1, <1>2, <2>1, <2>2, <2>3, SoleSuccessor
  <2> QED
    BY <2>2, <2>4
\* An admitted one waits for the one request that has inserted its payment key.
<1>3. ASSUME NEW p \in Handlers, Deadlocked(p), At(p, "admitted")
      PROVE  \E q \in Handlers : Deadlocked(q) /\ At(q, "paying")
  <2>1. PICK q \in Processes : WaitsFor(p, q)
    BY <1>3 DEF Deadlocked
  <2>2. q \in Inserting(PayOf(p)) /\ q # p
    BY <1>1, <1>3, <2>1 DEF WaitsFor, Inserting, At
  <2>3. ASSUME NEW r \in Processes, WaitsFor(p, r) PROVE r = q
    <3>1. r \in Inserting(PayOf(p))
      BY <1>1, <1>3, <2>3 DEF WaitsFor, At
    <3> QED
      BY <2>2, <3>1 DEF Inserting, TransactionsOK
  <2>4. Deadlocked(q)
    BY <1>1, <1>3, <2>1, <2>2, <2>3, SoleSuccessor
  <2> QED
    BY <2>2, <2>4 DEF Inserting
<1>4. ASSUME NEW p \in Handlers, Deadlocked(p)
      PROVE  At(p, "admitted") \/ At(p, "paying")
  BY <1>1, <1>4, RequestsWait DEF Deadlocked
<1> QED
  BY <1>2, <1>3, <1>4 DEF DeadlocksNeedTheJob

\* Confirms and webhooks alone never deadlock: in every cycle of waits a request
\* is in, however long, there is a run of the job, and the detector can end it
\* (server.ts:770-881, releaseExpiredReservations.ts:14-15).
THEOREM OnlyTheJobDeadlocks == Spec => []DeadlocksNeedTheJob
<1>1. IInv => DeadlocksNeedTheJob
  BY OrdersOfLocks
<1> QED
  BY <1>1, InvariantHolds, PTL
===============================================================================
