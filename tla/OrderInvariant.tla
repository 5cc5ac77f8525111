---------------------------- MODULE OrderInvariant ----------------------------
(***************************************************************************)
(* The inductive invariant of OrderLifecycle: what each transaction that is *)
(* under way knows about the rows it has locked, and what follows for the  *)
(* orders.                                                                 *)
(***************************************************************************)
EXTENDS OrderLifecycle

\* A request keeps its arguments until it is done, and a webhook those of the
\* row it stored.
ConfirmOK(c) ==
    ~At(c, "idle") =>
        /\ OrderOf(c) \in Orders /\ PayOf(c) \in {Mock} \X Refs
        /\ handler[c].tag \in Keys
        /\ handler[c].pc \notin {"failing", "duplicate"}

HookOK(h) ==
    ~At(h, "idle") =>
        /\ handler[h].tag \in Events /\ EventOf(h) \in EventRows
        /\ ~At(h, "committed")
        /\ ~At(h, "duplicate") =>
             /\ EventOf(h).order = OrderOf(h)
             /\ PayOf(h) = <<handler[h].tag[1], EventOf(h).ref>>
        /\ handler[h].pc \in {"admitted", "paying"} =>
             OrderOf(h) \in Orders /\ PayOf(h) \in PayKeys /\ Target(h) = "paid"

RequestsOK ==
    /\ \A c \in Confirmers : ConfirmOK(c)
    /\ \A h \in Webhooks : HookOK(h)

\* Row locks belong to the transactions that think they hold them, and none
\* outlives its transaction.
LocksOK ==
    /\ \A p \in Handlers :
        handler[p].pc \in {"admitted", "paying"} => rowLock[OrderOf(p)] = p
    /\ \A j \in Jobs : \A o \in job[j].mine : rowLock[o] = j
    /\ \A p \in Handlers, o \in Orders :
        rowLock[o] = p => handler[p].pc \in {"admitted", "paying"} /\ OrderOf(p) = o
    /\ \A j \in Jobs, o \in Orders :
        rowLock[o] = j => job[j].pc = "expiring" /\ o \in job[j].mine
    /\ \A j \in Jobs, o \in Orders : resLock[o] = j => job[j].pc # "idle"

\* What a paying transaction has checked still holds: its order is open and its
\* payment key unused, by a committed payment or by another paying transaction.
TransactionsOK ==
    /\ \A p \in Handlers :
        /\ At(p, "admitted") => status[OrderOf(p)] \in {"pending", "reserved", "expired", "canceled"}
        /\ At(p, "admitted") /\ p \in Confirmers => status[OrderOf(p)] = "reserved"
        /\ At(p, "paying") =>
             status[OrderOf(p)] \in {"pending", "reserved"} /\ payment[PayOf(p)] = None
    /\ \A p, q \in Handlers :
        At(p, "paying") /\ At(q, "paying") /\ PayOf(p) = PayOf(q) => p = q

\* The rows of a run: all past their deadline; the ones it expires are still
\* reserved; a reserved order of its list is one whose reservation it has yet to
\* visit or holds, and later one it has yet to visit or expires.
RunOK(j) ==
    /\ \A o \in job[j].now : due[o] = "past"
    /\ \A o \in Orders : resLock[o] = j => o \in job[j].now
    /\ job[j].list \subseteq job[j].now
    /\ job[j].todo \subseteq job[j].now
    /\ job[j].mine \subseteq job[j].now
    /\ job[j].todo \cap job[j].mine = {}
    /\ \A o \in job[j].mine : status[o] = "reserved"
    /\ job[j].pc # "expiring" => job[j].mine = {}
    /\ job[j].pc = "idle" => job[j].todo = {}
    /\ \A o \in job[j].now : status[o] = "reserved" =>
         /\ job[j].pc = "releasing" => o \in job[j].todo \/ resLock[o] = j
         /\ job[j].pc = "expiring" => /\ o \in job[j].todo \cup job[j].mine
                                      /\ resLock[o] = j

JobsOK == \A j \in Jobs : RunOK(j)

\* Deadlines: an expired order is past its deadline, a canceled one has none.
DeadlinesOK ==
    \A o \in Orders :
        /\ status[o] = "expired" => due[o] = "past"
        /\ status[o] = "canceled" => due[o] = "none"

\* The inductive invariant.
IInv ==
    /\ TypeOK /\ RequestsOK /\ LocksOK /\ TransactionsOK /\ JobsOK /\ DeadlinesOK
    /\ TicketsMatchStatus /\ EventsMatchStatus /\ OnePaymentPerOrder
    /\ ReservationMatchesStatus /\ NoPoisonedRun
===============================================================================
