------------------------------- MODULE Dashboard -------------------------------
(***************************************************************************)
(* buildEventDashboard: the numbers of an event, read by statements that   *)
(* run at the same time on connections of their own, while the event       *)
(* sells, expires and admits.  There is no snapshot they share; only the   *)
(* time reservations are compared with is read once, at the start.         *)
(***************************************************************************)
EXTENDS Sales

ASSUME DashAssumption ==
    /\ IsFiniteSet(Types) /\ IsFiniteSet(Orders)
    /\ Quota \in [Types -> Nat]
    /\ Carts \subseteq Seq([type : Types, quantity : Nat \ {0}])
    /\ None \notin Carts

VARIABLES
    lapsed,    \* orders whose reservations are past their expiresAt
    admitted,  \* checked-in tickets
    board      \* the dashboard that is being built

dashVars == <<salesVars, lapsed, admitted, board>>

Totals  == {"ordersPaid", "ticketsSold", "checkins", "reservationsActive"}
Grouped == {"soldByType", "checkedInByType", "reservedByType"}

-------------------------------------------------------------------------------
(* The tables                                                               *)

Paid == {o \in Orders : fate[o] = "paid"}

\* What the orders in S have of type t, unit by unit: reserved units while they are
\* reserved, rows of Ticket once they are paid.
UnitsOf(S, t) == UNION {{o} \X Units(cart[o], t) : o \in S}

\* Tickets of paid orders in status issued and in status checked_in.
Issued(t)    == UnitsOf(Paid, t) \ admitted
CheckedIn(t) == UnitsOf(Paid, t) \cap admitted

BugIssuedOnly == UNION {Issued(t) : t \in Types}

\* Tickets of both statuses.
ticketsSold == UNION {Issued(t) \cup CheckedIn(t) : t \in Types}
checkins    == UNION {CheckedIn(t) : t \in Types}

soldByType      == [t \in Types |-> Cardinality(Issued(t) \cup CheckedIn(t))]
checkedInByType == [t \in Types |-> Cardinality(CheckedIn(t))]

\* Reservations that are not released, and not past `now` as of the orders in late.
Active(late) == {o \in Orders \ late : fate[o] = "reserved"}

BugUnreleased(late) == [t \in Types |-> Cardinality(UnitsOf(Active({}), t))]

reservedByType(late) == [t \in Types |-> Cardinality(UnitsOf(Active(late), t))]

\* What a statement returns of the tables as they are.
ReadTotal(q, late) ==
    CASE q = "ordersPaid"         -> Cardinality(Paid)
      [] q = "ticketsSold"        -> Cardinality(ticketsSold)
      [] q = "checkins"           -> Cardinality(checkins)
      [] q = "reservationsActive" -> Cardinality(UNION {UnitsOf(Active(late), t) : t \in Types})

ReadGrouped(q, late) ==
    CASE q = "soldByType"      -> soldByType
      [] q = "checkedInByType" -> checkedInByType
      [] q = "reservedByType"  -> reservedByType(late)

\* Those that never decrease.
Growing == Totals \ {"reservationsActive"}
Numbers == [q \in Growing |-> ReadTotal(q, {})]

BoardStates ==
    [todo   : SUBSET (Totals \cup Grouped),  \* statements that have not returned
     late   : SUBSET Orders,                 \* orders that `now` puts past expiresAt
     total  : [Totals -> Nat],
     byType : [Grouped -> [Types -> Nat]],
     low    : [Growing -> Nat],              \* history: the numbers at the start
     quiet  : BOOLEAN]                       \* history: nothing was committed since

DashTypeOK ==
    /\ SalesTypeOK
    /\ lapsed \subseteq Orders
    /\ admitted \subseteq Orders \X (Nat \X Nat)
    /\ board \in BoardStates

NoTotals  == [q \in Totals |-> 0]
NoGrouped == [q \in Grouped |-> [t \in Types |-> 0]]

DashInit ==
    /\ SalesInit
    /\ lapsed = {}
    /\ admitted = {}
    /\ board = [todo |-> {}, late |-> {}, total |-> NoTotals, byType |-> NoGrouped,
                low |-> Numbers, quiet |-> FALSE]

-------------------------------------------------------------------------------
(* What goes on meanwhile                                                   *)

\* /checkout/reserve, and the paid transition.
Sell ==
    /\ \/ \E k \in Keys, o \in Orders, c \in Carts : Reserve(k, o, c)
       \/ \E o \in Orders : Pay(o)
    /\ board' = [board EXCEPT !.quiet = FALSE]
    /\ UNCHANGED <<lapsed, admitted>>

\* The clock passes the expiresAt of a reservation, and the job comes by later.
Lapse(o) ==
    /\ fate[o] = "reserved"
    /\ lapsed' = lapsed \cup {o}
    /\ UNCHANGED <<salesVars, admitted, board>>

ExpireLapsed(o) ==
    /\ o \in lapsed
    /\ Expire(o)
    /\ board' = [board EXCEPT !.quiet = FALSE]
    /\ UNCHANGED <<lapsed, admitted>>

\* /checkin/scan
Admit(x) ==
    /\ \E t \in Types : x \in Issued(t)
    /\ admitted' = admitted \cup {x}
    /\ board' = [board EXCEPT !.quiet = FALSE]
    /\ UNCHANGED <<salesVars, lapsed>>
-------------------------------------------------------------------------------
Start ==
    /\ board' = [todo |-> Totals \cup Grouped, late |-> lapsed, total |-> NoTotals,
                 byType |-> NoGrouped, low |-> Numbers, quiet |-> TRUE]
    /\ UNCHANGED <<salesVars, lapsed, admitted>>

\* The statements of Promise.all, in any order.
Run(q) ==
    /\ q \in board.todo
    /\ board' = IF q \in Totals
                THEN [board EXCEPT !.todo = @ \ {q}, !.total[q] = ReadTotal(q, board.late)]
                ELSE [board EXCEPT !.todo = @ \ {q}, !.byType[q] = ReadGrouped(q, board.late)]
    /\ UNCHANGED <<salesVars, lapsed, admitted>>

\* byTicketType
available(t) ==
    LET taken == board.byType["soldByType"][t] + board.byType["reservedByType"][t]
    IN  IF taken > Quota[t] THEN 0 ELSE Quota[t] - taken
-------------------------------------------------------------------------------
DashNext ==
    \/ Sell
    \/ \E o \in Orders : Lapse(o) \/ ExpireLapsed(o)
    \/ \E x \in ticketsSold : Admit(x)
    \/ Start
    \/ \E q \in Totals \cup Grouped : Run(q)
-------------------------------------------------------------------------------
(* Properties                                                               *)

\* The numbers of all ticket types together.
Total(f) == Cardinality(UNION {{t} \X (1..f[t]) : t \in Types})

\* Read one after the other or not, the growing numbers are of the time the
\* dashboard was built in: none is less than it was at the start or more than it is
\* when shown; a ticket that is checked in goes on being sold
\* (dashboard.service.ts:99-147).
NumbersAreOfTheTime ==
    \A q \in Growing \ board.todo :
        /\ board.low[q] <= board.total[q]
        /\ board.total[q] <= ReadTotal(q, {})

\* A dashboard that no transaction overlapped adds up: the totals are the sums of
\* the ticket types, nobody was admitted without a ticket, and what it says is
\* available is not less than the stock reserve sells from
\* (dashboard.service.ts:105-147, 208-228).
QuietBoardsAddUp ==
    board.todo = {} /\ board.quiet =>
        /\ board.total["ticketsSold"] = Total(board.byType["soldByType"])
        /\ board.total["checkins"] = Total(board.byType["checkedInByType"])
        /\ board.total["reservationsActive"] = Total(board.byType["reservedByType"])
        /\ \A t \in Types :
            /\ board.byType["checkedInByType"][t] <= board.byType["soldByType"][t]
            /\ available(t) >= remaining[t]
===============================================================================
