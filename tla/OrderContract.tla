----------------------------- MODULE OrderContract -----------------------------
(***************************************************************************)
(* What the payment paths and the expiry job promise about an order, with  *)
(* every transaction a single step: the paid transition, its payment, its  *)
(* tickets and the release of its reservation happen together or not at    *)
(* all, once, and only to an order that is still open.  A payment may be   *)
(* found late only after the deadline; one found in time may commit after. *)
(***************************************************************************)
CONSTANTS Orders, PayKeys, None

VARIABLES status, due, held, payment, tickets

contractVars == <<status, due, held, payment, tickets>>

Init ==
    /\ status \in [Orders -> {"reserved", "pending", "canceled"}]
    /\ due = [o \in Orders |-> IF status[o] = "canceled" THEN "none" ELSE "ahead"]
    /\ held = {o \in Orders : status[o] = "reserved"}
    /\ payment = [k \in PayKeys |-> None]
    /\ tickets = [o \in Orders |-> 0]

Become(o, s) == status' = [status EXCEPT ![o] = s]
Record(o, k) == payment[k] = None /\ payment' = [payment EXCEPT ![k] = o]

\* The paid transition.
Pay(o, k) ==
    /\ status[o] \in {"pending", "reserved"}
    /\ Become(o, "paid")
    /\ Record(o, k)
    /\ tickets' = [tickets EXCEPT ![o] = 1]
    /\ held' = held \ {o}
    /\ UNCHANGED due

\* A payment past the deadline is kept for review and issues nothing.
PayLate(o, k) ==
    /\ status[o] \in {"pending", "reserved", "expired"} /\ due[o] = "past"
    /\ Become(o, "paid_no_stock")
    /\ Record(o, k)
    /\ UNCHANGED <<due, held, tickets>>

\* A payment of a canceled order is only recorded.
PayCanceled(o, k) ==
    /\ status[o] = "canceled"
    /\ Record(o, k)
    /\ UNCHANGED <<status, due, held, tickets>>

Fail(o) ==
    /\ status[o] \in {"pending", "reserved"}
    /\ Become(o, "failed")
    /\ UNCHANGED <<due, held, payment, tickets>>

Refund(o) ==
    /\ status[o] \in {"pending", "reserved", "expired"}
    /\ Become(o, "refunded")
    /\ UNCHANGED <<due, held, payment, tickets>>

\* A run of the job: it expires reserved orders past their deadline together
\* with their reservations, and releases the reservations other orders left.
Expire(S, R) ==
    /\ S \subseteq R
    /\ \A o \in R : due[o] = "past"
    /\ \A o \in S : status[o] = "reserved"
    /\ \A o \in R \ S : status[o] # "reserved"
    /\ status' = [o \in Orders |-> IF o \in S THEN "expired" ELSE status[o]]
    /\ held' = held \ R
    /\ UNCHANGED <<due, payment, tickets>>

Lapse(o) ==
    /\ due[o] = "ahead"
    /\ due' = [due EXCEPT ![o] = "past"]
    /\ UNCHANGED <<status, held, payment, tickets>>

Next ==
    \/ \E o \in Orders, k \in PayKeys : Pay(o, k) \/ PayLate(o, k) \/ PayCanceled(o, k)
    \/ \E o \in Orders : Fail(o) \/ Refund(o) \/ Lapse(o)
    \/ \E S, R \in SUBSET Orders : Expire(S, R)

Spec == Init /\ [][Next]_contractVars
===============================================================================
