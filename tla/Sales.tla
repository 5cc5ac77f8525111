--------------------------------- MODULE Sales ---------------------------------
(***************************************************************************)
(* What the sale of an event's tickets promises, each operation one step:  *)
(* a reservation takes all the lines of a cart off the stock or none, for  *)
(* a key that has no order yet, and an order is then paid or expires.      *)
(***************************************************************************)
EXTENDS Naturals, Sequences, FiniteSets

CONSTANTS
    Types,   \* ticket types
    Quota,   \* how many tickets there are of a type
    Carts,   \* sequences of lines, each with a type and a quantity
    Keys, Orders, None

VARIABLES remaining, cart, fate, key

salesVars == <<remaining, cart, fate, key>>

SalesTypeOK ==
    /\ remaining \in [Types -> Nat]
    /\ cart \in [Orders -> Carts \cup {None}]
    /\ fate \in [Orders -> {"none", "reserved", "paid", "expired"}]
    /\ key \in [Keys -> Orders \cup {None}]

SalesInit ==
    /\ remaining = Quota
    /\ cart = [o \in Orders |-> None]
    /\ fate = [o \in Orders |-> "none"]
    /\ key = [k \in Keys |-> None]

\* The tickets of type t in cart c, by line and number, and how many they are.
Units(c, t) == UNION {{i} \X (1..c[i].quantity) : i \in {l \in DOMAIN c : c[l].type = t}}

Quantity(c, t) == Cardinality(Units(c, t))

BugFirstLine(c) == c[1].quantity <= remaining[c[1].type]

InStock(c) == \A t \in Types : Quantity(c, t) <= remaining[t]

Reserve(k, o, c) ==
    /\ key[k] = None /\ cart[o] = None
    /\ InStock(c)
    /\ remaining' = [t \in Types |-> remaining[t] - Quantity(c, t)]
    /\ cart' = [cart EXCEPT ![o] = c]
    /\ fate' = [fate EXCEPT ![o] = "reserved"]
    /\ key' = [key EXCEPT ![k] = o]

Settle(o, f) ==
    /\ fate[o] = "reserved"
    /\ fate' = [fate EXCEPT ![o] = f]
    /\ UNCHANGED <<remaining, cart, key>>

Pay(o)    == Settle(o, "paid")
Expire(o) == Settle(o, "expired")

SalesNext ==
    \/ \E k \in Keys, o \in Orders, c \in Carts : Reserve(k, o, c)
    \/ \E o \in Orders : Pay(o) \/ Expire(o)

SalesSpec == SalesInit /\ [][SalesNext]_salesVars
===============================================================================
