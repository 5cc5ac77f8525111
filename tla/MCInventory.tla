------------------------------ MODULE MCInventory ------------------------------
(* Instances of Inventory for TLC.                                          *)
EXTENDS Inventory, TLC

CONSTANTS a, b, c, f

L(t, n) == [type |-> t, quantity |-> n]

MCTypes       == {a, b, c, f}
MCQuota       == a :> 4 @@ b :> 2 @@ c :> 2 @@ f :> 1
MCMaxPerOrder == a :> 2 @@ b :> 1 @@ c :> 1 @@ f :> 1
MCRank        == a :> 1 @@ b :> 2 @@ c :> 3 @@ f :> 4

\* Three carts that make a ring when each request locks the types in the order of
\* its body; a type on two lines, a quantity over the maximum, a foreign type.
MCCarts == {<<L(a, 2), L(b, 1)>>, <<L(b, 1), L(c, 1)>>, <<L(c, 1), L(a, 1)>>,
            <<L(a, 2), L(a, 1)>>, <<L(a, 3)>>, <<L(a, 1), L(f, 1)>>}

Permuted == Permutations(Keys) \cup Permutations(Orders) \cup Permutations(Requests)
===============================================================================
