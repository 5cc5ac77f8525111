------------------------------- MODULE MCScreens -------------------------------
(* Instances of Screens for TLC.                                            *)
EXTENDS Screens, TLC

CONSTANTS a, b

L(t, n) == [type |-> t, quantity |-> n]

MCQuota == a :> 2 @@ b :> 1
MCCarts == {<<L(a, 1), L(b, 1)>>, <<L(a, 1)>>}

Permuted == Permutations(Keys) \cup Permutations(Orders)
===============================================================================
