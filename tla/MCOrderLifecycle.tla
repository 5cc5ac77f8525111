--------------------------- MODULE MCOrderLifecycle ---------------------------
(* Instances of OrderLifecycle for TLC.                                     *)
EXTENDS OrderInvariant, TLC


\* Event types: the three words alone, one with two of them, one with none.
AllTypes  == {{"paid"}, {"failed"}, {"refunded"}, {"paid", "failed"}, {}}
PaidOnly  == {{"paid"}}

Permuted == Permutations(Orders) \cup Permutations(Refs) \cup Permutations(Keys)
                \cup Permutations(EventIds)
                \cup Permutations(Confirmers) \cup Permutations(Webhooks)
                \cup Permutations(Jobs)
====
