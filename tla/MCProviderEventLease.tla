------------------------ MODULE MCProviderEventLease ------------------------
(* Instances of ProviderEventLease for TLC.                                 *)
EXTENDS ProviderEventLease, TLC

Permuted == Permutations(Events) \cup Permutations(Workers)
===============================================================================
