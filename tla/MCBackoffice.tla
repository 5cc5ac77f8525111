------------------------------ MODULE MCBackoffice ------------------------------
(* Instances of Backoffice for TLC.                                         *)
EXTENDS Backoffice, TLC

CONSTANTS u1, u2, u3, m1, m2, m3, o1

Row(u, r) == [user |-> u, role |-> r]

\* Two owners; the organizer as POST /organizers leaves it.
MCFounders ==
    {m1 :> Row(u1, "owner") @@ m2 :> Row(u2, "owner") @@ m3 :> None,
     m1 :> Row(u1, "owner") @@ m2 :> None @@ m3 :> None}

MCOrderOf == [c \in Cases |-> o1]

Permuted == Permutations(Sessions) \cup Permutations(Cases)
===============================================================================
