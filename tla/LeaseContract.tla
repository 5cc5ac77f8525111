----------------------------- MODULE LeaseContract -----------------------------
(***************************************************************************)
(* What a claim of a provider event promises, as a lock with a deadline: a *)
(* claim is one atomic grant of an event that is new, failed or whose      *)
(* lease is over, and an event is settled only by somebody it was granted  *)
(* to, in time or not.                                                     *)
(***************************************************************************)
EXTENDS Naturals

CONSTANTS Events, Workers, Lease

VARIABLES
    clock,  \* the time
    phase,  \* new, held, failed or done
    until,  \* end of the lease of a held event, 0 of others
    busy    \* to whom an event was granted who has not given it back

vars == <<clock, phase, until, busy>>

Init ==
    /\ clock = 0
    /\ phase = [e \in Events |-> "new"]
    /\ until = [e \in Events |-> 0]
    /\ busy = [e \in Events |-> {}]

Free(e) == phase[e] \in {"new", "failed"} \/ (phase[e] = "held" /\ until[e] <= clock)

Grant(w, e) ==
    /\ Free(e)
    /\ \A d \in Events : w \notin busy[d]
    /\ phase' = [phase EXCEPT ![e] = "held"]
    /\ \E u \in 1..(clock + Lease) : until' = [until EXCEPT ![e] = u]
    /\ busy' = [busy EXCEPT ![e] = @ \cup {w}]
    /\ UNCHANGED clock

Settle(w, e, p) ==
    /\ w \in busy[e]
    /\ phase' = [phase EXCEPT ![e] = p]
    /\ until' = [until EXCEPT ![e] = 0]
    /\ busy' = [busy EXCEPT ![e] = @ \ {w}]
    /\ UNCHANGED clock

\* A holder dies; its lease runs on.
Abandon(w, e) ==
    /\ w \in busy[e]
    /\ busy' = [busy EXCEPT ![e] = @ \ {w}]
    /\ UNCHANGED <<clock, phase, until>>

Pass == clock' = clock + 1 /\ UNCHANGED <<phase, until, busy>>

Next ==
    \/ \E w \in Workers, e \in Events :
        \/ Grant(w, e)
        \/ Settle(w, e, "done")
        \/ Settle(w, e, "failed")
        \/ Abandon(w, e)
    \/ Pass

Spec == Init /\ [][Next]_vars
===============================================================================
