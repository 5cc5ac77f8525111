-------------------------------- MODULE Screens --------------------------------
(***************************************************************************)
(* The two read-only screens of an event.  They read different tables and  *)
(* write none, so a behaviour shows one of them, with the transactions     *)
(* that write what it reads.                                               *)
(***************************************************************************)
EXTENDS ActivityFeed, Dashboard

VARIABLE screen  \* the one that is open

vars == <<screen, feedVars, dashVars>>

TypeOK == screen \in {"activity", "dashboard"} /\ FeedTypeOK /\ DashTypeOK

Init == screen \in {"activity", "dashboard"} /\ FeedInit /\ DashInit

Next ==
    /\ \/ screen = "activity" /\ FeedNext /\ UNCHANGED dashVars
       \/ screen = "dashboard" /\ DashNext /\ UNCHANGED feedVars
    /\ UNCHANGED screen

Spec == Init /\ [][Next]_vars
===============================================================================
