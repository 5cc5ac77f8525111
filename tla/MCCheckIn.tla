------------------------------- MODULE MCCheckIn -------------------------------
(* Instances of CheckIn for TLC.                                            *)
EXTENDS CheckIn, TLC
===============================================================================
