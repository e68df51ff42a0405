------------------------------ MODULE DoorMC ------------------------------
(* Door on small instances.                                                *)
EXTENDS Door
CONSTANTS q1, q2, p

TwoRequests   == {q1, q2}
OnlyQ1        == {q1}
===========================================================================
