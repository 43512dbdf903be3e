------------------------------- MODULE MCAccess -------------------------------
(* The simulated fleet provisions itself and its devices use the broker.      *)
EXTENDS Access

CONSTANTS i1, i2, i3, i4, i5, r1, r2
==============================================================================
