------------------------------- MODULE MCFleet -------------------------------
(* The fleet view with two devices, one provisioned while it is open.         *)
EXTENDS FleetView

CONSTANTS d1, d2, p1, p2

FairSpec == FleetSpec /\ FleetFairness
==============================================================================
