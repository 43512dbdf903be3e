---------------------------- MODULE MCAlertEngine -----------------------------
(* One device; a rule that fires at once and cools down, and a rule that      *)
(* waits for a duration and does not cool down.                               *)
EXTENDS AlertEngine, TLC

CONSTANTS high, sustained

MCRules == {high, sustained}
MCDuration == high :> 0 @@ sustained :> 1
MCCooldown == high :> 1 @@ sustained :> 0
===============================================================================
