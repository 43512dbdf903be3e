----------------------------- MODULE MCRpcManager -----------------------------
(* Three calls, two of them of one method. *)
EXTENDS RpcManager, TLC

CONSTANTS c1, c2, c3, readNow, reboot

MCCalls == {c1, c2, c3}
MCMethods == {readNow, reboot}
MCMethod == c1 :> readNow @@ c2 :> readNow @@ c3 :> reboot
===============================================================================
