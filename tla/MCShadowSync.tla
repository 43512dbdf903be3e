----------------------------- MODULE MCShadowSync -----------------------------
(* One device, whose plain key and firmware can be edited. *)
EXTENDS ShadowSync

CONSTANTS v1, v2

MCFirmwares == {v1, v2}
MCFactory == [plain |-> 0, firmware |-> v1]
===============================================================================
