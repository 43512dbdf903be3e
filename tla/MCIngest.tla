------------------------------ MODULE MCIngest -------------------------------
(* A small instance of Ingest: two devices and four payloads, one with a      *)
(* good time, one without (posted over HTTP), one whose time is too far off   *)
(* and one that is malformed.                                                 *)
EXTENDS Ingest, TLC

CONSTANTS d1, d2, stamped, unstamped, farOff, malformed, none

MCDevices == {d1, d2}
MCMqtt == {stamped, farOff, malformed}
MCHttp == {unstamped}
MCDeviceOf ==
    stamped :> d1 @@ unstamped :> d1 @@ farOff :> d2 @@ malformed :> d2
MCStamp ==
    stamped :> 1 @@ unstamped :> none @@ farOff :> 9 @@ malformed :> none
==============================================================================
