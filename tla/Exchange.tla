------------------------------- MODULE Exchange -------------------------------
(***************************************************************************)
(* What POST /api/devices/:id/rpc promises, whatever carries the messages:  *)
(* "a synchronous HTTP facade over async messaging" (README.md).  A call is  *)
(* asked once and gets one result: an answer the device gave to it, or the  *)
(* word that there was none in time; and it does get one.                   *)
(***************************************************************************)
CONSTANT Calls

VARIABLES
    result,      \* none, open, or the result of each call
    answers      \* what devices answered to which call

exchangeVars == <<result, answers>>

Init ==
    /\ result = [c \in Calls |-> "none"]
    /\ answers = {}

Ask(c) ==
    /\ result[c] = "none"
    /\ result' = [result EXCEPT ![c] = "open"]
    /\ UNCHANGED answers

DeviceAnswers(c, body) ==
    /\ result[c] # "none"
    /\ answers' = answers \cup {[id |-> c, body |-> body]}
    /\ UNCHANGED result

(* An answer that says nothing leaves the call open. *)
Settle(c, o) ==
    /\ result[c] = "open"
    /\ o = "timeout" \/ [id |-> c, body |-> o] \in answers
    /\ result' = [result EXCEPT ![c] = o]
    /\ UNCHANGED answers

Next ==
    \E c \in Calls :
        \/ Ask(c)
        \/ \E body \in {"ok", "error", "malformed"} : DeviceAnswers(c, body)
        \/ \E o \in {"ok", "error", "timeout"} : Settle(c, o)

Spec ==
    /\ Init /\ [][Next]_exchangeVars
    /\ \A c \in Calls :
          WF_exchangeVars(\E o \in {"ok", "error", "timeout"} : Settle(c, o))
===============================================================================
