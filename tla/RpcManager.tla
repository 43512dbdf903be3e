------------------------------ MODULE RpcManager ------------------------------
(***************************************************************************)
(* Request/response correlation over MQTT (apps/server/src/rpc/manager.ts), *)
(* behind POST /api/devices/:id/rpc.  sendRpc() arms a timer, enters the    *)
(* request into the map `pending` and publishes it; the timer and the       *)
(* device's answer race to settle the promise the HTTP handler awaits.      *)
(*                                                                          *)
(* A call stands for its requestId (randomUUID).  The broker may lose,      *)
(* duplicate, delay and reorder: what was published is a set whose members  *)
(* may be delivered at any later time, any number of times, or never.  A    *)
(* response is correlated by the id in its topic alone.                     *)
(***************************************************************************)
EXTENDS Naturals, FiniteSets

CONSTANTS
    Calls,       \* requests of the HTTP API
    Methods,     \* the RPC methods
    Method       \* the method of each call

ASSUME RpcAssumption == IsFiniteSet(Calls) /\ Method \in [Calls -> Methods]

VARIABLES
    pending,     \* the map of pending requests
    timers,      \* the requests whose timer is armed
    promise,     \* the promise sendRpc returned for each call
    counter,     \* rpc requests counted by method and outcome
    requests,    \* published requests
    responses    \* published responses

vars == <<pending, timers, promise, counter, requests, responses>>

Outcomes == {"ok", "error", "timeout"}
Bodies == {"ok", "error", "malformed"}    \* what RpcResponseSchema makes of a payload
Response == [id : Calls, body : Bodies]

Init ==
    /\ pending = {} /\ timers = {}
    /\ promise = [c \in Calls |-> "none"]
    /\ counter = [k \in Methods \X Outcomes |-> 0]
    /\ requests = {} /\ responses = {}

(* resolve() and reject() have no effect on a promise that is settled. *)
Settled(c, o) == [promise EXCEPT ![c] = IF @ = "open" THEN o ELSE @]

IncRequests(m, o) == [counter EXCEPT ![<<m, o>>] = @ + 1]

-----------------------------------------------------------------------------
(* Slips a change of the code could make, one per property that catches it.  *)

(* The timer of an answered request is not cleared. *)
HandleResponseTicking(m) ==
    /\ m.id \in pending /\ m.body # "malformed"
    /\ pending' = pending \ {m.id}
    /\ counter' = IncRequests(Method[m.id], m.body)
    /\ promise' = Settled(m.id, m.body)
    /\ UNCHANGED <<timers, requests, responses>>

(* A response goes to some pending request, not to the one it names. *)
HandleResponseToAny(m) ==
    /\ m.body # "malformed"
    /\ \E c \in pending :
          /\ pending' = pending \ {c} /\ timers' = timers \ {c}
          /\ counter' = IncRequests(Method[c], m.body)
          /\ promise' = Settled(c, m.body)
    /\ UNCHANGED <<requests, responses>>

(* A malformed response uses its request up. *)
HandleResponseDropping(m) ==
    /\ m.id \in pending
    /\ pending' = pending \ {m.id} /\ timers' = timers \ {m.id}
    /\ IF m.body = "malformed" THEN UNCHANGED <<counter, promise>>
       ELSE /\ counter' = IncRequests(Method[m.id], m.body)
            /\ promise' = Settled(m.id, m.body)
    /\ UNCHANGED <<requests, responses>>

(* The timer leaves its request in the map. *)
TimeoutKeeping(c) ==
    /\ c \in timers
    /\ timers' = timers \ {c}
    /\ counter' = IncRequests(Method[c], "timeout")
    /\ promise' = Settled(c, "timeout")
    /\ UNCHANGED <<pending, requests, responses>>

-----------------------------------------------------------------------------
SendRpc(c) ==
    /\ promise[c] = "none"
    /\ promise' = [promise EXCEPT ![c] = "open"]
    /\ timers' = timers \cup {c}
    /\ pending' = pending \cup {c}
    /\ requests' = requests \cup {c}
    /\ UNCHANGED <<counter, responses>>

(* The device was delivered the request and answers it; a firmware may       *)
(* answer anything, and a request delivered twice is executed twice.         *)
DeviceResponds(c, body) ==
    /\ c \in requests
    /\ responses' = responses \cup {[id |-> c, body |-> body]}
    /\ UNCHANGED <<pending, timers, promise, counter, requests>>

(* A response that matches no pending request, or does not parse, changes    *)
(* nothing: there is no step for it.                                         *)
HandleResponse(m) ==
    /\ m.id \in pending /\ m.body # "malformed"
    /\ pending' = pending \ {m.id}
    /\ timers' = timers \ {m.id}
    /\ counter' = IncRequests(Method[m.id], m.body)
    /\ promise' = Settled(m.id, m.body)
    /\ UNCHANGED <<requests, responses>>

Timeout(c) ==
    /\ c \in timers
    /\ timers' = timers \ {c}
    /\ pending' = pending \ {c}
    /\ counter' = IncRequests(Method[c], "timeout")
    /\ promise' = Settled(c, "timeout")
    /\ UNCHANGED <<requests, responses>>

Next ==
    \/ \E c \in Calls : SendRpc(c) \/ Timeout(c)
    \/ \E c \in Calls, body \in Bodies : DeviceResponds(c, body)
    \/ \E m \in responses : HandleResponse(m)

(* A timer that is armed goes off; nothing is asked of broker or device. *)
Spec == Init /\ [][Next]_vars /\ \A c \in Calls : WF_vars(Timeout(c))

-----------------------------------------------------------------------------
RpcTypeOK ==
    /\ pending \subseteq Calls
    /\ timers \subseteq Calls
    /\ promise \in [Calls -> {"none", "open"} \cup Outcomes]
    /\ counter \in [Methods \X Outcomes -> Nat]
    /\ requests \subseteq Calls
    /\ responses \subseteq Response

Open == {c \in Calls : promise[c] = "open"}

(* The map holds exactly the calls some HTTP handler still awaits, whatever  *)
(* order answers and timers come in: no entry leaks, no caller is forgotten, *)
(* and a settled call has no timer left that could go off.                   *)
PendingIsOpen == pending = Open /\ timers = Open

(* Each call is counted exactly once, under the outcome its caller sees: the *)
(* late answer of a call that timed out, or a second answer, is not counted. *)
OutcomesCounted ==
    \A m \in Methods, o \in Outcomes :
        counter[<<m, o>>] = Cardinality({c \in Calls : Method[c] = m /\ promise[c] = o})

(* A caller is told "ok" or "error" only if the device sent that very answer *)
(* to that very request.                                                     *)
AnsweredByDevice ==
    \A c \in Calls : promise[c] \in {"ok", "error"} =>
        [id |-> c, body |-> promise[c]] \in responses

(* The manager implements the exchange: one result for each call, once and   *)
(* for all, which is the device's answer or a timeout; and every call gets   *)
(* it, even when the request or every answer is lost, or nothing but         *)
(* malformed answers arrive.                                                 *)
Promised == INSTANCE Exchange WITH result <- promise, answers <- responses

ImplementsExchange == Promised!Spec
===============================================================================
