------------------------------- MODULE RpcProof -------------------------------
(***************************************************************************)
(* The RPC manager for every set of calls and methods: the map, the timers, *)
(* the promises and the counters agree at every moment.  RpcInv is          *)
(* inductive as the conjunction of the four invariants: that an answer is   *)
(* counted once rests on PendingIsOpen (an entry of the map has an open     *)
(* promise), and PendingIsOpen on nothing but itself and the types.         *)
(***************************************************************************)
EXTENDS RpcManager, FiniteSetTheorems, TLAPS

RpcInv == RpcTypeOK /\ PendingIsOpen /\ OutcomesCounted /\ AnsweredByDevice

(* The calls of one method that settled with one outcome. *)
Tally(p, m, o) == {c \in Calls : Method[c] = m /\ p[c] = o}

-----------------------------------------------------------------------------
(* A tally is finite, and no call is in it before it is settled so. *)
LEMMA TallyFinite ==
    ASSUME NEW p, NEW m, NEW o
    PROVE  IsFiniteSet(Tally(p, m, o))
<1>1. Tally(p, m, o) \in SUBSET Calls  BY DEF Tally
<1>. QED  BY <1>1, FS_Subset, RpcAssumption

(* Settling an open call adds one to the tally of its method and outcome     *)
(* and leaves every other tally of outcomes alone.                           *)
LEMMA TallySettles ==
    ASSUME NEW p \in [Calls -> {"none", "open"} \cup Outcomes],
           NEW c \in Calls, NEW out \in Outcomes, p[c] = "open",
           NEW q, \A d \in Calls : q[d] = IF d = c THEN out ELSE p[d],
           NEW m \in Methods, NEW o \in Outcomes
    PROVE  Cardinality(Tally(q, m, o)) =
             IF m = Method[c] /\ o = out THEN Cardinality(Tally(p, m, o)) + 1
                                         ELSE Cardinality(Tally(p, m, o))
<1>1. c \notin Tally(p, m, o)  BY DEF Tally, Outcomes
<1>2. CASE m = Method[c] /\ o = out
  <2>1. Tally(q, m, o) = Tally(p, m, o) \cup {c}  BY <1>2 DEF Tally
  <2>2. IsFiniteSet(Tally(p, m, o))  BY TallyFinite
  <2>3. Cardinality(Tally(p, m, o) \cup {c}) = Cardinality(Tally(p, m, o)) + 1
    BY <2>2, <1>1, FS_AddElement
  <2>. QED  BY <2>1, <2>3, <1>2
<1>3. CASE ~(m = Method[c] /\ o = out)
  <2>1. Tally(q, m, o) = Tally(p, m, o)  BY <1>1, <1>3 DEF Tally
  <2>. QED  BY <2>1, <1>3
<1>. QED  BY <1>2, <1>3

(* What answer and timer have in common: the call leaves the map and its     *)
(* timer, its promise settles and the outcome is counted.                    *)
LEMMA CallSettles ==
    ASSUME RpcInv, NEW c \in pending, NEW o \in Outcomes,
           pending' = pending \ {c}, timers' = timers \ {c},
           counter' = IncRequests(Method[c], o), promise' = Settled(c, o),
           UNCHANGED <<requests, responses>>
    PROVE  RpcTypeOK' /\ PendingIsOpen' /\ OutcomesCounted'
<1>1. c \in Calls /\ promise[c] = "open"  BY DEF RpcInv, PendingIsOpen, Open
<1>2. promise' = [promise EXCEPT ![c] = o]  BY <1>1 DEF Settled
<1>3. Method[c] \in Methods  BY <1>1, RpcAssumption
<1>4. \A m \in Methods, n \in Outcomes : counter[<<m, n>>] \in Nat
  BY DEF RpcInv, RpcTypeOK
<1>5. \A m \in Methods, n \in Outcomes :
        counter'[<<m, n>>] = IF m = Method[c] /\ n = o THEN counter[<<m, n>>] + 1 ELSE counter[<<m, n>>]
  BY <1>3 DEF RpcInv, RpcTypeOK, IncRequests
<1>6. RpcTypeOK'
  <2>1. counter' \in [Methods \X Outcomes -> Nat]
    BY <1>3, <1>4 DEF RpcInv, RpcTypeOK, IncRequests
  <2>2. promise' \in [Calls -> {"none", "open"} \cup Outcomes]
    BY <1>1, <1>2 DEF RpcInv, RpcTypeOK
  <2>. QED  BY <2>1, <2>2 DEF RpcInv, RpcTypeOK
<1>7. PendingIsOpen'
  <2>1. Open' = Open \ {c}
    BY <1>1, <1>2 DEF Open, Outcomes, RpcInv, RpcTypeOK
  <2>. QED  BY <2>1 DEF RpcInv, PendingIsOpen
<1>8. OutcomesCounted'
  <2>. SUFFICES ASSUME NEW m \in Methods, NEW n \in Outcomes
                PROVE  counter'[<<m, n>>] = Cardinality(Tally(promise', m, n))
    BY DEF OutcomesCounted, Tally
  <2>1. counter[<<m, n>>] = Cardinality(Tally(promise, m, n))
    BY DEF RpcInv, OutcomesCounted, Tally
  <2>2. Cardinality(Tally(promise', m, n)) =
          IF m = Method[c] /\ n = o THEN Cardinality(Tally(promise, m, n)) + 1
                                    ELSE Cardinality(Tally(promise, m, n))
    <3>1. \A d \in Calls : promise'[d] = IF d = c THEN o ELSE promise[d]
      BY <1>2 DEF RpcInv, RpcTypeOK
    <3>2. promise \in [Calls -> {"none", "open"} \cup Outcomes]
      BY DEF RpcInv, RpcTypeOK
    <3>. QED  BY <1>1, <3>1, <3>2, TallySettles
  <2>. QED  BY <1>5, <2>1, <2>2
<1>. QED  BY <1>6, <1>7, <1>8

-----------------------------------------------------------------------------
(* The invariant holds at the start. *)
LEMMA InitInv == Init => RpcInv
<1>. SUFFICES ASSUME Init PROVE RpcInv
  OBVIOUS
<1>1. RpcTypeOK  BY DEF Init, RpcTypeOK
<1>2. PendingIsOpen  BY DEF Init, PendingIsOpen, Open
<1>3. OutcomesCounted
  <2>. SUFFICES ASSUME NEW m \in Methods, NEW o \in Outcomes
                PROVE  counter[<<m, o>>] = Cardinality({c \in Calls : Method[c] = m /\ promise[c] = o})
    BY DEF OutcomesCounted
  <2>1. {c \in Calls : Method[c] = m /\ promise[c] = o} = {}
    BY DEF Init, Outcomes
  <2>2. counter[<<m, o>>] = 0  BY DEF Init
  <2>. QED  BY <2>1, <2>2, FS_EmptySet
<1>4. AnsweredByDevice  BY DEF Init, AnsweredByDevice
<1>. QED  BY <1>1, <1>2, <1>3, <1>4 DEF RpcInv

(* sendRpc() keeps the invariant: the new call is open, pending and timed.   *)
LEMMA SendRpcInv ==
    ASSUME RpcInv, NEW c \in Calls, SendRpc(c)
    PROVE  RpcInv'
<1>. USE DEF SendRpc
<1>1. RpcTypeOK'  BY DEF RpcInv, RpcTypeOK
<1>2. PendingIsOpen'
  <2>1. Open' = Open \cup {c}  BY DEF Open, RpcInv, RpcTypeOK
  <2>. QED  BY <2>1 DEF RpcInv, PendingIsOpen
<1>3. OutcomesCounted'
  <2>1. ASSUME NEW m \in Methods, NEW o \in Outcomes
        PROVE  Tally(promise', m, o) = Tally(promise, m, o)
    BY DEF Tally, Outcomes, RpcInv, RpcTypeOK
  <2>. QED  BY <2>1 DEF RpcInv, OutcomesCounted, Tally
<1>4. AnsweredByDevice'  BY DEF RpcInv, RpcTypeOK, AnsweredByDevice
<1>. QED  BY <1>1, <1>2, <1>3, <1>4 DEF RpcInv

(* So does the device's answer, which the server has yet to see.             *)
LEMMA DeviceRespondsInv ==
    ASSUME RpcInv, NEW c \in Calls, NEW body \in Bodies, DeviceResponds(c, body)
    PROVE  RpcInv'
<1>. USE DEF DeviceResponds
<1>1. RpcTypeOK'  BY DEF RpcInv, RpcTypeOK, Response
<1>2. PendingIsOpen'  BY DEF RpcInv, PendingIsOpen, Open
<1>3. OutcomesCounted'  BY DEF RpcInv, OutcomesCounted
<1>4. AnsweredByDevice'  BY DEF RpcInv, AnsweredByDevice
<1>. QED  BY <1>1, <1>2, <1>3, <1>4 DEF RpcInv

(* So does an answer that arrives for a pending call.                        *)
LEMMA HandleResponseInv ==
    ASSUME RpcInv, NEW m \in responses, HandleResponse(m)
    PROVE  RpcInv'
<1>1. m \in Response  BY DEF RpcInv, RpcTypeOK
<1>2. m.id \in pending /\ m.body \in {"ok", "error"} /\ m.body \in Outcomes
  BY <1>1 DEF HandleResponse, Response, Bodies, Outcomes
<1>3. RpcTypeOK' /\ PendingIsOpen' /\ OutcomesCounted'
  BY <1>2, CallSettles DEF HandleResponse
<1>4. AnsweredByDevice'
  <2>. SUFFICES ASSUME NEW c \in Calls, promise'[c] \in {"ok", "error"}
                PROVE  [id |-> c, body |-> promise'[c]] \in responses
    BY DEF AnsweredByDevice, HandleResponse
  <2>1. CASE c = m.id
    <3>1. promise[c] = "open"  BY <1>2, <2>1 DEF RpcInv, PendingIsOpen, Open
    <3>2. promise'[c] = m.body
      BY <2>1, <3>1 DEF HandleResponse, Settled, RpcInv, RpcTypeOK
    <3>3. m = [id |-> c, body |-> m.body]  BY <1>1, <2>1 DEF Response
    <3>. QED  BY <3>2, <3>3
  <2>2. CASE c # m.id
    <3>1. promise'[c] = promise[c]
      BY <2>2 DEF HandleResponse, Settled, RpcInv, RpcTypeOK
    <3>. QED  BY <3>1 DEF RpcInv, AnsweredByDevice
  <2>. QED  BY <2>1, <2>2
<1>. QED  BY <1>3, <1>4 DEF RpcInv

(* So does a timer that goes off.                                            *)
LEMMA TimeoutInv ==
    ASSUME RpcInv, NEW c \in Calls, Timeout(c)
    PROVE  RpcInv'
<1>1. c \in pending  BY DEF Timeout, RpcInv, PendingIsOpen
<1>2. RpcTypeOK' /\ PendingIsOpen' /\ OutcomesCounted'
  BY <1>1, CallSettles DEF Timeout, Outcomes
<1>3. AnsweredByDevice'
  <2>1. \A d \in Calls : promise'[d] \in {"ok", "error"} => promise'[d] = promise[d]
    BY DEF Timeout, Settled, RpcInv, RpcTypeOK
  <2>. QED  BY <2>1 DEF RpcInv, AnsweredByDevice, Timeout
<1>. QED  BY <1>2, <1>3 DEF RpcInv

(* Every step keeps the invariant, whatever order messages and timers take. *)
LEMMA NextInv == RpcInv /\ [Next]_vars => RpcInv'
<1>. SUFFICES ASSUME RpcInv, [Next]_vars PROVE RpcInv'
  OBVIOUS
<1>1. ASSUME NEW c \in Calls, SendRpc(c) PROVE RpcInv'
  BY <1>1, SendRpcInv
<1>2. ASSUME NEW c \in Calls, Timeout(c) PROVE RpcInv'
  BY <1>2, TimeoutInv
<1>3. ASSUME NEW c \in Calls, NEW body \in Bodies, DeviceResponds(c, body) PROVE RpcInv'
  BY <1>3, DeviceRespondsInv
<1>4. ASSUME NEW m \in responses, HandleResponse(m) PROVE RpcInv'
  BY <1>4, HandleResponseInv
<1>5. CASE UNCHANGED vars
  <2>1. RpcTypeOK'  BY <1>5 DEF vars, RpcInv, RpcTypeOK
  <2>2. PendingIsOpen'  BY <1>5 DEF vars, RpcInv, PendingIsOpen, Open
  <2>3. OutcomesCounted'  BY <1>5 DEF vars, RpcInv, OutcomesCounted
  <2>4. AnsweredByDevice'  BY <1>5 DEF vars, RpcInv, AnsweredByDevice
  <2>. QED  BY <2>1, <2>2, <2>3, <2>4 DEF RpcInv
<1>. QED  BY <1>1, <1>2, <1>3, <1>4, <1>5 DEF Next

(* The inductive invariant, from which the theorems below follow. *)
THEOREM RpcInvariance == Spec => []RpcInv
<1>. QED  BY InitInv, NextInv, PTL DEF Spec

(* The types of the manager's state, for every set of calls and methods. *)
THEOREM RpcTypeCorrect == Spec => []RpcTypeOK
<1>1. RpcInv => RpcTypeOK  BY DEF RpcInv
<1>. QED  BY <1>1, RpcInvariance, PTL

(* No entry of `pending` leaks and no awaited call is missing from it. *)
THEOREM PendingExactly == Spec => []PendingIsOpen
<1>1. RpcInv => PendingIsOpen  BY DEF RpcInv
<1>. QED  BY <1>1, RpcInvariance, PTL

(* incRequests is called once for a call, with the outcome its caller sees. *)
THEOREM CountedOnce == Spec => []OutcomesCounted
<1>1. RpcInv => OutcomesCounted  BY DEF RpcInv
<1>. QED  BY <1>1, RpcInvariance, PTL

(* handleResponse gives a caller no answer but its own device's. *)
THEOREM AnswersCorrelate == Spec => []AnsweredByDevice
<1>1. RpcInv => AnsweredByDevice  BY DEF RpcInv
<1>. QED  BY <1>1, RpcInvariance, PTL

-----------------------------------------------------------------------------
(* A promise settles once and for good.  resolve() and reject() are no-ops   *)
(* on a settled promise, so a second settlement would go unnoticed by the    *)
(* caller; this says that the manager does not even attempt one.             *)
SettlesOnce ==
    \A c \in Calls : c \in pending \cup timers => promise[c] \notin Outcomes

THEOREM NoSecondSettlement == Spec => []SettlesOnce
<1>1. RpcInv => SettlesOnce
  BY DEF RpcInv, PendingIsOpen, Open, SettlesOnce, Outcomes
<1>. QED  BY <1>1, RpcInvariance, PTL

-----------------------------------------------------------------------------
(* The refinement.  A request is on the network only if its call was made.   *)
RequestsAsked == \A c \in requests : promise[c] # "none"

LEMMA RequestsAskedInv == RpcInv /\ RequestsAsked /\ [Next]_vars => RequestsAsked'
<1>. SUFFICES ASSUME RpcInv, RequestsAsked, [Next]_vars PROVE RequestsAsked'
  OBVIOUS
<1>. USE DEF RpcInv, RpcTypeOK, RequestsAsked
<1>1. ASSUME NEW c \in Calls, SendRpc(c) PROVE RequestsAsked'
  BY <1>1 DEF SendRpc
<1>2. ASSUME NEW c \in Calls, Timeout(c) PROVE RequestsAsked'
  BY <1>2 DEF Timeout, Settled
<1>3. ASSUME NEW c \in Calls, NEW body \in Bodies, DeviceResponds(c, body) PROVE RequestsAsked'
  BY <1>3 DEF DeviceResponds
<1>4. ASSUME NEW m \in responses, HandleResponse(m) PROVE RequestsAsked'
  <2>1. m.body # "none"  BY DEF Response, Bodies
  <2>. QED  BY <1>4, <2>1 DEF HandleResponse, Settled
<1>5. CASE UNCHANGED vars
  BY <1>5 DEF vars
<1>. QED  BY <1>1, <1>2, <1>3, <1>4, <1>5 DEF Next

(* What happens to a call in one step is what may happen to it in the        *)
(* exchange: it is asked, answered by the device or settled.                 *)
LEMMA StepOfExchange ==
    RpcInv /\ RequestsAsked /\ [Next]_vars => [Promised!Next]_(Promised!exchangeVars)
<1>. SUFFICES ASSUME RpcInv, RequestsAsked, [Next]_vars
              PROVE  Promised!Next \/ UNCHANGED <<promise, responses>>
  BY DEF Promised!exchangeVars
<1>1. ASSUME NEW c \in Calls, SendRpc(c) PROVE Promised!Ask(c)
  BY <1>1 DEF SendRpc, Promised!Ask
<1>2. ASSUME NEW c \in Calls, Timeout(c) PROVE Promised!Settle(c, "timeout")
  <2>1. promise[c] = "open"  BY <1>2 DEF Timeout, RpcInv, PendingIsOpen, Open
  <2>. QED  BY <1>2, <2>1 DEF Timeout, Settled, Promised!Settle
<1>3. ASSUME NEW c \in Calls, NEW body \in Bodies, DeviceResponds(c, body)
      PROVE  Promised!DeviceAnswers(c, body)
  BY <1>3 DEF DeviceResponds, RequestsAsked, Promised!DeviceAnswers
<1>4. ASSUME NEW m \in responses, HandleResponse(m)
      PROVE  /\ m.id \in Calls /\ m.body \in {"ok", "error"}
             /\ Promised!Settle(m.id, m.body)
  <2>1. m \in Response  BY DEF RpcInv, RpcTypeOK
  <2>2. m.id \in Calls /\ m.body \in {"ok", "error"}
    BY <1>4, <2>1 DEF HandleResponse, Response, Bodies
  <2>3. m = [id |-> m.id, body |-> m.body]  BY <2>1 DEF Response
  <2>4. promise[m.id] = "open"  BY <1>4 DEF HandleResponse, RpcInv, PendingIsOpen, Open
  <2>. QED  BY <1>4, <2>2, <2>3, <2>4 DEF HandleResponse, Settled, Promised!Settle
<1>5. CASE UNCHANGED vars
  BY <1>5 DEF vars
<1>. QED  BY <1>1, <1>2, <1>3, <1>4, <1>5 DEF Next, Promised!Next, Bodies

(* The manager is an exchange in every step it takes: each call is asked     *)
(* once and settled once, with an answer its device gave or a timeout.  (That *)
(* it is settled at all rests on fairness and is left to the run.)           *)
THEOREM RefinesExchange ==
    Spec => Promised!Init /\ [][Promised!Next]_(Promised!exchangeVars)
<1>1. Init => Promised!Init  BY DEF Init, Promised!Init
<1>2. Init => RequestsAsked  BY DEF Init, RequestsAsked
<1>3. Spec => []RequestsAsked
  BY <1>2, RequestsAskedInv, RpcInvariance, PTL DEF Spec
<1>. QED  BY <1>1, <1>3, StepOfExchange, RpcInvariance, PTL DEF Spec
===============================================================================
