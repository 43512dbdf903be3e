------------------------------ MODULE MqttClient ------------------------------
(***************************************************************************)
(* The server's connection to the broker (apps/server/src/mqtt/client.ts).  *)
(* mqtt.js does not reconnect here (reconnectPeriod 0): when a client       *)
(* closes, a timer is armed, and when it goes off the closed client is      *)
(* disposed of and another is dialled.  The number of a client is the       *)
(* number of dials before it plus one.                                      *)
(*                                                                          *)
(* The events of a client (connect, close) come from mqtt.js and reach the  *)
(* server's handlers while the client has its listeners; `close` may come   *)
(* again.  The delay of the timer (1 s doubling to 30 s) is any time.       *)
(***************************************************************************)
EXTENDS Naturals, Sequences

CONSTANT
    MaxFaults    \* bound of the model: dials that fail and connections that break

ASSUME MqttAssumption == MaxFaults \in Nat

VARIABLES
    clients,        \* every client dialled: its state, and whether it has listeners
    current,        \* `client`, which publish() and end() use; 0 before connectMqtt()
    timers,         \* the callbacks of setTimeout to come: the client each disposes of
    reconnectTimer, \* the timer the code knows of; 0 when undefined
    ending,         \* whether end() was called and has returned
    connected,      \* the gauge mqttConnected
    faults          \* how many there were

vars == <<clients, current, timers, reconnectTimer, ending, connected, faults>>

Init ==
    /\ clients = << >> /\ current = 0
    /\ timers = {} /\ reconnectTimer = 0
    /\ ending = "no"
    /\ connected = FALSE
    /\ faults = 0

intentionalEnd == ending # "no"
Client == [st : {"dialling", "open", "closed", "ended"}, heard : BOOLEAN]
Dialled == [st |-> "dialling", heard |-> TRUE]

-----------------------------------------------------------------------------
(* Slips a change of the code could make, one per property that catches it.  *)

(* The client before keeps its listeners. *)
ReconnectHeard(c) ==
    /\ c \in timers
    /\ timers' = timers \ {c}
    /\ reconnectTimer' = 0
    /\ IF intentionalEnd
         THEN UNCHANGED <<clients, current>>
         ELSE /\ clients' = Append([clients EXCEPT ![c].st = "ended"], Dialled)
              /\ current' = Len(clients')
    /\ UNCHANGED <<ending, connected, faults>>

(* A timer is armed although the server has ended its connection. *)
ScheduleForEver(c) ==
    IF reconnectTimer # 0
      THEN UNCHANGED <<timers, reconnectTimer>>
      ELSE timers' = timers \cup {c} /\ reconnectTimer' = c

(* The callback returns before it notes that its timer is gone. *)
ReconnectOnce(c) ==
    /\ c \in timers
    /\ timers' = timers \ {c}
    /\ clients' = Append([clients EXCEPT ![c] = [st |-> "ended", heard |-> FALSE]], Dialled)
    /\ current' = Len(clients')
    /\ UNCHANGED <<reconnectTimer, ending, connected, faults>>

(* A dial that fails is not tried again: only a lost connection is. *)
ClosesIfOpen(c) ==
    /\ clients[c].st \in {"dialling", "open"}
    /\ faults < MaxFaults /\ faults' = faults + 1
    /\ clients' = [clients EXCEPT ![c].st = "closed"]
    /\ connected' = FALSE
    /\ IF intentionalEnd \/ reconnectTimer # 0 \/ ~connected
         THEN UNCHANGED <<timers, reconnectTimer>>
         ELSE timers' = timers \cup {c} /\ reconnectTimer' = c
    /\ UNCHANGED <<current, ending>>

-----------------------------------------------------------------------------
ClearReconnectTimer ==
    /\ timers' = timers \ {reconnectTimer}
    /\ reconnectTimer' = 0

(* scheduleReconnect: at most one timer, and none for an intended end. *)
Schedule(c) ==
    IF intentionalEnd \/ reconnectTimer # 0
      THEN UNCHANGED <<timers, reconnectTimer>>
      ELSE timers' = timers \cup {c} /\ reconnectTimer' = c

(* connectMqtt(): the first client.  The HTTP API is up already, and what it *)
(* publishes until now is dropped.                                           *)
ConnectMqtt ==
    /\ clients = << >>
    /\ clients' = <<Dialled>>
    /\ current' = 1
    /\ UNCHANGED <<timers, reconnectTimer, ending, connected, faults>>

(* The broker accepts the client: `connect`, and it subscribes. *)
Connects(c) ==
    /\ clients[c].st = "dialling"
    /\ clients' = [clients EXCEPT ![c].st = "open"]
    /\ connected' = TRUE
    /\ ClearReconnectTimer
    /\ UNCHANGED <<current, ending, faults>>

(* A dial fails or a connection breaks: `close`. *)
Closes(c) ==
    /\ clients[c].st \in {"dialling", "open"}
    /\ faults < MaxFaults /\ faults' = faults + 1
    /\ clients' = [clients EXCEPT ![c].st = "closed"]
    /\ connected' = FALSE
    /\ Schedule(c)
    /\ UNCHANGED <<current, ending>>

(* `close` comes again, or after end(). *)
ClosesAgain(c) ==
    /\ clients[c].st \in {"closed", "ended"} /\ clients[c].heard
    /\ connected' = FALSE
    /\ Schedule(c)
    /\ UNCHANGED <<clients, current, ending, faults>>

(* The timer goes off: the client before is disposed of, a new one dialled. *)
Reconnect(c) ==
    /\ c \in timers
    /\ timers' = timers \ {c}
    /\ reconnectTimer' = 0
    /\ IF intentionalEnd
         THEN UNCHANGED <<clients, current>>
         ELSE /\ clients' = Append([clients EXCEPT ![c] = [st |-> "ended", heard |-> FALSE]],
                                   Dialled)
              /\ current' = Len(clients')
    /\ UNCHANGED <<ending, connected, faults>>

(* end(), as shutdown() calls it ... *)
End ==
    /\ clients # << >> /\ ending = "no"
    /\ ending' = "awaited"
    /\ ClearReconnectTimer
    /\ clients' = [clients EXCEPT ![current].st = "ended"]
    /\ UNCHANGED <<current, connected, faults>>

(* ... and its return, which follows the `close` of the client it ended. *)
EndReturns ==
    /\ ending = "awaited"
    /\ ending' = "returned"
    /\ connected' = FALSE
    /\ Schedule(current)
    /\ UNCHANGED <<clients, current, faults>>

Next ==
    \/ ConnectMqtt
    \/ \E c \in 1 .. Len(clients) : Connects(c) \/ Closes(c) \/ ClosesAgain(c) \/ Reconnect(c)
    \/ End
    \/ EndReturns

(* A broker that can be reached answers a dial, and a timer goes off. *)
Fairness ==
    /\ WF_vars(ConnectMqtt)
    /\ WF_vars(\E c \in 1 .. Len(clients) : Connects(c))
    /\ WF_vars(\E c \in 1 .. Len(clients) : Reconnect(c))

Spec == Init /\ [][Next]_vars
FairSpec == Spec /\ Fairness

-----------------------------------------------------------------------------
MqttTypeOK ==
    /\ clients \in Seq(Client)
    /\ current \in 0 .. Len(clients)
    /\ timers \subseteq 1 .. Len(clients)
    /\ reconnectTimer \in timers \cup {0}
    /\ ending \in {"no", "awaited", "returned"}
    /\ connected \in BOOLEAN
    /\ faults \in Nat

Live == {c \in 1 .. Len(clients) : clients[c].st \in {"dialling", "open"}}

(* The server is never connected twice, which would have every handler run   *)
(* twice for each message, and what it publishes goes to the live client:    *)
(* no repeated or late `close` dials a second one.                           *)
OneLiveClient == Live \subseteq {current}

(* A server that has not ended its connection is dialling, connected, or     *)
(* about to dial: no order of events leaves it waiting for nothing.          *)
NeverStranded == ending = "no" /\ clients # << >> => Live # {} \/ timers # {}

(* The gauge tells whether the server is connected; while end() is awaited   *)
(* it may lag.                                                               *)
GaugeTrue ==
    /\ (\E c \in Live : clients[c].st = "open") => connected
    /\ connected => intentionalEnd \/ \E c \in Live : clients[c].st = "open"

(* After end() nothing is live and nothing is left to go off: a `close` that *)
(* comes late does not bring the connection back during shutdown.            *)
EndIsFinal == intentionalEnd => Live = {} /\ timers = {}

(* When the faults are over the server is connected for good, unless it is   *)
(* ended.                                                                    *)
Reconnects == <>[](intentionalEnd \/ connected)
===============================================================================
