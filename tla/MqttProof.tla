------------------------------ MODULE MqttProof ------------------------------
(***************************************************************************)
(* The safety of MqttClient for any number of faults.  What makes it         *)
(* inductive: only the current client has listeners, every client before it  *)
(* was disposed of, and a timer is armed exactly while the current client is *)
(* closed and its end is not intended.                                       *)
(***************************************************************************)
EXTENDS MqttClient, SequenceTheorems, TLAPS

(* Clients before the current one are disposed of, listeners and all. *)
OthersDisposed ==
    /\ current = Len(clients)
    /\ \A c \in 1 .. Len(clients) : c # current => clients[c] = [st |-> "ended", heard |-> FALSE]

(* What is armed follows from how the current client is. *)
TimerMeansClosed ==
    IF clients = << >>
      THEN ending = "no" /\ timers = {} /\ reconnectTimer = 0
      ELSE IF ending = "no"
        THEN /\ clients[current].st # "ended"
             /\ IF clients[current].st = "closed"
                  THEN timers = {current} /\ reconnectTimer = current
                  ELSE timers = {} /\ reconnectTimer = 0
        ELSE /\ clients[current].st = "ended"
             /\ timers = {} /\ reconnectTimer = 0

(* The gauge agrees with the current client. *)
GaugeOfCurrent ==
    /\ clients = << >> => ~connected
    /\ clients # << >> /\ ending = "no" => (connected <=> clients[current].st = "open")

MInv == MqttTypeOK /\ OthersDisposed /\ TimerMeansClosed /\ GaugeOfCurrent

USE DEF Dialled, intentionalEnd

-----------------------------------------------------------------------------
(* Nothing is dialled, armed or connected when the server starts. *)
LEMMA InitMInv == Init => MInv
<1> SUFFICES ASSUME Init PROVE MInv
  OBVIOUS
<1>1. clients \in Seq(Client) /\ Len(clients) = 0
  BY EmptySeq DEF Init
<1>2. MqttTypeOK
  <2>1. current \in 0 .. Len(clients) /\ timers \subseteq 1 .. Len(clients) /\ faults \in Nat
    BY <1>1 DEF Init
  <2>2. /\ reconnectTimer \in timers \cup {0} /\ connected \in BOOLEAN
        /\ ending \in {"no", "awaited", "returned"}
    BY DEF Init
  <2> QED
    BY <1>1, <2>1, <2>2 DEF MqttTypeOK
<1>3. OthersDisposed
  BY <1>1 DEF Init, OthersDisposed
<1> QED
  BY <1>2, <1>3 DEF Init, MInv, TimerMeansClosed, GaugeOfCurrent

(* The current client is one of the clients, once there is any. *)
LEMMA ClientFacts ==
    ASSUME MInv
    PROVE  /\ clients \in Seq(Client) /\ Len(clients) \in Nat
           /\ \A c \in 1 .. Len(clients) : clients[c] \in Client
           /\ clients # << >> => current \in 1 .. Len(clients)
           /\ clients = << >> => Len(clients) = 0
<1>1. clients \in Seq(Client) /\ current = Len(clients)
  BY DEF MInv, MqttTypeOK, OthersDisposed
<1>2. Len(clients) \in Nat
  BY <1>1, LenProperties
<1>3. \A c \in 1 .. Len(clients) : clients[c] \in Client
  BY <1>1, ElementOfSeq
<1>4. clients # << >> => Len(clients) \in Nat \ {0}
  BY <1>1, EmptySeq
<1>5. clients = << >> => Len(clients) = 0
  BY EmptySeq
<1> QED
  BY <1>1, <1>2, <1>3, <1>4, <1>5

(* An event of a client that has one is an event of the current client. *)
LEMMA EventOfCurrent ==
    ASSUME MInv, NEW c \in 1 .. Len(clients), clients[c].st # "ended" \/ clients[c].heard
    PROVE  c = current
BY DEF MInv, OthersDisposed

(* A change of the current client's state leaves the others disposed of. *)
LEMMA CurrentChanges ==
    ASSUME MInv, clients # << >>, NEW s \in {"dialling", "open", "closed", "ended"},
           clients' = [clients EXCEPT ![current].st = s], current' = current
    PROVE  /\ clients' \in Seq(Client) /\ clients' # << >> /\ OthersDisposed'
           /\ Len(clients') = Len(clients)
           /\ clients'[current'].st = s
<1> DEFINE r == [clients[current] EXCEPT !.st = s]
<1>1. current \in 1 .. Len(clients) /\ clients[current] \in Client /\ clients \in Seq(Client)
  BY ClientFacts
<1>2. r \in Client /\ r.st = s
  BY <1>1 DEF Client
<1>3. clients' = [clients EXCEPT ![current] = r]
  OBVIOUS
<1> HIDE DEF r
<1>4. /\ clients' \in Seq(Client)
      /\ Len(clients') = Len(clients)
      /\ \A j \in 1 .. Len(clients) : clients'[j] = IF j = current THEN r ELSE clients[j]
  BY <1>1, <1>2, <1>3, ExceptSeq
<1>5. clients' # << >>
  BY <1>1, <1>4, EmptySeq
<1> QED
  BY <1>1, <1>2, <1>4, <1>5 DEF MInv, OthersDisposed

-----------------------------------------------------------------------------
(* Every event keeps MInv: the current client is the only one that can have *)
(* one, and a second timer or client would need another.                    *)
LEMMA NextMInv == MInv /\ [Next]_vars => MInv'
<1> SUFFICES ASSUME MInv, [Next]_vars PROVE MInv'
  OBVIOUS
<1>0. /\ clients \in Seq(Client) /\ Len(clients) \in Nat
      /\ \A c \in 1 .. Len(clients) : clients[c] \in Client
      /\ clients # << >> => current \in 1 .. Len(clients)
      /\ clients = << >> => Len(clients) = 0
  BY ClientFacts
<1>1. CASE ConnectMqtt
  <2>1. clients' = <<[st |-> "dialling", heard |-> TRUE]>> /\ Len(clients') = 1 /\ clients' # << >>
        /\ clients' \in Seq(Client) /\ clients'[1] = [st |-> "dialling", heard |-> TRUE]
    BY <1>1 DEF ConnectMqtt, Client
  <2> QED
    BY <1>0, <1>1, <2>1
    DEF ConnectMqtt, MInv, MqttTypeOK, OthersDisposed, TimerMeansClosed, GaugeOfCurrent
<1>2. ASSUME NEW c \in 1 .. Len(clients), Connects(c) PROVE MInv'
  <2>1. c = current /\ clients # << >>
    BY <1>0, <1>2, EventOfCurrent DEF Connects
  <2>2. /\ clients' \in Seq(Client) /\ clients' # << >> /\ OthersDisposed'
        /\ Len(clients') = Len(clients) /\ clients'[current'].st = "open"
    BY <1>2, <2>1, CurrentChanges DEF Connects
  <2> QED
    BY <1>0, <1>2, <2>1, <2>2
    DEF Connects, ClearReconnectTimer, MInv, MqttTypeOK, TimerMeansClosed, GaugeOfCurrent
<1>3. ASSUME NEW c \in 1 .. Len(clients), Closes(c) PROVE MInv'
  <2>1. c = current /\ clients # << >>
    BY <1>0, <1>3, EventOfCurrent DEF Closes
  <2>2. /\ clients' \in Seq(Client) /\ clients' # << >> /\ OthersDisposed'
        /\ Len(clients') = Len(clients) /\ clients'[current'].st = "closed"
    BY <1>3, <2>1, CurrentChanges DEF Closes
  <2>3. ending = "no" /\ timers = {} /\ reconnectTimer = 0
    BY <1>3, <2>1 DEF Closes, MInv, TimerMeansClosed
  <2>4. /\ timers' = {current} /\ reconnectTimer' = current /\ connected' = FALSE
        /\ faults' = faults + 1 /\ UNCHANGED <<current, ending>>
    BY <1>3, <2>1, <2>3 DEF Closes, Schedule
  <2>5. MqttTypeOK'
    <3>1. /\ current' \in 0 .. Len(clients') /\ timers' \subseteq 1 .. Len(clients')
          /\ faults' \in Nat
      BY <1>0, <2>1, <2>2, <2>4 DEF MInv, MqttTypeOK
    <3>2. /\ reconnectTimer' \in timers' \cup {0} /\ connected' \in BOOLEAN
          /\ ending' \in {"no", "awaited", "returned"}
      BY <2>4 DEF MInv, MqttTypeOK
    <3> QED
      BY <2>2, <3>1, <3>2 DEF MqttTypeOK
  <2> QED
    BY <2>2, <2>3, <2>4, <2>5 DEF MInv, TimerMeansClosed, GaugeOfCurrent
<1>4. ASSUME NEW c \in 1 .. Len(clients), ClosesAgain(c) PROVE MInv'
  <2>1. c = current /\ clients # << >>
    BY <1>0, <1>4, EventOfCurrent DEF ClosesAgain
  <2>2. UNCHANGED <<timers, reconnectTimer>>
    BY <1>0, <1>4, <2>1 DEF ClosesAgain, Schedule, MInv, TimerMeansClosed
  <2> QED
    BY <1>0, <1>4, <2>1, <2>2
    DEF ClosesAgain, MInv, MqttTypeOK, OthersDisposed, TimerMeansClosed, GaugeOfCurrent
<1>5. ASSUME NEW c \in 1 .. Len(clients), Reconnect(c) PROVE MInv'
  <2> DEFINE disposed == [clients EXCEPT ![c] = [st |-> "ended", heard |-> FALSE]]
  <2>1. c = current /\ clients # << >> /\ ending = "no" /\ clients[c].st = "closed" /\ timers = {c}
    BY <1>0, <1>5 DEF Reconnect, MInv, TimerMeansClosed
  <2>2. /\ disposed \in Seq(Client) /\ Len(disposed) = Len(clients)
        /\ \A j \in 1 .. Len(clients) :
             disposed[j] = IF j = c THEN [st |-> "ended", heard |-> FALSE] ELSE clients[j]
    BY <1>0, ExceptSeq, [st |-> "ended", heard |-> FALSE] \in Client DEF Client
  <2>3. clients' = Append(disposed, [st |-> "dialling", heard |-> TRUE])
    BY <1>5, <2>1 DEF Reconnect
  <2>4. /\ clients' \in Seq(Client) /\ clients' # << >> /\ Len(clients') = Len(clients) + 1
        /\ \A j \in 1 .. Len(clients) : clients'[j] = disposed[j]
        /\ clients'[Len(clients) + 1] = [st |-> "dialling", heard |-> TRUE]
    BY <2>2, <2>3, AppendProperties, [st |-> "dialling", heard |-> TRUE] \in Client DEF Client
  <2>5. /\ current' = Len(clients) + 1 /\ timers' = {} /\ reconnectTimer' = 0
        /\ UNCHANGED <<ending, connected, faults>>
    BY <1>5, <2>1, <2>4 DEF Reconnect
  <2>6. OthersDisposed'
    BY <1>0, <2>1, <2>2, <2>4, <2>5 DEF MInv, OthersDisposed
  <2>7. MqttTypeOK'
    BY <1>0, <2>4, <2>5 DEF MInv, MqttTypeOK
  <2> QED
    BY <2>1, <2>4, <2>5, <2>6, <2>7 DEF MInv, TimerMeansClosed, GaugeOfCurrent
<1>6. CASE End
  <2>1. clients # << >>
    BY <1>6 DEF End
  <2>2. /\ clients' \in Seq(Client) /\ clients' # << >> /\ OthersDisposed'
        /\ Len(clients') = Len(clients) /\ clients'[current'].st = "ended"
    BY <1>6, <2>1, CurrentChanges DEF End
  <2>3. timers' = {} /\ reconnectTimer' = 0
    BY <1>0, <1>6, <2>1 DEF End, ClearReconnectTimer, MInv, TimerMeansClosed
  <2> QED
    BY <1>0, <1>6, <2>1, <2>2, <2>3 DEF End, MInv, MqttTypeOK, TimerMeansClosed, GaugeOfCurrent
<1>7. CASE EndReturns
  BY <1>0, <1>7 DEF EndReturns, Schedule, MInv, MqttTypeOK, OthersDisposed, TimerMeansClosed, GaugeOfCurrent
<1>8. CASE UNCHANGED vars
  BY <1>8 DEF vars, MInv, MqttTypeOK, OthersDisposed, TimerMeansClosed, GaugeOfCurrent
<1> QED
  BY <1>1, <1>2, <1>3, <1>4, <1>5, <1>6, <1>7, <1>8 DEF Next

(* The invariant holds of every behaviour. *)
LEMMA MInvHolds == Spec => []MInv
BY InitMInv, NextMInv, PTL DEF Spec

(* The variables keep their types; in particular the timer the code knows of *)
(* is one that will go off.                                                  *)
THEOREM MqttTypeCorrect == Spec => []MqttTypeOK
<1>1. MInv => MqttTypeOK
  BY DEF MInv
<1> QED
  BY <1>1, MInvHolds, PTL

(* The server is never connected twice. *)
THEOREM NeverTwoClients == Spec => []OneLiveClient
<1>1. MInv => OneLiveClient
  BY DEF MInv, MqttTypeOK, OthersDisposed, OneLiveClient, Live
<1> QED
  BY <1>1, MInvHolds, PTL

(* Until it is ended, the connection is up, being dialled or about to be. *)
THEOREM AlwaysOnTheWay == Spec => []NeverStranded
<1>1. MInv => NeverStranded
  BY ClientFacts DEF MInv, TimerMeansClosed, NeverStranded, Live, Client
<1> QED
  BY <1>1, MInvHolds, PTL

(* After end() nothing dials again. *)
THEOREM EndStays == Spec => []EndIsFinal
<1>1. MInv => EndIsFinal
  BY DEF MInv, MqttTypeOK, OthersDisposed, TimerMeansClosed, EndIsFinal, Live
<1> QED
  BY <1>1, MInvHolds, PTL

(* The gauge is right. *)
THEOREM GaugeIsRight == Spec => []GaugeTrue
<1>1. MInv => GaugeTrue
  BY DEF MInv, MqttTypeOK, OthersDisposed, TimerMeansClosed, GaugeOfCurrent, GaugeTrue, Live
<1> QED
  BY <1>1, MInvHolds, PTL
===============================================================================
