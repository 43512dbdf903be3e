------------------------------ MODULE ShadowSync ------------------------------
(***************************************************************************)
(* A device and its shadow, kept equal by messages: the server's store with *)
(* the simulated device (apps/simulator/src/device.ts, shadow.ts, ota.ts)   *)
(* at the other end of the broker, and restarts and broken connections of   *)
(* both.                                                                    *)
(*                                                                          *)
(* The device answers every delta with a report of its whole state.  A      *)
(* firmware version is not adopted but starts an update, which ends in a    *)
(* forced reconnect and a report.  A publish resolves when the broker       *)
(* acknowledges it, in the order of publishing: `acks` holds what is to     *)
(* run then.                                                                *)
(***************************************************************************)
EXTENDS ShadowStore

CONSTANTS
    Factory,     \* the state initialShadowState() gives
    MaxAcks      \* bound of the model: publishes not yet acknowledged

ASSUME SyncAssumption == Factory \in [plain : Plain, firmware : Firmwares]

VARIABLES
    device,      \* `reported`: the state the device runs with
    announce,    \* onConnect has still to publish the reported state
    ota,         \* the update in flight: its phase and target
    acks,        \* continuations waiting for an acknowledgement
    up,          \* the server runs and is connected
    unheard      \* history: a report of the device, or a delta for it, was
                 \* lost on the server, and no report has come after it

vars == <<storeVars, device, announce, ota, acks, up, unheard>>

Idle == [phase |-> "idle", target |-> None]

Init ==
    /\ StoreInit(Factory)
    /\ device = Factory
    /\ announce = FALSE
    /\ ota = Idle
    /\ acks = << >>
    /\ up = TRUE
    /\ unheard = FALSE

(* A message of the device reaches the server's handler, which sends one     *)
(* statement and does not wait; while the server is down nobody is           *)
(* subscribed, and it is lost.  (Time on the network is time in the queue of *)
(* statements.)                                                              *)
Publish(s) == IF up THEN Send(s) ELSE UNCHANGED statements
PublishReported(state) ==
    /\ Publish(Unversioned("report", state))
    /\ unheard' = ~up
PublishComplete(v) == Publish(Unversioned("firmware", [Empty EXCEPT !.firmware = v]))
PublishOnline == Publish(Unversioned("refresh", Empty))

(* What a message of the device leaves alone in the store. *)
storeRest == <<row, answers, events>>

(* applyShadowDelta: the plain key is adopted, the firmware version is not. *)
Adopted(delta) == [device EXCEPT !.plain = IF delta.plain # None THEN delta.plain ELSE @]
Trigger(delta) ==
    IF delta.firmware \in {None, device.firmware} THEN None ELSE delta.firmware

-----------------------------------------------------------------------------
(* Slips a change of the code could make, one per property that catches it.  *)

(* otaInFlight is reset before the final report is acknowledged. *)
OtaReportsEarly ==
    /\ ota.phase = "done"
    /\ device' = [device EXCEPT !.firmware = ota.target]
    /\ PublishReported(device')
    /\ ota' = Idle
    /\ UNCHANGED <<storeRest, subscribed, deltas, announce, acks, up>>

(* The status handler does not refresh the shadow of a retained status. *)
ServerStartsMutely ==
    /\ ~up
    /\ up' = TRUE
    /\ UNCHANGED <<storeVars, device, announce, ota, acks, unheard>>

-----------------------------------------------------------------------------
(* The device's handlers. *)

(* onConnect: it subscribes, and its retained status becomes `online`. *)
Connect ==
    /\ ~subscribed
    /\ subscribed' = TRUE
    /\ announce' = TRUE
    /\ PublishOnline
    /\ ota' = IF ota.phase = "rebooting" THEN [ota EXCEPT !.phase = "rebooted"] ELSE ota
    /\ UNCHANGED <<storeRest, deltas, device, acks, up, unheard>>

Announce ==
    /\ subscribed /\ announce
    /\ announce' = FALSE
    /\ PublishReported(device)
    /\ UNCHANGED <<storeRest, subscribed, deltas, device, ota, acks, up>>

(* handleShadowDelta up to the publish it awaits ... *)
HandleDelta ==
    /\ subscribed /\ deltas # << >> /\ Len(acks) < MaxAcks
    /\ deltas' = Tail(deltas)
    /\ device' = Adopted(Head(deltas))
    /\ PublishReported(device')
    /\ acks' = IF Trigger(Head(deltas)) = None THEN acks
                ELSE Append(acks, [then |-> "delta", target |-> Trigger(Head(deltas))])
    /\ UNCHANGED <<storeRest, subscribed, announce, ota, up>>

(* ... and after it: an update starts unless one is in flight. *)
DeltaAcked ==
    /\ subscribed /\ acks # << >> /\ Head(acks).then = "delta"
    /\ acks' = Tail(acks)
    /\ ota' = IF ota = Idle
                THEN [phase |-> "installing", target |-> Head(acks).target] ELSE ota
    /\ UNCHANGED <<storeVars, device, announce, up, unheard>>

(* The connection ends: the broker drops the session and its queue, and      *)
(* publishes the last will.                                                  *)
Disconnect ==
    /\ subscribed' = FALSE
    /\ deltas' = << >>
    /\ announce' = FALSE
    /\ UNCHANGED <<row, statements, answers>>

(* An update ends in simulateDisconnect: the client is ended by force, and   *)
(* what waited for an acknowledgement waits for ever.                        *)
OtaReboots ==
    /\ subscribed /\ ota.phase = "installing"
    /\ ota' = [ota EXCEPT !.phase = "rebooting"]
    /\ acks' = << >>
    /\ Disconnect
    /\ UNCHANGED <<events, device, up, unheard>>

(* Progress `complete` is published once the new client has connected. *)
OtaCompletes ==
    /\ subscribed /\ ota.phase = "rebooted"
    /\ ota' = [ota EXCEPT !.phase = "done"]
    /\ PublishComplete(ota.target)
    /\ UNCHANGED <<storeRest, subscribed, deltas, device, announce, acks, up, unheard>>

(* The new version is reported; only then is another update possible. *)
OtaReports ==
    /\ ota.phase = "done"
    /\ device' = [device EXCEPT !.firmware = ota.target]
    /\ PublishReported(device')
    /\ ota' = [ota EXCEPT !.phase = "reporting"]
    /\ acks' = Append(acks, [then |-> "ota", target |-> None])
    /\ UNCHANGED <<storeRest, subscribed, deltas, announce, up>>

OtaAcked ==
    /\ subscribed /\ acks # << >> /\ Head(acks).then = "ota"
    /\ acks' = Tail(acks)
    /\ ota' = Idle
    /\ UNCHANGED <<storeVars, device, announce, up, unheard>>

-----------------------------------------------------------------------------
(* The server stops.  Its statements have run by now or never will. *)
ServerStops ==
    /\ up /\ Event
    /\ up' = FALSE
    /\ statements' = << >> /\ answers' = EmptyBag
    /\ unheard' = (row.reported # device)
    /\ UNCHANGED <<row, subscribed, deltas, device, announce, ota, acks>>

(* It starts, connects and subscribes, and the broker delivers the retained  *)
(* status of the device.                                                     *)
ServerStarts ==
    /\ ~up
    /\ up' = TRUE
    /\ statements' = IF subscribed THEN << Unversioned("refresh", Empty) >> ELSE << >>
    /\ UNCHANGED <<storeRest, subscribed, deltas, device, announce, ota, acks, unheard>>

(* The network breaks the device's connection: mqtt.js reconnects and sends  *)
(* again what was not acknowledged.                                          *)
ConnectionBreaks ==
    /\ subscribed /\ Event
    /\ Disconnect
    /\ UNCHANGED <<device, ota, acks, up, unheard>>

(* The reboot RPC runs simulateDisconnect outside of an update, or while the *)
(* update waits for the acknowledgement of its last report, which then never *)
(* comes (a reboot earlier in an update is a second simulateDisconnect and   *)
(* left out).                                                                *)
RpcReboots ==
    /\ subscribed /\ Event
    /\ ota.phase \in {"idle", "reporting"}
    /\ acks' = << >>
    /\ Disconnect
    /\ UNCHANGED <<device, ota, up, unheard>>

(* The device's process restarts with its factory state. *)
DeviceRestarts ==
    /\ Event
    /\ Disconnect
    /\ device' = Factory
    /\ ota' = Idle
    /\ acks' = << >>
    /\ UNCHANGED <<up, unheard>>

(* What the device runs with is reported, is yet to be stored, and was sent  *)
(* after every other report: whatever was lost is made up for.               *)
LastReportQueued(queue) ==
    \E i \in DOMAIN queue :
       /\ queue[i].op = "report" /\ queue[i].arg = device
       /\ \A j \in DOMAIN queue : queue[j].op = "report" => j <= i

(* A query rejects (statements of clients that did not run are just refused). *)
ServerStatementFails ==
    /\ \E i \in Running :
          /\ StatementFails(i)
          /\ unheard' = (\/ unheard
                         \/ /\ statements[i].op \in {"report", "refresh"}
                            /\ ~LastReportQueued(statements'))
    /\ UNCHANGED <<device, announce, ota, acks, up>>

ServerAnswerLost ==
    /\ \E delta \in BagToSet(answers) : AnswerLost(delta)
    /\ unheard' = (unheard \/ ~LastReportQueued(statements))
    /\ UNCHANGED <<device, announce, ota, acks, up>>

StoreUnchanged == UNCHANGED <<device, announce, ota, acks, up, unheard>>
ServerRequest == up /\ Request /\ StoreUnchanged
ServerDatabase == DatabaseStep /\ StoreUnchanged
ServerEmit == EmitStep /\ StoreUnchanged

Next ==
    \/ Connect \/ Announce \/ HandleDelta \/ DeltaAcked
    \/ OtaReboots \/ OtaCompletes \/ OtaReports \/ OtaAcked
    \/ ServerRequest \/ ServerDatabase \/ ServerEmit
    \/ ServerStatementFails \/ ServerAnswerLost
    \/ ServerStops \/ ServerStarts \/ ConnectionBreaks \/ RpcReboots \/ DeviceRestarts

(* Messages and statements under way arrive, a process that is down comes    *)
(* back and an update goes on; nobody has to send a request.                 *)
Fairness ==
    /\ WF_vars(Connect) /\ WF_vars(Announce) /\ WF_vars(HandleDelta)
    /\ WF_vars(DeltaAcked) /\ WF_vars(OtaAcked)
    /\ WF_vars(OtaReboots) /\ WF_vars(OtaCompletes) /\ WF_vars(OtaReports)
    /\ WF_vars(ServerStarts)
    /\ WF_vars(ServerDatabase) /\ WF_vars(ServerEmit)

Spec == Init /\ [][Next]_vars
FairSpec == Spec /\ Fairness

-----------------------------------------------------------------------------
SyncTypeOK ==
    /\ row \in [desired : Shadow, reported : Shadow, version : Nat, firmware : Firmwares]
    /\ Range(statements) \subseteq
          [op : {"patch", "set", "report", "refresh", "firmware"}, arg : Shadow,
           version : Nat \cup {None}, seen : Shadow]
    /\ IsABag(answers)
    /\ BagToSet(answers) \subseteq Shadow \ {Empty}
    /\ events \in 0 .. MaxEvents
    /\ subscribed \in BOOLEAN /\ announce \in BOOLEAN /\ up \in BOOLEAN /\ unheard \in BOOLEAN
    /\ Range(deltas) \subseteq Shadow \ {Empty}
    /\ device \in [plain : Plain, firmware : Firmwares]
    /\ ota \in [phase : {"idle", "installing", "rebooting", "rebooted", "done", "reporting"},
                target : Firmwares \cup {None}]
    /\ Range(acks) \subseteq [then : {"delta", "ota"}, target : Firmwares \cup {None}]

(* A patch that is accepted changes the desired state its client has read:   *)
(* no edit of another client, and no deployment, is overwritten unseen.      *)
NoLostEdit ==
    [][\A i \in DOMAIN statements :
          (/\ statements[i].op = "patch"
           /\ statements' = RemoveAt(statements, i)
           /\ row'.version # row.version)
              => row.desired = statements[i].seen]_vars

(* An update starts only for a version the device does not run already: a    *)
(* delta is decided on before an await and acted on after it.                *)
UpdatesOnlyWhenNeeded ==
    [][ota = Idle /\ ota' # Idle => ota'.target # device.firmware]_vars

Quiet ==
    /\ up /\ subscribed /\ ~announce /\ ota = Idle
    /\ statements = << >> /\ answers = EmptyBag
    /\ deltas = << >> /\ acks = << >>

InSync ==
    /\ row.reported = device
    /\ \A k \in DOMAIN device : row.desired[k] \in {None, device[k]}

(* A reboot RPC has cut off the update's last acknowledgement: runOta waits  *)
(* for it for ever, otaInFlight stays set, and no delta starts an update.    *)
Stranded == ota.phase = "reporting" /\ \A i \in DOMAIN acks : acks[i].then # "ota"

(* When nothing is under way any more the twin is exact: the store holds     *)
(* what the device runs with, and the device runs with what is desired, in   *)
(* whatever order statements ran and deltas were emitted, and whatever was   *)
(* lost with a connection or a process.  Excepted, until the device reports  *)
(* again, is what the server has lost: a report while it was down, a server  *)
(* that stopped while its row was not what the device had reported last, and *)
(* a report, a refresh or a delta whose query rejected.  The server does not *)
(* try again, and the device reports when it gets a delta or reconnects.     *)
QuietIsInSync == Quiet /\ ~unheard => InSync

(* ... and things do become quiet: the exchange of deltas and reports that   *)
(* goes on during an update ends with it, unless a reboot has cut the update *)
(* off from its end.                                                         *)
Converges == <>[](Stranded \/ (Quiet /\ (unheard \/ InSync)))

(* README.md:202: "Kill and restart any container and the system converges   *)
(* on its own".                                                              *)
DeviceConverges == <>[](\A k \in DOMAIN device : row.desired[k] \in {None, device[k]})
===============================================================================
