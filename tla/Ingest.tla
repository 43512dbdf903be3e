-------------------------------- MODULE Ingest --------------------------------
(***************************************************************************)
(* The telemetry path from a delivered message to the database, and the     *)
(* part of the server's shutdown that drains it: ingestTelemetry            *)
(* (mqtt/ingest.ts), its MQTT and HTTP callers, the batcher's writer        *)
(* (index.ts, db.ts) and shutdown (index.ts), composed with Batcher.        *)
(*                                                                          *)
(* QoS 1 delivers a message at least once: the broker sends it again until  *)
(* it sees the acknowledgement, so a payload may be delivered any number of *)
(* times, at any time (MaxPushes bounds how often it is accepted).  An HTTP *)
(* client may likewise post the same point again.                           *)
(***************************************************************************)
EXTENDS Batcher

CONSTANTS
    Devices,
    MqttMessages,   \* telemetry payloads published over MQTT
    HttpMessages,   \* telemetry payloads posted to /api/ingest
    Invalid,        \* the payloads that TelemetrySchema rejects
    DeviceOf,       \* the device a payload belongs to
    Stamp,          \* the `ts` of a payload; NoStamp when it has none
    NoStamp,
    Skew,           \* CLOCK_SKEW_MS
    MaxClock        \* bound of the model: readings of the server's clock

Messages == MqttMessages \cup HttpMessages

ASSUME IngestAssumption ==
    /\ DeviceOf \in [Messages -> Devices]
    /\ Stamp \in [Messages -> Nat \cup {NoStamp}] /\ NoStamp \notin Nat
    /\ Skew \in Nat /\ MaxClock \in Nat

VARIABLES
    clock,        \* Date.now() at the server
    posting,      \* HTTP requests whose credentials are being checked
    rowOf,        \* the TelemetryRow of each row number the batcher holds
    inserted,     \* the batches whose INSERT committed
    telemetry,    \* the telemetry table: its (device_id, time) keys
    lastSeen,     \* devices.last_seen
    phase         \* "up", then the steps of shutdown()

ingestVars == <<clock, posting, rowOf, inserted, telemetry, lastSeen, phase>>
vars == <<batcherVars, ingestVars>>

KeysOf(rows) == {rowOf[r].key : r \in RowsOf(rows)}
DevicesOf(rows) == {rowOf[r].key[1] : r \in RowsOf(rows)}
Apart(a, b) == IF a >= b THEN a - b ELSE b - a

IngestInit ==
    /\ Init
    /\ clock = 0
    /\ posting = {}
    /\ rowOf = << >>
    /\ inserted = {}
    /\ telemetry = {}
    /\ lastSeen = [d \in Devices |-> 0]
    /\ phase = "up"

-----------------------------------------------------------------------------
(* Slips a change of the code could make, one per property that catches it.  *)

(* The server's clock stamps every row. *)
RowTimeOfServer(m) == clock

(* The gate is checked by the callers before they await, not by ingestTelemetry. *)
GateLeftOut == TRUE

(* touchLastSeen is not part of the writer. *)
TouchLeftOut(i) ==
    /\ i \in inserted
    /\ WriterSettles(i, "ok")
    /\ UNCHANGED ingestVars

-----------------------------------------------------------------------------
(* The clock-skew guard: a missing or far-off device time becomes "now". *)
RowTime(m) ==
    IF Stamp[m] # NoStamp /\ Apart(Stamp[m], clock) <= Skew THEN Stamp[m] ELSE clock

Row(m) == [key |-> <<DeviceOf[m], RowTime(m)>>, at |-> clock, msg |-> m]

(* isOpen: shutdown() closes the intake before it stops the batcher. *)
IntakeOpen == phase = "up"

(* ingestTelemetry: refused while shutting down, rejected by the schema, or  *)
(* pushed to the batcher.                                                    *)
IngestTelemetry(m) ==
    \/ /\ ~IntakeOpen \/ m \in Invalid
       /\ UNCHANGED <<batcherVars, rowOf>>
    \/ /\ IntakeOpen
       /\ m \notin Invalid
       /\ rowOf' = Append(rowOf, Row(m))
       /\ Push

(* onTelemetry: until mqttClient.end() the broker delivers, or redelivers. *)
MqttDelivers(m) ==
    /\ phase \in {"up", "draining", "ending"}
    /\ IngestTelemetry(m)
    /\ UNCHANGED <<clock, posting, inserted, telemetry, lastSeen, phase>>

(* POST /api/ingest: the secret is looked up and verified asynchronously ... *)
HttpPosts(m) ==
    /\ m \notin posting
    /\ posting' = posting \cup {m}
    /\ UNCHANGED <<batcherVars, clock, rowOf, inserted, telemetry, lastSeen, phase>>

(* ... and the handler goes on to ingestTelemetry, or answers 401. *)
HttpHandled(m) ==
    /\ m \in posting
    /\ posting' = posting \ {m}
    /\ \/ IngestTelemetry(m)
       \/ UNCHANGED <<batcherVars, rowOf>>
    /\ UNCHANGED <<clock, inserted, telemetry, lastSeen, phase>>

(* insertTelemetryBatch: ON CONFLICT (device_id, time) DO NOTHING. *)
InsertBatch(i) ==
    /\ ~Settled(i)
    /\ i \notin inserted
    /\ inserted' = inserted \cup {i}
    /\ telemetry' = telemetry \cup KeysOf(tasks[i].rows)
    /\ UNCHANGED <<batcherVars, clock, posting, rowOf, lastSeen, phase>>

(* touchLastSeen, once the INSERT has answered; the writer call is done. *)
TouchLastSeen(i) ==
    /\ i \in inserted
    /\ WriterSettles(i, "ok")
    /\ lastSeen' = [d \in Devices |->
                       IF d \in DevicesOf(tasks[i].rows) THEN clock ELSE lastSeen[d]]
    /\ UNCHANGED <<clock, posting, rowOf, inserted, telemetry, phase>>

(* Either statement fails: onError, the batch is given up. *)
WriterFails(i) ==
    /\ WriterSettles(i, "failed")
    /\ UNCHANGED ingestVars

FlushTimer ==
    /\ TimerFires
    /\ UNCHANGED ingestVars

(* shutdown(): intakeOpen = false and, in the same turn, telemetryBatcher.stop(). *)
Shutdown(c) ==
    /\ phase = "up"
    /\ phase' = "draining"
    /\ Flush(c)
    /\ UNCHANGED <<clock, posting, rowOf, inserted, telemetry, lastSeen>>

(* await telemetryBatcher.stop() returns; mqttClient.end() is called. *)
BatcherStopped(c) ==
    /\ phase = "draining"
    /\ phase' = "ending"
    /\ FlushResolves(c)
    /\ UNCHANGED <<clock, posting, rowOf, inserted, telemetry, lastSeen>>

(* await mqttClient.end() returns; db.end() closes the pool. *)
PoolEnds ==
    /\ phase = "ending"
    /\ phase' = "closed"
    /\ UNCHANGED <<batcherVars, clock, posting, rowOf, inserted, telemetry, lastSeen>>

Tick ==
    /\ clock < MaxClock
    /\ clock' = clock + 1
    /\ UNCHANGED <<batcherVars, posting, rowOf, inserted, telemetry, lastSeen, phase>>

WriterStep(i) == InsertBatch(i) \/ TouchLastSeen(i) \/ WriterFails(i)

IngestNext ==
    \/ \E m \in MqttMessages : MqttDelivers(m)
    \/ \E m \in HttpMessages : HttpPosts(m) \/ HttpHandled(m)
    \/ \E i \in 1 .. Len(tasks) : WriterStep(i)
    \/ FlushTimer
    \/ \E c \in Callers : Shutdown(c) \/ BatcherStopped(c)
    \/ PoolEnds
    \/ Tick

(* The event loop runs a due timer, the database answers or fails, and an    *)
(* awaited promise that resolved is delivered.                               *)
IngestSpec ==
    /\ IngestInit
    /\ [][IngestNext]_vars
    /\ WF_vars(FlushTimer)
    /\ \A i \in 1 .. MaxPushes : WF_vars(i <= Len(tasks) /\ WriterStep(i))
    /\ WF_vars(\E c \in Callers : BatcherStopped(c))
    /\ WF_vars(PoolEnds)

-----------------------------------------------------------------------------
IngestTypeOK ==
    /\ TypeOK
    /\ clock \in 0 .. MaxClock
    /\ posting \subseteq HttpMessages
    /\ rowOf \in Seq([key : Devices \X Nat, at : Nat, msg : Messages])
    /\ Len(rowOf) = pushes
    /\ inserted \subseteq 1 .. Len(tasks)
    /\ telemetry \subseteq Devices \X Nat
    /\ lastSeen \in [Devices -> 0 .. MaxClock]
    /\ phase \in {"up", "draining", "ending", "closed"}

(* A graceful shutdown loses nothing it accepted: once the pool is closed    *)
(* no row waits, no timer is armed, no write is in flight, and every row     *)
(* accepted over MQTT or HTTP (also by a handler that was awaiting its       *)
(* credentials when the signal came) is in the table unless its batch failed. *)
ShutdownDrains ==
    phase = "closed" =>
        /\ buffer = << >> /\ ~timer
        /\ \A i \in 1 .. Len(tasks) : Settled(i)
        /\ \A r \in 1 .. pushes :
              \/ rowOf[r].key \in telemetry
              \/ \E i \in 1 .. Len(tasks) :
                    r \in RowsOf(tasks[i].rows) /\ tasks[i].status = "failed"

(* A payload whose own time is within the skew bound whenever it is          *)
(* delivered is stored at most once, in whatever batches its redeliveries    *)
(* travel (the composite key and DO NOTHING).                                *)
StoredFor(m) ==
    {rowOf[r].key : r \in {q \in 1 .. pushes : rowOf[q].msg = m}} \cap telemetry

AlwaysInSkew(m) == Stamp[m] # NoStamp /\ \A t \in 0 .. clock : Apart(Stamp[m], t) <= Skew

StampedStoredOnce == \A m \in Messages : AlwaysInSkew(m) => Cardinality(StoredFor(m)) <= 1

(* A batch that counts as flushed is in the table and its devices have been  *)
(* seen no earlier than the server received their rows: onFlush follows both *)
(* statements.                                                               *)
FlushedIsDurable ==
    \A i \in 1 .. Len(tasks) : tasks[i].status = "ok" =>
        \A r \in RowsOf(tasks[i].rows) :
            /\ rowOf[r].key \in telemetry
            /\ lastSeen[rowOf[r].key[1]] >= rowOf[r].at

(* shutdown() reaches the end of the pool, whatever the batches do. *)
ShutdownCompletes == (phase = "draining") ~> (phase = "closed")

(* What README.md says of ingest, "QoS 1 redelivery stays idempotent": no    *)
(* payload is stored twice.                                                  *)
RedeliveryIdempotent == \A m \in Messages : Cardinality(StoredFor(m)) <= 1
==============================================================================
