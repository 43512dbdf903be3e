# IoT fleet platform: specifications, checks and proofs

TLA+ specifications of the platform in `src/`: what its server
(`apps/server`), its simulated devices (`apps/simulator`), its console
(`apps/web`) and the code they share (`packages/shared`) promise one another,
model-checked with TLC on small
instances and, where it is within reach, proved with TLAPS for every value of
the constants.  `PROJECT.json` maps each definition to the lines it stands
for.  Paths below are relative to `src/`.

## 1. The system

One Bun process, the **server**, is a client of an EMQX **broker**, of a
TimescaleDB **database** (a pool of 10 connections) and serves HTTP and
WebSocket.  **Devices**, one object each in the simulator's process, are MQTT
clients of the same broker.  **Operators** use the web console.

| Part | State it keeps | Operations | What must be right |
|---|---|---|---|
| Batcher `server/src/ingest/batcher.ts` | buffer, timer, chain of write promises, drop counter | push, timer, flush, stop, the writer's outcomes | order, at most one write per row, an exact drop count, `stop()` waits for everything, no row waits for ever |
| Telemetry ingest `mqtt/ingest.ts`, `api/ingest.ts`, `index.ts`, `db.ts` | the `intakeOpen` gate; `telemetry` and `devices.last_seen` tables | MQTT and HTTP delivery, skew guard, two-statement writer, shutdown | nothing accepted is lost by a graceful stop, redelivery does not duplicate, "flushed" means stored |
| Alert engine `alerts/engine.ts`, `repo.ts` | `states` (per rule and device: pending since, active alert, last fired), `alerts` table | evaluate per point, fire, resolve | active means open, one open alert, cooldown, duration |
| Rules cache `alerts/engine.ts` | `cache`, `loading` | load, invalidate, expiry | edits and new devices take effect |
| RPC manager `rpc/manager.ts` | map of pending requests and their timers, counters | send, response, timeout | every call settles once, with its own answer, counted once |
| Shadow store `shadow/store.ts`, `delta.ts` | the shadow columns of `devices` | patch, set, report, refresh, emit delta | no lost edit; device and twin converge |
| OTA `ota/manager.ts`, `simulator/src/ota.ts` | `devices.firmware_version`; `otaInFlight` of the device | deploy, progress, the device's update | an update starts only when needed, one at a time, and ends in a report |
| Device `simulator/src/device.ts` | reported state, MQTT client, update in flight, telemetry timer | connect, delta, RPC, update, reboot | it announces its state and follows the desired one |
| Presence and fleet view `presence.ts`, `web/src/views/FleetView.tsx` | `devices.status`; the list on show | status messages, UPDATEs, events, a poll every 30 s | the view never goes back, and ends up with the table |
| Server's MQTT client `mqtt/client.ts` | current client, reconnect timer | dial, connect, close, end | one live connection, always on its way back, none after `end()` |
| Provisioning `simulator/src/index.ts`, `provision.ts`, `state.ts`, `api/devices.ts` | state file, `devices` table | POST /api/devices with retries, save, restart with another count | one identity per device, kept over restarts |
| Topics, broker auth and ACL `shared/src/topics.ts`, `api/internal.ts`, `mqtt/acl.ts` | sessions and subscriptions (the broker's) | authenticate, authorize, subscribe, route | a device touches its own topics, and all of them |
| WebSocket hub and client `ws/hub.ts`, `web/src/lib/ws.ts` | socket, reconnect timer | publish, close, reconnect | one socket; what is published without one is lost |
| Alerts page `AlertsView.tsx`, `RuleDrawer.tsx` | lists of alerts and rules, drawer, requests under way | load, events, switch, delete, save | open alerts are shown as open, optimistic changes come out right, no rule gets another's text |
| Device page `DeviceView.tsx`, `components/device/*` | record, points, shadow form, RPC log, OTA progress | select, range, events, patch, call, deploy | nothing of a device left behind is shown or sent, no edit of another client is put back |
| Statistics, webhook, metrics, signals, ESP32 sketch | queries, text, floating point | - | - |

How they interact: the broker delivers a device's messages to handlers in
`index.ts`, which start the work (`void onStatus(...)`, `void
engine.evaluate(...)`) and do not wait for it. Two messages of one device are
therefore handled concurrently, and interleave wherever there is an `await`;
their statements run on different pool connections and are answered in any
order. HTTP handlers change the same rows. The console combines answers of
requests with events of its socket, which overtake one another in the same way.
The server publishes deltas, RPC requests and alerts back through the broker.
Sessions are clean: what was queued for a client is gone with its connection.
QoS 1 repeats.

The hard part is hence order: stale state after an `await`, statements that
overtake each other, timers that race answers, messages lost with a connection
and processes that restart.  `PROJECT.json` lists these hazards one by one,
each at its line, with the properties that would catch it, or why none does.

## 2. Modules

| Module | Models | State ↔ code |
|---|---|---|
| `Batcher` | `batcher.ts`, every operation | a row is its arrival number; `tasks` are the calls of the writer, `pending` the ones chained into the promise, `calls` the promises given to the callers of flush()/stop() |
| `Ingest` | telemetry path and `shutdown()`; EXTENDS `Batcher` | `rowOf` gives rows their content, `telemetry` is the table's key set, `phase` the steps of `shutdown()`, `posting` HTTP handlers awaiting the credential check |
| `AlertEngine` | `evaluate`, `evalOne`, `fire`, `resolveActive`, restarts | `states` refers to objects of a `heap`, since a suspended evaluation holds the object it read; `evals` are the evaluations with what they hold over an `await` |
| `RulesCache` | `ensureCache`, `invalidateRulesCache`, the rules API | a table is the number of writes it has seen; `loading` and `cache` as in the code |
| `Exchange` | abstract: what POST /rpc promises | `result` of each call, `answers` devices gave |
| `RpcManager` | `sendRpc`, its timer, `handleResponse` | a call is its request id; the broker is the sets of published `requests` and `responses`; `Promised` is the instance of `Exchange` it implements |
| `ShadowStore` | the store's statements, the pool, emit, deploy | `row` is the device's row; `statements` the driver's queue; `answers` deltas of rows on their way back; `deltas` the broker's queue for the device |
| `ShadowSync` | the device at the other end, restarts and broken connections; EXTENDS `ShadowStore` | `device` is `reported`; `ota` the update in flight; `acks` the continuations of awaited publishes |
| `MqttClient` | `mqtt/client.ts` | `clients` are the mqtt.js clients dialled so far with state and listeners; `timers` what `setTimeout` will run, `reconnectTimer` what the code knows of it |
| `LiveEvents` | `ws/hub.ts`, `web/src/lib/ws.ts` | `socket`, `reconnect`; `wire` holds the frames published and not yet handled |
| `FleetView` | `presence.ts`, the list of `FleetView.tsx`; EXTENDS `LiveEvents` | `column` is `devices.status`, `updates` the runs of `handleStatus`, `polls` those of `refresh()`, `devices` what is shown |
| `AlertsView` | the alerts page and its drawer, over the rules API; EXTENDS `LiveEvents` | `stage` is how far the engine is with an alert, `table` is `alert_rules`; `requests` are the handlers that await an answer, with what they would put back |
| `DeviceView` | the device page and its three panels; EXTENDS `LiveEvents` | what is shown is kept by the device it is about; `calls` are requests and the effect run they belong to |
| `Provisioning` | the simulator's start, its state file, `POST /api/devices` | an id stands for account, secret and record; `file` is the state file and whether it is whole |
| `Access` | topic contract, `/auth`, `/acl`, subscriptions, dispatch; EXTENDS `Provisioning` | `sessions` and `subs` are the broker's; topics are sequences of segments |
| `IngestProof`, `AlertProof`, `RulesProof`, `RpcProof`, `ShadowProof`, `MqttProof` | theorems about `Batcher` and `Ingest`, `AlertEngine`, `RulesCache`, `RpcManager`, `ShadowStore` and `ShadowSync`, `MqttClient` | |
| `ConsoleProof`, `IdentityProof` | theorems about the three pages of the console, and about `Provisioning` and `Access` | |
| `MCIngest`, `MCAlertEngine`, `MCRpcManager`, `MCShadowSync`, `MCFleet`, `MCConsole`, `MCAccess` | instances for TLC; `MCConsole` composes the pages, `MCAccess` the fleet with the broker | |

A handler, up to its next `await`, is one action: JavaScript runs it without
interruption.  Each module has a section "slips": mutated forms of its
definitions, used to see that a property can fail (`PROJECT.json`, mutants).
They are no part of any specification.

### Abstractions worth knowing

- **Ingest.** Payloads are a few model values: `stamped` (own time, in skew),
  `unstamped`, `farOff`, `malformed`.  MaxPushes bounds redelivery.  Telemetry
  delivered after the intake closed is acknowledged and discarded by the code,
  and the model does the same: it is in no table, and no property says it is.
- **AlertEngine.** A point is the set of rules that apply to it and, of them,
  the set it violates; the comparison itself, messages, events and webhooks do
  not affect the engine's state.  That any rules may apply to any point is how
  edits reach the engine: a rule that does not apply for a while is one that was
  disabled, retargeted or deleted.  Which rule of a metric comes next is left
  open, as the SELECT has no ORDER BY.  A statement runs in the step that has its
  answer, since nothing in the engine reads the table: `ActiveIsOpen` and
  `OpenIsActive` hold of statements as answered, not between a commit and its
  answer.  After a restart `earlier` tells the
  evaluations, and with them the rows, of the process before.
- **RulesCache.** `raced` and `began` are history, for the properties.
- **RpcManager.** The network is a set: anything published may be delivered
  at any later time, any number of times, or never.  A response that matches
  nothing has no step, since it changes nothing.
- **ShadowSync.** The time a message spends on the network is counted as time
  in the statement queue, GET and PATCH of a client are one step whose
  statement waits in the queue, and an answer with an empty delta, which
  `emit` drops, is not kept.  `reportingIntervalMs` and `ledOn` are one key
  `plain`: both are adopted at once.  Progress messages other than `complete`
  only feed the console.  QoS 1 acknowledgements come in order of publishing.
  When the server stops, a statement it sent has run or never will.  At
  startup the broker delivers the device's retained status, which makes the
  server refresh.  While it runs, any query may reject, before its statement ran
  (`ServerStatementFails`) or after it, when only the answer is lost
  (`ServerAnswerLost`): then nothing is emitted and nobody tries again.  After
  `end(true)` mqtt.js never calls back what it had in
  flight: the continuation waits for ever (`acks' = << >>`).  `unheard` is
  history: since the device's last report the server has lost something that
  the row or the device needed, which is a report while it was down, a stop
  with a row that was not the device's last report, or a report, refresh or delta
  whose query rejected while no report was queued behind all others that would
  make up for it.
- **Console.** A status is its number in the order the server is told, so that
  older and newer are told apart; points, records and log entries are known by
  the device (and range) they are about, a rule's text by the form it was typed
  in. `missed`, `tangled` and `raced` are history: they mark the cases the code
  does not promise anything for, each named in the comment of the property that
  excepts it. `clobbered` records that a patch put an old value back. The pages
  share nothing but the socket, so a behaviour of `MCConsole` follows one of
  them (`page`, chosen at the start). Alerts are numbered in the order of
  `triggered_at`: the page asks for the newest 100 rows, open and resolved
  together (`PageSize`, `api/alerts.ts:58`), so that an alert that has been
  open for long is not among the active ones. It counts as `missed` until its
  next event, as does one whose event was lost or overwritten; nothing else on
  the page would show it. The deletion of a rule's alerts with the rule is not
  coupled to the list of alerts, which a reload corrects.
- **Provisioning.** A torn file is one `loadState` takes for no devices, and so
  is a whole one that it fails to read (`state.ts:34`): the fleet is then
  empty, and the first record saved writes over the others. A POST that nobody
  awaits any more may still create its device (`adrift`). `lost` and `wiped`
  count what the orphans are allowed to come from.
- **Access.** Every topic and filter of the contract is tried, with ids, `+`,
  `#` and nothing in each place.  Matching filters is the broker's (external).
- **MqttClient.** The backoff is any time; publishing is not followed.  What
  mqtt.js does (`connect`, `close`, `close` again) is external.

## 3. What TLC checks

Passing runs (their properties hold), then runs that are meant to find a
counterexample: there a sentence of the repository is stated as the property
and the code does not do it.

| Run | Question | Result |
|---|---|---|
| `batcher` | Four rows, threshold 4 above cap 2 so that rows are dropped, two callers of flush(): `NewestKept`, `Accounting`, `WrittenInOrder`, `FlushWaits`, `RowsSettle` | holds |
| `ingest` | The telemetry path in production's shape (threshold below cap) with redelivery, failing statements and shutdown at any moment: `ShutdownDrains`, `StampedStoredOnce`, `FlushedIsDurable`, `ShutdownCompletes` | holds |
| `alerts` | Three points, each under any of a rule that fires at once and cools down and a rule that waits; any interleaving, failing statements, a restart: `ActiveIsOpen` and `FiresOnlySustained` however they overlap, and for devices whose evaluations did not overlap `OpenIsActive`, `CooldownKept`, `InRangeCloses` | holds |
| `rules_cache` | Three evaluations, two edits, a device provisioned, failing queries: `EditTakesEffect` (unless a load was running at the invalidation), `KindsCatchUp` | holds |
| `rpc` | Three calls, lossy and repeating network, malformed answers: `PendingIsOpen`, `OutcomesCounted`, `AnsweredByDevice`, and the refinement `ImplementsExchange` with its fairness: every call settles | holds |
| `shadow` | One device, two events out of patch, deployment, reboot RPC, broken connection, rejected query and restart of either side, two pool connections: `QuietIsInSync`, `NoLostEdit`, `UpdatesOnlyWhenNeeded`, `Converges` | holds |
| `mqtt_client` | Up to 20 failed dials and broken connections, `close` repeated and late, `end()` at any moment: `OneLiveClient`, `NeverStranded`, `EndIsFinal`, `Reconnects` | holds |
| `fleet` | Two devices, one provisioned while the view is open, two overlapping polls, updates and answers in any order, a lost socket, a failed statement or request: `PollNotBehind`, `FleetHeals` | holds |
| `console` | Alerts: two, with a page of one, and their events, racing the load. Rules: three requests that fail or lose their answer, the drawer left and opened again. Device: two devices, two ranges, two edits, a request in a panel: `AlertsShown`, `RulesSettle`, `TextBelongs`, `ShownIsSelected`, `PanelsBelong`, `NothingPutBack` | holds |
| `identity` | One or two devices provisioned through three crashes, lost answers and errors, of the server or of reading the file, then every topic and filter asked for: `OrphansBounded`, `FleetKeepsIdentity`, `OwnTopicsOnly` | holds |
| `alerts_twice` | "an already-active alert does not fire a second row" (`alerts.engine.test.ts:172`) | violated: a second point evaluated while the INSERT is awaited fires again, and the first row is never resolved |
| `rules_stale` | "invalidateRulesCache forces the next evaluate() to reload" (`alerts.engine.test.ts:202`) | violated: the load in progress is joined and stores the old rules for another TTL |

**Sentences of the repository that do not hold, without a run of their own.**
The definitions are in the modules, and a configuration that names one of them
shows the counterexample:

- `HeldWithinCap` (`Batcher`, threshold 2, cap 3, four rows), for "Bounded
  ingest buffer" (`packages/shared/src/constants.ts:26`): every 500 rows are
  detached whether or not the writes before have settled, so what the server
  holds has no bound and the cap of 10 000 is never met.  The theorem
  `NeverDropsAsConfigured` is its counterpart.
- `RedeliveryIdempotent` (`Ingest`, any constants with an unstamped payload), for
  "QoS 1 redelivery stays idempotent" (`README.md:84-85`): a payload without an
  own time in skew is stamped at each delivery and stored again.
- `DeviceConverges` (`ShadowSync`, constants of `shadow`, PoolSize 1 for a
  shorter search), for "Kill and restart any container and the system converges
  on its own" (`README.md:202`): a deployment is committed and the database
  goes down before its answer is back, so that `setDesired` (`store.ts:100`)
  rejects, no delta is published, and the device keeps its firmware until it
  reports or reconnects for another reason. There are two more ways: a report
  or refresh is rejected (started with `void`, it is not tried again), and a
  server that is down or stops misses a report, or stores an older one after
  it. `QuietIsInSync` and `Converges` except these, until the device's next
  report, and nothing else that a connection or a process loses.

**Bounds and why they suffice.** Every bound is a constant with `Max` in its
name. Batcher: four rows overflow a buffer of two and make several batches; the
proofs cover every other size. Ingest: three accepted deliveries give two
batches of one payload. Alerts: three overlapping evaluations are one more than
an overwritten object needs, one tick reaches both sides of a duration and a
cooldown of one, and a fourth point would only repeat a case. Rules: one load,
an edit inside it and one after it. RPC: two calls of one method and one of
another tell counters and ids apart. Shadow: two events already give a
deployment met by a restart or by a patch, two connections let statements
overtake. One unacknowledged publish at a time (`MaxAcks`) makes the device
handle its next delta later, an order the broker may choose anyway. MqttClient:
after three faults nothing new happens, the rest shows it. Fleet: two status
messages may be of one device, and overtake each other, or of two; two polls
overlap. Console: of two alerts a page of one leaves out the older; a third
request meets two that are under way, one selection leads away from a device
and the next back to it; the two devices are interchangeable (`SYMMETRY`, no
liveness property in that run). Identity: five ids leave three to be orphaned
by the three faults with a fleet of two.

**Fairness.** Only what the platform itself provides: a due timer fires, the
database answers or rejects, an awaited promise that settled is delivered, the
broker delivers a message while the connection lasts, a process that is down is
restarted (docker-compose), mqtt.js or the reconnect timer dials again, the
console's interval fires and its requests are answered or fail. Nobody is
assumed to send a request, a device need not answer an RPC, and no strong
fairness is used. `Reconnects` and `Converges` hold because faults are finitely
many: they say what follows when faults stop. `FleetHeals` needs no socket: the
poll alone brings the view to the table.

**Deadlock.**  All configurations but `FleetView.cfg`, whose polls never end,
set `CHECK_DEADLOCK FALSE`: each system may
really come to rest (every call settled, shut down, nothing under way), or
the model has used up its bounds.  That it rests in a good state is what
`ShutdownDrains`, `QuietIsInSync` and the liveness properties are for.

## 4. What TLAPS proves

Every safety invariant and every action property of the passing runs is a
theorem, for every value of the constants under the assumptions named in the
modules: any sets of devices, rules, callers, messages or ids, any number of
requests, faults and restarts.  In each proof one step is one action of the
next-state relation, and the last one combines them with `PTL`.

**Batcher** (`IngestProof`; `BatcherAssumption`: threshold and cap positive).
The inductive invariant `IInv` says that the buffer is the interval of the
newest rows (`Newest`), `pending` chains *all* tasks, the timer is armed
exactly when rows wait, batches are ordered (`TasksInOrder`), the drop counter
is the number of rows missing between batches and buffer, and what a caller of
flush() was handed covers the rows before its call (`Promise`).  None of the
invariants of the runs is inductive alone: that a new batch is younger than
the others rests on the interval, and that flush() waits rests on the chain.
Results: `TypeCorrect`, `KeepsNewest`, `CountsDrops`, `WritesInOrder`,
`StopWaits`, `NoRowStranded` (rows wait iff a timer is armed) and
`NeverDropsAsConfigured`: if the threshold does not exceed the cap, as with
500 and 10 000, nothing is ever dropped.

**Telemetry path** (`IngestProof`; `IngestAssumption`: each payload has a device
and a time of its own or none).  `PathImplementsBatcher` is the refinement: each
step of path, table and shutdown is a step of the batcher or leaves it alone, so
what is proved of the batcher holds on the path.  `JInv` adds what the rows mean:
after `shutdown()` has called `stop()` nothing is pushed any more, so that call
waits for *all* batches there will ever be (`StopWaitsForAll`); a row's key
follows from its payload and the server's time when it came (`RowsStamped`);
the rows of an inserted batch are in the table, and a batch is settled as ok
only after both statements (`InsertedStored`, `OkTouched`).  Results:
`FlushedStays`, `StoredOnce`, and `GracefulShutdown` for a threshold within the
cap; without that, rows may be dropped, which a shutdown cannot undo.

**Alert engine** (`AlertProof`; `AlertAssumption`: durations and cooldowns are
numbers). `AInv` rests on ownership: an object of the heap and a row of the
table belong to the evaluation and rule that made them, hence to one key for
good (`StatesOwned`, `RowsUsed`); a row is called active by one object at most,
and a pending UPDATE of it was started from that object (`ActiveOnce`); and
while the evaluations of a device do not overlap there is one in progress, and
it holds the object `states` refers to (`OneAtATime`). Results: `NeverSilenced`
and `FiresAfterDuration`, which need no such exception, `OneOpenRow`,
`CooldownSpaces`, `ClosesInRange`.

**Rules cache** (`RulesProof`; `CacheAssumption`: the TTL is not zero).
`CacheInv`: nobody knows more than the database holds, and a cache whose load
did not race an invalidation holds at least what was invalidated last
(`CacheIsRecent`, `LoadIsRecent`); what an evaluation goes on with holds what
was invalidated before it started, and is not expired (`NeedsKept`,
`UsedInTime`). With a TTL of zero `KindsCatchUp` fails: the load an evaluation
has waited for would be expired when it goes on. Results: `EditsAreSeen`,
`KindsAreSeen`.

**RPC manager** (`RpcProof`; `RpcAssumption`: finitely many calls).  The
conjunction of the four invariants is inductive; the counting argument is the
lemma `TallySettles`.  Results: `RpcTypeCorrect`, `PendingExactly`,
`CountedOnce`, `AnswersCorrelate`, `NoSecondSettlement`, and `RefinesExchange`:
the manager's initial states are initial states of `Exchange`, and each of its
steps is a step of `Exchange` or none.  That a result is an answer the device
gave rests on the invariant that only calls that were asked have requests on the
network (`RequestsAsked`).

**Shadow** (`ShadowProof`; `ShadowAssumption`: at least one pool connection;
`SyncAssumption`: the device has a factory state). Statements overtake each
other, so the invariant does not follow one report. `TwinFollows` says that
either a report is still to be stored, the last of which tells what the device
runs with unless it is to announce itself anyway (`LastIsSent`); or that, with
no delta on its way, the row holds what the device runs with, and a row that
differs from what is desired has a delta or a refresh under way
(`LastIsStored`), unless something has been lost on the server since
(`unheard`). A rejected query keeps the first if it was not the last report's,
and otherwise is an exception. `PatchesRead`: a patch carries the `desired` of
the version it carries. `NoUpdateUnasked`: no update is in flight as long as no
firmware is desired. `AcksInTurn`: a delta that goes on after its
acknowledgement asks for another firmware than the device runs, unless the end
of an update comes first. Results: `TwinIsExact`, `EditsAreKept`,
`UpdatesNeeded`, `SyncTypes`.

**Server's MQTT client** (`MqttProof`; any number of faults).  `MInv`: every
client but the current one is disposed of, listeners and all
(`OthersDisposed`), and a timer is armed exactly while the current client is
closed and its end not intended (`TimerMeansClosed`).  That no `close` dials a
second client rests on both: only the current client has events, and a closed
one already has its timer.  Results: `MqttTypeCorrect`, `NeverTwoClients`,
`AlwaysOnTheWay`, `GaugeIsRight`, `EndStays`.

**Console** (`ConsoleProof`; `AlertsAssumption`: no rule has the id `"new"`,
which the drawer uses for none, alerts are numbered and a page is not empty;
`DeviceViewAssumption`, `FleetAssumption`, `LiveAssumption`: bounds are
numbers). Each page has an invariant that relates what is shown, what the
server has, what is on the socket and the requests under way.

- *Device* (`DeviceInv`): a request is known to be of the selected device by its
  effect run or its mount, older mounts have older numbers (`MountIsSelected`),
  and the shadow form is filled at every change of version, so a patch carries
  the version its form came from (`FormIsVersion`); the store refuses it if that
  is not the row's.  Results: `ShownAreSelected`, `PanelsAreTheirs`,
  `NothingIsPutBack`.
- *Alerts* (`ListInv`): the last event on the wire about an alert is what the
  engine published last (`LastIsNews`), and while the page still waits for its
  load each alert with nothing on its way is right in the answer or in the list,
  unless it was left out of the page (`ListShown`).  Result: `AlertsAreShown`.
- *Rules* (`RulesInv`): requests under way are about different rules
  (`OneByOne`), a rule of one agrees with the table up to what the request's
  step or its undoing will put right (`Agrees`), and all the others are the
  table's.  Results: `OptimismSettles`, and `TextsBelong`, which needs that the
  drawer's form holds a text of the rule it was opened for, and a draft for a new
  rule only, or for one that was new when it was saved.
- *Fleet* (`FleetInv`): of the devices whose updates did not overlap or fail, the
  list, each event on the wire, each poll's answer and what the view showed at
  its start are not ahead of the table.  It rests on one update of such a
  device at a time (`UpdatesInv`).  Result: `PollsAreNotBehind`.

`ConsoleInvariant` joins the first three as `MCConsole` does: a step of one page
leaves the other pages' part as it is.

**Identity** (`IdentityProof`; `ProvisioningAssumption`: finitely many ids,
fleets are not empty; `AccessAssumption`: no id is a wildcard, empty or
`server`). `PInv`: the accounts nobody holds and the POSTs adrift together are
at most the answers lost and the records of files torn or written over unread
(`AdriftPaid`, by cardinalities), and the devices that ran are in the file
whenever it is not being written (`RanKept`). `SInv`: only the server is a
superuser and a device has none but its two subscriptions.
`DevicesKeepToTheirTopics` follows from lemmas about the topic builders,
`ParseTopic` and `CheckAcl` for every topic and filter of the contract. Results
besides: `OrphansPaidFor`, `SameFleetAgain`, `ProvisioningTypes`.

**What the proofs found.** `QuietIsInSync` had excepted a lost report only, and
was false beyond the bounds of its run: with more events an older report is
stored after the last one and the delta that would show it is lost with the
server. `unheard` covers both, and rejected queries. `ParseTopic` was a CASE
whose arms overlapped, which leaves the value open; it has the order of the
code's early returns now.

**Model-checked only.**  Every liveness property (`RowsSettle`,
`ShutdownCompletes`, `Converges`, `Reconnects`, `FleetHeals`, and the fairness
of `Exchange` in `ImplementsExchange`, whose safety part is `RefinesExchange`):
fairness and ENABLED are out of the prover's reach, as is induction over data.
Some theorems have no place in the runs: the type invariants of all modules but
`ShadowSync`, `GaugeTrue`, and the counterparts named above.

## 5. What is not modelled, and why

- Statistics, health, registering firmware, metrics, logging, configuration: one
  query each or text, no state of their own.  Webhooks: one attempt, nothing
  outlives it; the address check is about the text of addresses.
- Signal generation and randomness: floating point.
- The ESP32 sketch: an example device.  It reports only keys it supports
  (`main.cpp:72`), so a desired key it does not know keeps the delta non-empty,
  and delta and report answer each other for ever.
- Aggregates, retention, dashboards, broker configuration: infrastructure,
  modelled only in its effect on both sides.
- The work MQTT handlers have started when the server stops: the code does not
  wait for it (`index.ts:216`), and the models lose it as a crash would.  The
  handlers are started with `void`; whether Bun goes on after a rejection
  (`index.ts:130`) or ends the process is not in the repository: `ShadowSync` has
  both, as a query that rejects and as a stop of the server.
- Telemetry that arrives when the intake has closed (`index.ts:220`) is
  acknowledged and discarded; the models do the same.
- What was published through a client that is disposed of (`mqtt/client.ts:88`),
  and subscriptions the broker refuses, which are only logged (`:118`).
- An RPC request has no expiry and the device keeps no record of ids
  (`api/devices.ts:250`): a call answered with 504 may still be executed, and a
  redelivered one twice.  Nothing in the code promises otherwise.
- Two `simulateDisconnect` at once (`device.ts:200`): a reboot RPC before or
  during the reboot of an update, or a second reboot RPC, ends one client twice
  and creates two with one client id, which take the session over from each
  other.  `RpcReboots` of `ShadowSync` happens outside of an update and at its
  end.  There it may take the acknowledgement of the last report: `runOta` then
  waits for ever, `otaInFlight` stays set and the device starts no update until
  its process restarts.  `Converges` excepts that state (`Stranded`).
- `devices.firmware_version` (`ota/manager.ts:39`) is kept in `ShadowStore`, and
  stays wrong when `complete` is lost or overtaken; nothing corrects it, and
  only the console reads it.
- An alert left open by a restart, or by a rule that never applies again: nothing
  resolves it; `AlertEngine` has such rows, and its properties are about those
  of the present process.
- `Deploying...` of the OTA panel (`OtaPanel.tsx:54`) stays when the device runs
  that version already or the event is missed: `DeviceView` has both, and no
  property, as nothing brings the button back.

## 6. Plan

The components are modelled in the order telemetry, alerts, RPC, shadow,
connection, console, identity, and the safety of all of them is proved.  What is
left, most important first:

1. Abstract specifications for two more components, with the proof that they
   are implemented, as `Exchange` is: a twin whose `desired` changes by
   accepted edits only, for `ShadowStore`, and a connection that is up, on its
   way or ended, for `MqttClient`.
2. The safety half of the liveness properties, as invariants: whatever is not
   settled has a step that is enabled and that fairness covers. `NoRowStranded`
   and `AlwaysOnTheWay` are of that kind; updates, polls and reports have none
   yet.
3. What limits the exceptions: that `missed`, `tangled`, `raced`, `unheard` stay
   false in the behaviours without the event that sets them, so that the
   properties have an unconditional form there.

To model next, if a later revision of the code gives them a promise: two
overlapping reboots with the takeover of sessions, and the firmware column.
