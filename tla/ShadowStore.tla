------------------------------ MODULE ShadowStore ------------------------------
(***************************************************************************)
(* The server's side of one device's shadow (apps/server/src/shadow/store.ts *)
(* and delta.ts) with the HTTP clients that patch it and the deployments    *)
(* that set its firmware (ota/manager.ts).                                  *)
(*                                                                          *)
(* Every operation is one statement on the device's row.  The pool has      *)
(* PoolSize connections (10 in db.ts); a statement has one from when it is  *)
(* taken off the queue until its answer is back.  So statements that have   *)
(* one run in any order, and their answers come back in any order.  An      *)
(* answer carries the row as its statement left it, and emit() publishes    *)
(* the delta of that row, not of the present one; when that is empty the    *)
(* answer has no effect, and the model has none.  A query may also reject,  *)
(* before its statement has run or with the answer of one that has; then    *)
(* the operation ends there and nothing is published.                       *)
(*                                                                          *)
(* A shadow has a key that a device adopts at once (`plain`, standing for   *)
(* reportingIntervalMs and ledOn) and the firmware version.                 *)
(***************************************************************************)
EXTENDS Naturals, Sequences, SequencesExt, Bags

CONSTANTS
    Plain,       \* values of the plain key
    Firmwares,   \* firmware versions
    None,        \* a key that is absent
    PoolSize,    \* connections of the database pool
    MaxEvents    \* bound of the model: patches, deployments and faults

ASSUME ShadowAssumption ==
    /\ None \notin Plain \cup Firmwares
    /\ PoolSize \in Nat \ {0}
    /\ MaxEvents \in Nat

VARIABLES
    row,         \* the device's row: shadow and firmware_version
    statements,  \* statements not yet run, in the order they were sent
    answers,     \* the deltas of answers on their way back: a bag
    events,      \* how many of them there were
    subscribed,  \* the broker knows the device's subscription
    deltas       \* published deltas the broker has yet to deliver, in order

storeVars == <<row, statements, answers, events, subscribed, deltas>>

Shadow == [plain : Plain \cup {None}, firmware : Firmwares \cup {None}]
Empty == [plain |-> None, firmware |-> None]

(* shadow_desired || patch: the keys of the patch replace, the others stay. *)
Merge(desired, patch) ==
    [k \in DOMAIN desired |-> IF patch[k] # None THEN patch[k] ELSE desired[k]]

(* computeDelta: the keys desired has and whose value is not the reported. *)
Delta(desired, reported) ==
    [k \in DOMAIN desired |-> IF desired[k] # reported[k] THEN desired[k] ELSE None]

Event == events < MaxEvents /\ events' = events + 1

(* A statement; a patch comes with the version its client has read. *)
Unversioned(op, arg) == [op |-> op, arg |-> arg, version |-> None, seen |-> Empty]

Send(s) == statements' = Append(statements, s)

(* The statements that have a connection. *)
Running == {i \in DOMAIN statements : i + BagCardinality(answers) <= PoolSize}

(* Slip: an answer goes to emit() whether or not its delta is empty. *)
LeavesAlways(r) ==
    /\ row' = r
    /\ answers' = answers (+) SetToBag({Delta(r.desired, r.reported)})

(* A statement leaves the row r, and its answer is on its way. *)
Leaves(r) ==
    /\ row' = r
    /\ answers' = answers (+) SetToBag({Delta(r.desired, r.reported)} \ {Empty})

(* A device that was provisioned, has connected and has reported its state. *)
StoreInit(state) ==
    /\ row = [desired |-> Empty, reported |-> state, version |-> 0, firmware |-> state.firmware]
    /\ statements = << >>
    /\ answers = EmptyBag
    /\ events = 0
    /\ subscribed = TRUE
    /\ deltas = << >>

-----------------------------------------------------------------------------
(* Slips a change of the code could make, one per property that catches it.  *)

(* A deployment does not count as a new version of the shadow. *)
SetSilently(s) ==
    /\ s.op = "set"
    /\ Leaves([row EXCEPT !.desired = Merge(@, s.arg)])
    /\ UNCHANGED <<events, subscribed, deltas>>

(* A report is stored and no delta follows from it. *)
ApplyReportedMutely(s) ==
    /\ s.op = "report"
    /\ row' = [row EXCEPT !.reported = s.arg]
    /\ UNCHANGED <<answers, events, subscribed, deltas>>

-----------------------------------------------------------------------------
(* What clients send, and what the statements do (DatabaseStep takes each    *)
(* off `statements` as it runs).                                             *)

(* GET and then PATCH /:id/shadow: a client patches the version it has read. *)
(* (Time between the two is time in the queue; `seen` is history.)           *)
PatchShadow(v) ==
    /\ Event
    /\ Send([op |-> "patch", arg |-> [Empty EXCEPT !.plain = v],
             version |-> row.version, seen |-> row.desired])
    /\ UNCHANGED <<row, answers, subscribed, deltas>>

(* patchDesired's UPDATE finds the version it expects, ... *)
PatchDesired(s) ==
    /\ s.op = "patch" /\ s.version = row.version
    /\ Leaves([row EXCEPT !.desired = Merge(@, s.arg), !.version = @ + 1])
    /\ UNCHANGED <<events, subscribed, deltas>>

(* ... or another one: 409, and the client has to read again. *)
VersionConflict(s) ==
    /\ s.op = "patch" /\ s.version # row.version
    /\ UNCHANGED <<row, answers, events, subscribed, deltas>>

(* POST /:id/firmware: deploy() found device and version, setDesired is sent. *)
Deploy(v) ==
    /\ Event
    /\ Send(Unversioned("set", [Empty EXCEPT !.firmware = v]))
    /\ UNCHANGED <<row, answers, subscribed, deltas>>

SetDesired(s) ==
    /\ s.op = "set"
    /\ Leaves([row EXCEPT !.desired = Merge(@, s.arg), !.version = @ + 1])
    /\ UNCHANGED <<events, subscribed, deltas>>

ApplyReported(s) ==
    /\ s.op = "report"
    /\ Leaves([row EXCEPT !.reported = s.arg])
    /\ UNCHANGED <<events, subscribed, deltas>>

(* refreshAndPublish, after a device came online. *)
Refresh(s) ==
    /\ s.op = "refresh"
    /\ Leaves(row)
    /\ UNCHANGED <<events, subscribed, deltas>>

(* handleProgress: the device says its update is complete. *)
UpdateFirmwareVersion(s) ==
    /\ s.op = "firmware"
    /\ row' = [row EXCEPT !.firmware = s.arg.firmware]
    /\ UNCHANGED <<answers, events, subscribed, deltas>>

(* emit(): the delta is published; the broker keeps it for a device that is  *)
(* connected, and forgets it otherwise (clean sessions).                     *)
Emit(delta) ==
    /\ answers' = answers (-) SetToBag({delta})
    /\ deltas' = IF subscribed THEN Append(deltas, delta) ELSE deltas
    /\ UNCHANGED <<row, statements, events, subscribed>>

Statement(s) ==
    \/ PatchDesired(s) \/ VersionConflict(s) \/ SetDesired(s) \/ ApplyReported(s)
    \/ Refresh(s) \/ UpdateFirmwareVersion(s)

Request ==
    \/ \E v \in Plain : PatchShadow(v)
    \/ \E v \in Firmwares : Deploy(v)

DatabaseStep ==
    \E i \in Running : Statement(statements[i]) /\ statements' = RemoveAt(statements, i)
EmitStep == \E delta \in BagToSet(answers) : Emit(delta)

(* pool.query rejects and the statement has not run: a client gets a 500, a  *)
(* message of the device is forgotten (its handler was called with `void`).  *)
StatementFails(i) ==
    /\ Event
    /\ statements' = RemoveAt(statements, i)
    /\ UNCHANGED <<row, answers, subscribed, deltas>>

(* It rejects and the statement has run: emit() is not reached. *)
AnswerLost(delta) ==
    /\ Event
    /\ answers' = answers (-) SetToBag({delta})
    /\ UNCHANGED <<row, statements, subscribed, deltas>>
===============================================================================
