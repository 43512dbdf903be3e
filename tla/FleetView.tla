------------------------------ MODULE FleetView ------------------------------
(***************************************************************************)
(* Who is online: status messages of devices (apps/server/src/presence.ts)  *)
(* become the status column of `devices`, presence events, and what the     *)
(* fleet view of the console shows (apps/web/src/views/FleetView.tsx).  The *)
(* view combines two sources, events and a poll of GET /api/devices, whose  *)
(* answers may be old when they come.                                       *)
(*                                                                          *)
(* A status is its number in the order the server is told: "online" and      *)
(* "offline" are not told apart, older and newer are.  0 is the status of a  *)
(* device that was never connected.                                         *)
(***************************************************************************)
EXTENDS LiveEvents, FiniteSets

CONSTANTS
    FleetDevices,  \* devices that are or will be provisioned
    Provisioned,   \* those that are when the console is opened
    Polls,         \* runs of refresh() that may overlap
    MaxStatus,     \* bound: status messages of all devices
    MaxErrors      \* bound: requests or statements that fail

ASSUME FleetAssumption ==
    /\ Provisioned \subseteq FleetDevices
    /\ MaxStatus \in Nat /\ MaxErrors \in Nat

VARIABLES
    column,        \* devices.status of the devices in the table
    arrived,       \* status messages delivered to the server
    updates,       \* runs of handleStatus that await their UPDATE
    raced,         \* devices whose updates overlapped or failed
    devices,       \* state of the view: the devices listed
    polls,         \* the runs of refresh()
    errors         \* failures so far

fleetVars == <<column, arrived, updates, raced, devices, polls, errors>>

Idle == [st |-> "idle"]
Awaiting(d) == {u \in updates : u.dev = d}
NoneListed == [d \in {} |-> 0]

FleetInit ==
    /\ column = [d \in Provisioned |-> 0]
    /\ arrived = 0
    /\ updates = {}
    /\ raced = {}
    /\ devices = NoneListed
    /\ polls = [p \in Polls |-> Idle]
    /\ errors = 0

-----------------------------------------------------------------------------
(* Slips a change of the code could make, one per property that catches it.  *)

(* The poll as a fallback, while the socket is down. *)
PollDisconnected(p) ==
    /\ polls[p] = Idle /\ socket # "open"
    /\ polls' = [polls EXCEPT ![p] = [st |-> "asked", seen |-> devices]]
    /\ UNCHANGED <<column, arrived, updates, raced, devices, errors>>
    /\ UNCHANGED liveVars

(* The event is published without waiting for the UPDATE. *)
StatusArrivesTold(d) ==
    /\ d \in DOMAIN column /\ arrived < MaxStatus
    /\ arrived' = arrived + 1
    /\ updates' = updates \cup {[dev |-> d, n |-> arrived + 1, stored |-> FALSE]}
    /\ raced' = IF Awaiting(d) = {} THEN raced ELSE raced \cup {d}
    /\ wire' = Published([dev |-> d, n |-> arrived + 1])
    /\ UNCHANGED <<socket, reconnect, drops, column, devices, polls, errors>>

-----------------------------------------------------------------------------
(* POST /api/devices. *)
Provision(d) ==
    /\ d \in FleetDevices \ DOMAIN column
    /\ column' = [e \in DOMAIN column \cup {d} |-> IF e = d THEN 0 ELSE column[e]]
    /\ UNCHANGED <<arrived, updates, raced, devices, polls, errors>>
    /\ UNCHANGED liveVars

(* A status message: handleStatus sends the UPDATE to the pool.  A payload   *)
(* that is neither status is ignored and has no step.                        *)
StatusArrives(d) ==
    /\ d \in DOMAIN column /\ arrived < MaxStatus
    /\ arrived' = arrived + 1
    /\ updates' = updates \cup {[dev |-> d, n |-> arrived + 1, stored |-> FALSE]}
    /\ raced' = IF Awaiting(d) = {} THEN raced ELSE raced \cup {d}
    /\ UNCHANGED <<column, devices, polls, errors>>
    /\ UNCHANGED liveVars

(* Each UPDATE has a connection of its own: they run in any order. *)
UpdateRuns(u) ==
    /\ ~u.stored
    /\ column' = [column EXCEPT ![u.dev] = u.n]
    /\ updates' = (updates \ {u}) \cup {[u EXCEPT !.stored = TRUE]}
    /\ UNCHANGED <<arrived, raced, devices, polls, errors>>
    /\ UNCHANGED liveVars

(* It rejects, and with it handleStatus: no event. *)
UpdateFails(u) ==
    /\ ~u.stored /\ errors < MaxErrors
    /\ errors' = errors + 1
    /\ updates' = updates \ {u}
    /\ raced' = raced \cup {u.dev}
    /\ UNCHANGED <<column, arrived, devices, polls>>
    /\ UNCHANGED liveVars

(* handleStatus goes on after its await, and publishes. *)
UpdateAnswered(u) ==
    /\ u.stored
    /\ updates' = updates \ {u}
    /\ Publish([dev |-> u.dev, n |-> u.n])
    /\ UNCHANGED <<column, arrived, raced, devices, polls, errors>>

(* The view's handler: a device that is not listed is not added. *)
PresenceEvent ==
    \E e \in {wire[i] : i \in 1 .. Len(wire)} :
        /\ Handle(e)
        /\ devices' = IF e.dev \in DOMAIN devices
                      THEN [devices EXCEPT ![e.dev] = e.n] ELSE devices
        /\ UNCHANGED <<column, arrived, updates, raced, polls, errors>>

(* refresh(), called by the effect and from then on by the interval. *)
Poll(p) ==
    /\ polls[p] = Idle
    /\ polls' = [polls EXCEPT ![p] = [st |-> "asked", seen |-> devices]]
    /\ UNCHANGED <<column, arrived, updates, raced, devices, errors>>
    /\ UNCHANGED liveVars

(* The server reads the table. *)
PollReads(p) ==
    /\ polls[p].st = "asked"
    /\ polls' = [polls EXCEPT ![p] = [st |-> "read", seen |-> @.seen, rows |-> column]]
    /\ UNCHANGED <<column, arrived, updates, raced, devices, errors>>
    /\ UNCHANGED liveVars

(* The answer comes: it replaces the list. *)
PollShows(p) ==
    /\ polls[p].st = "read"
    /\ devices' = polls[p].rows
    /\ polls' = [polls EXCEPT ![p] = Idle]
    /\ UNCHANGED <<column, arrived, updates, raced, errors>>
    /\ UNCHANGED liveVars

(* It does not: an error is shown and the list stays. *)
PollFails(p) ==
    /\ polls[p].st # "idle" /\ errors < MaxErrors
    /\ errors' = errors + 1
    /\ polls' = [polls EXCEPT ![p] = Idle]
    /\ UNCHANGED <<column, arrived, updates, raced, devices>>
    /\ UNCHANGED liveVars

FleetNext ==
    \/ \E d \in FleetDevices : Provision(d) \/ StatusArrives(d)
    \/ \E u \in updates : UpdateRuns(u) \/ UpdateFails(u) \/ UpdateAnswered(u)
    \/ \E p \in Polls : Poll(p) \/ PollReads(p) \/ PollShows(p) \/ PollFails(p)
    \/ PresenceEvent
    \/ SocketStep /\ UNCHANGED fleetVars

Init == LiveInit /\ FleetInit

FleetSpec == Init /\ [][FleetNext]_<<liveVars, fleetVars>>

(* The pool answers, the interval fires, requests are answered and frames of *)
(* an open socket handled.                                                   *)
FleetFairness ==
    /\ WF_<<liveVars, fleetVars>>(\E u \in updates : UpdateRuns(u) \/ UpdateFails(u))
    /\ WF_<<liveVars, fleetVars>>(\E u \in updates : UpdateAnswered(u))
    /\ WF_<<liveVars, fleetVars>>(PresenceEvent)
    /\ \A p \in Polls :
          /\ WF_<<liveVars, fleetVars>>(Poll(p))
          /\ WF_<<liveVars, fleetVars>>(PollReads(p))
          /\ WF_<<liveVars, fleetVars>>(PollShows(p) \/ PollFails(p))

-----------------------------------------------------------------------------
FleetTypeOK ==
    /\ column \in UNION {[S -> 0 .. MaxStatus] : S \in SUBSET FleetDevices}
    /\ devices \in UNION {[S -> 0 .. MaxStatus] : S \in SUBSET FleetDevices}
    /\ \A u \in updates : u.dev \in DOMAIN column /\ u.n \in 1 .. arrived
    /\ raced \subseteq FleetDevices

(* A refresh never takes a device back behind what the view already showed   *)
(* when the refresh was sent: an event is published only once its status is  *)
(* stored, so the table is never behind the view (unless the updates of the  *)
(* device overlapped or failed).                                             *)
PollNotBehind ==
    \A p \in Polls : polls[p].st = "read" =>
        \A d \in DOMAIN polls[p].seen \ raced : polls[p].rows[d] >= polls[p].seen[d]

(* "Safety-net poll: self-heals from a missed WS event and picks up devices  *)
(* provisioned after this view's initial load" (FleetView.tsx): whatever     *)
(* events were lost and in whatever order answers came, the view ends up     *)
(* with the table.                                                           *)
FleetHeals == <>[](devices = column)
==============================================================================
