------------------------------ MODULE DeviceView ------------------------------
(***************************************************************************)
(* The page of one device (apps/web/src/views/DeviceView.tsx) and its       *)
(* panels for shadow, RPC and OTA (components/device).  The operator goes   *)
(* from device to device and from range to range while requests are under   *)
(* way and events come; effects ignore answers for what they have left, and *)
(* the panels are remounted with the device.                                *)
(*                                                                          *)
(* What is shown is kept by whom it is about: a summary by the device of    *)
(* the record and of the status put into it, points by device and range,    *)
(* a shadow by its version, for every edit of `desired` gives a new one.    *)
(***************************************************************************)
EXTENDS LiveEvents, Integers, FiniteSets

CONSTANTS
    Devices,
    MaxSelects,     \* bound: devices and ranges picked
    MaxCalls,       \* bound: requests made in the panels
    MaxEvents,      \* bound: events other than `shadow`
    MaxEdits        \* bound: edits of shadows

ASSUME DeviceViewAssumption ==
    {MaxSelects, MaxCalls, MaxEvents, MaxEdits} \subseteq Nat

VARIABLES
    selected,       \* deviceId
    range,
    device,         \* state of the view: the summary shown
    deviceError,
    points,         \*   and the points of the chart
    loaded,         \* which of the two were answered for what is selected
    panels,         \* state of the three panels
    mount,          \* number of the panels' instance
    calls,          \* requests under way
    twin,           \* devices.shadow_version
    news,           \* shadows stored whose event is not published yet
    clobbered,      \* whether a patch put back what another edit had changed
    selects, made, events, edits

deviceVars == <<selected, range, device, deviceError, points, loaded, panels, mount,
                calls, twin, news, clobbered, selects, made, events, edits>>
shadowVars == <<twin, news, clobbered, edits>>
viewVars == <<selected, range, device, deviceError, points, loaded>>
counters == <<selects, made, events>>

None == "none"
NoVersion == -1
Live == "15m"
Ranges == {Live, "6h"}
NoSummary == [id |-> None, of |-> None]
NewPanels == [on |-> TRUE, dev |-> {}, version |-> NoVersion, form |-> NoVersion, hidden |-> TRUE,
              saving |-> FALSE, calling |-> FALSE, deploying |-> FALSE]
NoPanels == [NewPanels EXCEPT !.on = FALSE]

DeviceInit ==
    /\ selected = None /\ range = Live
    /\ device = NoSummary /\ deviceError = FALSE /\ points = {} /\ loaded = {}
    /\ panels = NoPanels /\ mount = 0
    /\ calls = {}
    /\ twin = [d \in Devices |-> 0] /\ news = {} /\ clobbered = FALSE
    /\ selects = 0 /\ made = 0 /\ events = 0 /\ edits = 0

(* A request made now; `current` is ~cancelled for the effects' requests. *)
Request(kind, d) ==
    [kind |-> kind, dev |-> d, range |-> range, current |-> TRUE, mount |-> mount,
     n |-> made, st |-> "asked",
     version |-> IF kind = "patch" THEN panels.version ELSE NoVersion,
     form |-> IF kind = "patch" THEN panels.form ELSE NoVersion]

-----------------------------------------------------------------------------
(* Slips a change of the code could make, one per property that catches it.  *)

(* The effects return no clean-up. *)
CancelledNot(kinds) == calls

(* The panels have no key: they are not remounted. *)
RemountedNot(d) ==
    /\ UNCHANGED mount
    /\ panels' = [panels EXCEPT !.on = TRUE]

(* A shadow is shown, and what the operator typed stays in the form. *)
AppliedToViewOnly(d, v) ==
    [panels EXCEPT !.version = v, !.form = IF @ = NoVersion THEN v ELSE @,
                   !.dev = @ \cup {d}, !.hidden = FALSE]

-----------------------------------------------------------------------------
(* The clean-up of the effects of these kinds. *)
Cancelled(kinds) ==
    {IF c.kind \in kinds THEN [c EXCEPT !.current = FALSE] ELSE c : c \in calls}

(* applyShadow: the shadow is shown, and fills the form. *)
Applied(d, v) == [panels EXCEPT !.version = v, !.form = v, !.dev = @ \cup {d}]

(* New panels for the device: the shadow's is loading. *)
Remounted(d) ==
    /\ mount' = mount + 1
    /\ panels' = NewPanels

FirstRefresh(d) == [Request("shadow", d) EXCEPT !.mount = mount']

(* The operator picks a device: both effects run again.  An error shown for  *)
(* the device before stays until an answer comes, in place of the panels.    *)
Select(d) ==
    /\ d # selected /\ selects < MaxSelects
    /\ selects' = selects + 1
    /\ selected' = d
    /\ loaded' = {}
    /\ IF deviceError THEN UNCHANGED <<panels, mount>> ELSE Remounted(d)
    /\ calls' = Cancelled({"device", "points"}) \cup {Request("device", d), Request("points", d)}
                   \cup (IF deviceError THEN {} ELSE {FirstRefresh(d)})
    /\ UNCHANGED <<range, device, deviceError, points, made, events>>
    /\ UNCHANGED shadowVars /\ UNCHANGED liveVars

SetRange(k) ==
    /\ k # range /\ selected # None /\ ~deviceError /\ selects < MaxSelects
    /\ selects' = selects + 1
    /\ range' = k
    /\ loaded' = loaded \ {"points"}
    /\ calls' = Cancelled({"points"}) \cup {[Request("points", selected) EXCEPT !.range = k]}
    /\ UNCHANGED <<selected, device, deviceError, points, panels, mount, made, events>>
    /\ UNCHANGED shadowVars /\ UNCHANGED liveVars

(* getDevice is answered, or is not.  An answer that replaces an error       *)
(* brings the panels back.                                                   *)
DeviceAnswered(c) ==
    /\ c.kind = "device"
    /\ IF ~c.current
       THEN /\ calls' = calls \ {c}
            /\ UNCHANGED <<device, deviceError, loaded, panels, mount>>
       ELSE \/ /\ device' = [id |-> c.dev, of |-> c.dev]
               /\ deviceError' = FALSE /\ loaded' = loaded \cup {"device"}
               /\ IF deviceError
                  THEN Remounted(selected) /\ calls' = (calls \ {c}) \cup {FirstRefresh(selected)}
                  ELSE UNCHANGED <<panels, mount>> /\ calls' = calls \ {c}
            \/ /\ deviceError' = TRUE /\ panels' = NoPanels
               /\ calls' = calls \ {c}
               /\ UNCHANGED <<device, loaded, mount>>
    /\ UNCHANGED <<selected, range, points>>
    /\ UNCHANGED counters /\ UNCHANGED shadowVars /\ UNCHANGED liveVars

(* getTelemetry is answered, with no point or some; an error leaves the      *)
(* points as they are.                                                       *)
PointsAnswered(c) ==
    /\ c.kind = "points"
    /\ calls' = calls \ {c}
    /\ \/ c.current /\ points' \in {{}, {<<c.dev, c.range>>}} /\ loaded' = loaded \cup {"points"}
       \/ UNCHANGED <<points, loaded>>
    /\ UNCHANGED <<selected, range, device, deviceError, panels, mount>>
    /\ UNCHANGED counters /\ UNCHANGED shadowVars /\ UNCHANGED liveVars

-----------------------------------------------------------------------------
(* The panels' buttons. *)
Click(kind) ==
    /\ panels.on /\ made < MaxCalls
    /\ made' = made + 1
    /\ calls' = calls \cup {Request(kind, selected)}
    /\ UNCHANGED <<mount, selects, events>>
    /\ UNCHANGED viewVars /\ UNCHANGED shadowVars /\ UNCHANGED liveVars

ApplyShadowForm ==
    /\ panels.version # NoVersion /\ ~panels.hidden /\ ~panels.saving
    /\ Click("patch") /\ panels' = [panels EXCEPT !.saving = TRUE]

InvokeRpc == ~panels.calling /\ Click("rpc") /\ panels' = [panels EXCEPT !.calling = TRUE]

DeployFirmware ==
    ~panels.deploying /\ Click("deploy") /\ panels' = [panels EXCEPT !.deploying = TRUE]

(* The server: a GET reads the row; a PATCH needs the version it was made    *)
(* for and sends every key of the form; a deployment edits what it finds.    *)
Edit(d) ==
    /\ edits < MaxEdits /\ edits' = edits + 1
    /\ twin' = [twin EXCEPT ![d] = @ + 1]
    /\ news' = news \cup {[dev |-> d, version |-> twin[d] + 1]}

Answer(c, st, v) == calls' = (calls \ {c}) \cup {[c EXCEPT !.st = st, !.version = v]}

CallServed(c) ==
    /\ c.st = "asked" /\ c.kind \notin {"device", "points"}
    /\ \/ /\ c.kind = "shadow" /\ Answer(c, "ok", twin[c.dev])
          /\ UNCHANGED shadowVars
       \/ /\ c.kind = "patch" /\ c.version = twin[c.dev]
          /\ Edit(c.dev) /\ Answer(c, "ok", twin[c.dev] + 1)
          /\ clobbered' = (clobbered \/ c.form # twin[c.dev])
       \/ /\ c.kind = "patch" /\ c.version # twin[c.dev]
          /\ Answer(c, "conflict", NoVersion) /\ UNCHANGED shadowVars
       \/ /\ c.kind = "deploy" /\ Edit(c.dev) /\ Answer(c, "ok", NoVersion) /\ UNCHANGED clobbered
       \/ /\ c.kind = "rpc" /\ Answer(c, "ok", NoVersion) /\ UNCHANGED shadowVars
       \/ /\ c.kind \in {"shadow", "patch", "deploy"} /\ Answer(c, "error", NoVersion)
          /\ UNCHANGED shadowVars
    /\ UNCHANGED <<panels, mount>>
    /\ UNCHANGED viewVars /\ UNCHANGED counters /\ UNCHANGED liveVars

(* A panel goes on with an answer, if it is still mounted.  A conflict       *)
(* refreshes before the button is given back.                                *)
Continue(c) ==
    CASE c.kind = "shadow" /\ c.st = "ok" ->
            [Applied(c.dev, c.version) EXCEPT !.hidden = FALSE, !.saving = FALSE]
      [] c.kind = "shadow" /\ c.st = "error" -> [panels EXCEPT !.hidden = TRUE, !.saving = FALSE]
      [] c.kind = "patch" /\ c.st = "ok" -> [Applied(c.dev, c.version) EXCEPT !.saving = FALSE]
      [] c.kind = "patch" /\ c.st = "error" -> [panels EXCEPT !.saving = FALSE]
      [] c.kind = "patch" /\ c.st = "conflict" -> panels
      [] c.kind = "rpc" -> [panels EXCEPT !.dev = @ \cup {c.dev}, !.calling = FALSE]
      [] c.kind = "deploy" /\ c.st = "ok" -> panels
      [] c.kind = "deploy" /\ c.st = "error" -> [panels EXCEPT !.deploying = FALSE]

CallAnswered(c) ==
    /\ c.st # "asked"
    /\ panels' = IF panels.on /\ c.mount = mount THEN Continue(c) ELSE panels
    /\ calls' = (calls \ {c}) \cup
                  (IF c.st = "conflict" THEN {[Request("shadow", c.dev) EXCEPT !.mount = c.mount]}
                   ELSE {})
    /\ UNCHANGED mount /\ UNCHANGED shadowVars
    /\ UNCHANGED viewVars /\ UNCHANGED counters /\ UNCHANGED liveVars

(* Another client edits a shadow.                                            *)
OtherEdit(d) ==
    /\ Edit(d)
    /\ UNCHANGED <<panels, mount, calls, clobbered>>
    /\ UNCHANGED viewVars /\ UNCHANGED counters /\ UNCHANGED liveVars

-----------------------------------------------------------------------------
(* Events: shadows stored are published in any order, since each comes after *)
(* the answer of a statement of its own; the others come as they happen.     *)
PublishShadow(s) ==
    /\ news' = news \ {s}
    /\ Publish([type |-> "shadow", dev |-> s.dev, version |-> s.version])
    /\ UNCHANGED <<panels, mount, calls, twin, clobbered, edits>>
    /\ UNCHANGED viewVars /\ UNCHANGED counters

Happens(type, d) ==
    /\ events < MaxEvents /\ events' = events + 1
    /\ Publish([type |-> type, dev |-> d])
    /\ UNCHANGED <<panels, mount, calls, selects, made>>
    /\ UNCHANGED viewVars /\ UNCHANGED shadowVars

(* The handlers of the view and of the panels: every one looks at the device *)
(* selected now.  Points older than the range go when one is added.          *)
WithStatus(d) == IF device.id = None THEN device ELSE [device EXCEPT !.of = d]

Listen(e) ==
    \/ /\ e.type = "telemetry" /\ range = Live
       /\ \E kept \in {{}, points} : points' = kept \cup {<<selected, Live>>}
       /\ UNCHANGED <<device, panels>>
    \/ /\ e.type = "telemetry" /\ range # Live
       /\ UNCHANGED <<points, device, panels>>
    \/ /\ e.type = "presence"
       /\ device' = WithStatus(e.dev)
       /\ UNCHANGED <<points, panels>>
    \/ /\ e.type = "complete"
       /\ device' = WithStatus(e.dev)
       /\ panels' = IF panels.on THEN [panels EXCEPT !.deploying = FALSE, !.dev = @ \cup {e.dev}]
                    ELSE panels
       /\ UNCHANGED points
    \/ /\ e.type = "shadow"
       /\ panels' = IF panels.on THEN Applied(e.dev, e.version) ELSE panels
       /\ UNCHANGED <<points, device>>

ViewEvent ==
    \E e \in {wire[i] : i \in 1 .. Len(wire)} :
        /\ Handle(e)
        /\ IF e.dev = selected THEN Listen(e) ELSE UNCHANGED <<points, device, panels>>
        /\ UNCHANGED <<selected, range, deviceError, loaded, mount, calls>>
        /\ UNCHANGED counters /\ UNCHANGED shadowVars

(* Header and chart, and the panels: they share the device selected and the   *)
(* error that takes the panels' place.                                        *)
SelectStep ==
    \/ \E d \in Devices : Select(d)
    \/ \E c \in calls : DeviceAnswered(c)
    \/ \E d \in Devices : Happens("complete", d)
    \/ ViewEvent
    \/ SocketStep /\ UNCHANGED deviceVars

HeaderNext ==
    \/ SelectStep
    \/ \E k \in Ranges : SetRange(k)
    \/ \E c \in calls : PointsAnswered(c)
    \/ \E type \in {"telemetry", "presence"}, d \in Devices : Happens(type, d)

PanelsNext ==
    \/ SelectStep
    \/ \E c \in calls : CallServed(c) \/ CallAnswered(c)
    \/ ApplyShadowForm \/ InvokeRpc \/ DeployFirmware
    \/ \E d \in Devices : OtherEdit(d)
    \/ \E s \in news : PublishShadow(s)

-----------------------------------------------------------------------------
(* What was loaded for the device and range selected is about them and stays *)
(* so, whatever answers for devices left behind still come and whatever      *)
(* events are put into it: the summary is one device's record and status,    *)
(* every point of the chart, fetched or live, one device's and one range's.  *)
ShownIsSelected ==
    /\ "device" \in loaded => device = [id |-> selected, of |-> selected]
    /\ "points" \in loaded => points \subseteq {<<selected, range>>}

(* "their internal state (RPC log, OTA progress, shadow form) doesn't leak   *)
(* across devices" (DeviceView.tsx): what the panels hold is about the       *)
(* device selected.                                                          *)
PanelsBelong == panels.dev \subseteq {selected}

(* The form sends every key, also those the operator left alone, yet a patch *)
(* never puts back what another client changed: the version it is accepted   *)
(* for is the one the form was filled from.                                  *)
NothingPutBack == ~clobbered
==============================================================================
