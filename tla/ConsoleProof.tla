----------------------------- MODULE ConsoleProof -----------------------------
(***************************************************************************)
(* Safety of the console's pages, device, alerts with its rules, and fleet, *)
(* for any devices, rules, alerts and bounds.  Each page has an invariant   *)
(* that relates what is on show with what the server has, what is on the    *)
(* socket and the requests still under way: DeviceInv, ListInv and RulesInv *)
(* (composed in ConsoleInv, as in MCConsole), and FleetInv.                 *)
(***************************************************************************)
EXTENDS MCConsole, FleetView, SequenceTheorems, TLAPS

-----------------------------------------------------------------------------
(* The device page. *)

Shown == Devices \cup {None}
Kinds == {"device", "points", "shadow", "patch", "rpc", "deploy"}
CallRecords ==
    [kind : Kinds, dev : Devices, range : Ranges, current : BOOLEAN, mount : Nat, n : Nat,
     st : {"asked", "ok", "error", "conflict"}, version : Int, form : Int]
PanelStates ==
    [on : BOOLEAN, dev : SUBSET Shown, version : Int, form : Int, hidden : BOOLEAN,
     saving : BOOLEAN, calling : BOOLEAN, deploying : BOOLEAN]
DeviceEvents ==
    [type : {"telemetry", "presence", "complete"}, dev : Devices]
    \cup [type : {"shadow"}, dev : Devices, version : Int]

DeviceTypes ==
    /\ selected \in Shown /\ range \in Ranges
    /\ device \in [id : Shown, of : Shown] /\ deviceError \in BOOLEAN
    /\ panels \in PanelStates /\ mount \in Nat
    /\ calls \subseteq CallRecords
    /\ twin \in [Devices -> Int] /\ clobbered \in BOOLEAN
    /\ news \subseteq [dev : Devices, version : Int]
    /\ made \in Nat

(* The answers a request can get. *)
Answers ==
    \A c \in calls : c.st # "asked" =>
        \/ c.kind = "shadow" /\ c.st \in {"ok", "error"}
        \/ c.kind = "patch"
        \/ c.kind = "rpc" /\ c.st = "ok"
        \/ c.kind = "deploy" /\ c.st \in {"ok", "error"}

(* What the effects still listen to is about what is selected. *)
CurrentIsSelected ==
    \A c \in calls : c.current =>
        /\ c.kind = "device" => c.dev = selected
        /\ c.kind = "points" => c.dev = selected /\ c.range = range

(* The panels on show were mounted for the device selected, and so were the  *)
(* requests of that mount; those of earlier mounts have an older number.     *)
MountIsSelected ==
    /\ deviceError => ~panels.on
    /\ ~panels.on => panels.dev = {}
    /\ \A c \in calls : c.mount <= mount
    /\ panels.on => /\ selected \in Devices
                    /\ \A c \in calls : c.mount = mount => c.dev = selected

(* The form is filled whenever the version changes, so a patch is sent with  *)
(* the version its form was filled from.                                     *)
FormIsVersion ==
    /\ panels.form = panels.version
    /\ \A c \in calls : c.kind = "patch" /\ c.st = "asked" => c.form = c.version

DeviceInv ==
    /\ DeviceTypes /\ Answers /\ CurrentIsSelected /\ MountIsSelected /\ FormIsVersion
    /\ ShownIsSelected /\ PanelsBelong /\ NothingPutBack

LEMMA FreshPanels ==
    /\ NewPanels \in PanelStates /\ NewPanels.on /\ NewPanels.dev = {}
    /\ NewPanels.form = NoVersion /\ NewPanels.version = NoVersion
    /\ NoPanels \in PanelStates /\ ~NoPanels.on /\ NoPanels.dev = {}
    /\ NoPanels.form = NoVersion /\ NoPanels.version = NoVersion
<1>1. /\ NewPanels \in PanelStates /\ NewPanels.on /\ NewPanels.dev = {}
      /\ NewPanels.form = NoVersion /\ NewPanels.version = NoVersion
  BY DEF NewPanels, PanelStates, NoVersion
<1> QED BY <1>1 DEF NoPanels, PanelStates

LEMMA InitDevice == DeviceInit => DeviceInv
<1> SUFFICES ASSUME DeviceInit PROVE DeviceInv
  OBVIOUS
<1>1. /\ panels \in PanelStates /\ panels.dev = {} /\ ~panels.on
      /\ panels.form = NoVersion /\ panels.version = NoVersion
  BY FreshPanels DEF DeviceInit
<1>2. /\ device \in [id : Shown, of : Shown] /\ selected \in Shown /\ range \in Ranges
      /\ twin \in [Devices -> Int] /\ calls = {} /\ news = {} /\ mount = 0 /\ made = 0
      /\ clobbered = FALSE /\ deviceError = FALSE /\ loaded = {}
  BY DEF DeviceInit, NoSummary, Shown, Ranges
<1> QED BY <1>1, <1>2 DEF DeviceInv, DeviceTypes, Answers, CurrentIsSelected, MountIsSelected,
           FormIsVersion, ShownIsSelected, PanelsBelong, NothingPutBack

(* Requests as they are made, and cancelled. *)
LEMMA Requested ==
    ASSUME DeviceTypes, NEW kind \in Kinds, NEW d \in Devices
    PROVE  LET q == Request(kind, d)
           IN  /\ q \in CallRecords /\ q.kind = kind /\ q.dev = d /\ q.range = range
               /\ q.mount = mount /\ q.st = "asked"
               /\ kind = "patch" => q.version = panels.version /\ q.form = panels.form
  BY DEF DeviceTypes, CallRecords, PanelStates, Request, NoVersion, Kinds

LEMMA CancelledCalls ==
    ASSUME DeviceTypes, NEW kinds, NEW c \in Cancelled(kinds)
    PROVE  /\ c \in CallRecords
           /\ \E b \in calls : /\ c.kind = b.kind /\ c.dev = b.dev /\ c.range = b.range
                               /\ c.mount = b.mount /\ c.st = b.st
                               /\ c.version = b.version /\ c.form = b.form
                               /\ c.kind \in kinds => ~c.current
                               /\ c.kind \notin kinds => c = b
<1>1. PICK b \in calls : c = IF b.kind \in kinds THEN [b EXCEPT !.current = FALSE] ELSE b
  BY DEF Cancelled
<1>2. b \in CallRecords
  BY DEF DeviceTypes
<1> QED BY <1>1, <1>2 DEF CallRecords

(* What each step has to show of the requests: every one is an old one, with *)
(* its listener or without, or one just made.                                *)
KeepsCall(c, b) ==
    /\ c.kind = b.kind /\ c.dev = b.dev /\ c.range = b.range /\ c.mount = b.mount
    /\ c.st = b.st /\ c.version = b.version /\ c.form = b.form
    /\ c.current => b.current

(* Select: both effects run again. *)
LEMMA SelectInv == ASSUME DeviceInv, NEW d \in Devices, Select(d) PROVE DeviceInv'
<1>1. DeviceTypes /\ d \in Shown /\ selected' = d /\ range' = range /\ range \in Ranges
  BY DEF DeviceInv, DeviceTypes, Select, Shown
<1> DEFINE old == Cancelled({"device", "points"})
           dq == Request("device", d)
           pq == Request("points", d)
           sq == FirstRefresh(d)
<1>2. /\ dq \in CallRecords /\ dq.kind = "device" /\ dq.dev = d /\ dq.range = range
      /\ dq.mount = mount /\ dq.st = "asked"
      /\ pq \in CallRecords /\ pq.kind = "points" /\ pq.dev = d /\ pq.range = range
      /\ pq.mount = mount /\ pq.st = "asked"
  BY <1>1, Requested DEF Kinds
<1>3. mount' \in Nat => /\ sq \in CallRecords /\ sq.kind = "shadow" /\ sq.dev = d
                        /\ sq.mount = mount' /\ sq.st = "asked"
  <2>1. LET q == Request("shadow", d) IN q \in CallRecords /\ q.kind = "shadow" /\ q.dev = d /\ q.st = "asked"
    BY <1>1, Requested DEF Kinds
  <2> QED BY <2>1 DEF FirstRefresh, CallRecords
<1>4. \A c \in old : c \in CallRecords /\ \E b \in calls : KeepsCall(c, b) /\ (c.current => c.kind \notin {"device", "points"})
  BY <1>1, CancelledCalls DEF KeepsCall
<1>5. calls' = old \cup {dq, pq} \cup (IF deviceError THEN {} ELSE {sq})
  BY DEF Select
<1> HIDE DEF old, dq, pq, sq
<1>6. \/ deviceError /\ UNCHANGED <<panels, mount>>
      \/ ~deviceError /\ mount' = mount + 1 /\ panels' = NewPanels
  BY DEF Select, Remounted
<1>7. /\ mount' \in Nat /\ mount <= mount'
      /\ NewPanels \in PanelStates /\ NewPanels.dev = {} /\ NewPanels.form = NewPanels.version
  BY <1>1, <1>6, FreshPanels DEF DeviceTypes
<1>8. /\ calls' \subseteq CallRecords
      /\ \A c \in calls' : \/ (\E b \in calls : KeepsCall(c, b)) /\ (c.current => c.kind \notin {"device", "points"})
                           \/ c = dq \/ c = pq \/ (~deviceError /\ c = sq)
  BY <1>2, <1>3, <1>4, <1>5, <1>7
<1>9. DeviceTypes'
  BY <1>1, <1>6, <1>7, <1>8 DEF DeviceTypes, Select, shadowVars
<1>10. CurrentIsSelected' /\ Answers'
  BY <1>1, <1>2, <1>3, <1>7, <1>8 DEF DeviceInv, CurrentIsSelected, Answers, KeepsCall
<1>11. MountIsSelected' /\ PanelsBelong'
  <2>1. \A c \in calls' : c.mount <= mount'
    <3>1. \A b \in calls : b.mount \in Nat /\ b.mount <= mount
      BY <1>1 DEF DeviceInv, DeviceTypes, MountIsSelected, CallRecords
    <3>2. mount \in Nat
      BY <1>1 DEF DeviceTypes
    <3> QED BY <1>2, <1>3, <1>7, <1>8, <3>1, <3>2 DEF KeepsCall
  <2>2. CASE deviceError
    BY <1>6, <2>1, <2>2 DEF DeviceInv, MountIsSelected, PanelsBelong, Select
  <2>3. CASE ~deviceError
    <3>1. \A c \in calls' : c.mount = mount' => c.dev = d
      <4>1. \A b \in calls : b.mount \in Nat /\ b.mount <= mount
        BY <1>1 DEF DeviceInv, DeviceTypes, MountIsSelected, CallRecords
      <4>2. mount \in Nat
        BY <1>1 DEF DeviceTypes
      <4> QED BY <1>2, <1>3, <1>6, <1>7, <1>8, <2>3, <4>1, <4>2 DEF KeepsCall
    <3> QED BY <1>1, <1>6, <1>7, <2>1, <2>3, <3>1 DEF MountIsSelected, PanelsBelong, Select
  <2> QED BY <2>2, <2>3
<1>12. FormIsVersion'
  BY <1>2, <1>3, <1>6, <1>7, <1>8 DEF DeviceInv, FormIsVersion, KeepsCall
<1>13. ShownIsSelected' /\ NothingPutBack'
  BY DEF DeviceInv, Select, ShownIsSelected, NothingPutBack, shadowVars
<1> QED BY <1>9, <1>10, <1>11, <1>12, <1>13 DEF DeviceInv

(* SetRange: the effect of the points runs again. *)
LEMMA SetRangeInv == ASSUME DeviceInv, NEW k \in Ranges, SetRange(k) PROVE DeviceInv'
<1>1. DeviceTypes /\ selected \in Devices /\ mount \in Nat /\ range' = k
      /\ loaded' = loaded \ {"points"}
      /\ UNCHANGED <<selected, device, deviceError, points, panels, mount, made,
                     twin, news, clobbered>>
  BY DEF DeviceInv, DeviceTypes, Shown, SetRange, shadowVars
<1> DEFINE old == Cancelled({"points"})
           pq == [Request("points", selected) EXCEPT !.range = k]
<1>2. /\ pq \in CallRecords /\ pq.kind = "points" /\ pq.dev = selected /\ pq.range = k
      /\ pq.mount = mount /\ pq.st = "asked"
  <2>1. LET q == Request("points", selected)
        IN  q \in CallRecords /\ q.kind = "points" /\ q.dev = selected /\ q.mount = mount /\ q.st = "asked"
    BY <1>1, Requested DEF Kinds
  <2> QED BY <2>1 DEF CallRecords
<1>3. \A c \in old : /\ c \in CallRecords
                     /\ \E b \in calls : KeepsCall(c, b) /\ (c.current => c.kind # "points")
  BY <1>1, CancelledCalls DEF KeepsCall
<1>4. calls' = old \cup {pq}
  BY DEF SetRange
<1> HIDE DEF old, pq
<1>5. /\ calls' \subseteq CallRecords
      /\ \A c \in calls' : \/ (\E b \in calls : KeepsCall(c, b)) /\ (c.current => c.kind # "points")
                           \/ c = pq
  BY <1>2, <1>3, <1>4
<1>6. DeviceTypes'
  BY <1>1, <1>5 DEF DeviceTypes
<1>7. CurrentIsSelected' /\ Answers'
  BY <1>1, <1>2, <1>5 DEF DeviceInv, CurrentIsSelected, Answers, KeepsCall
<1>8. MountIsSelected' /\ PanelsBelong'
  BY <1>1, <1>2, <1>5 DEF DeviceInv, MountIsSelected, PanelsBelong, KeepsCall
<1>9. FormIsVersion'
  BY <1>1, <1>2, <1>5 DEF DeviceInv, FormIsVersion, KeepsCall
<1>10. ShownIsSelected' /\ NothingPutBack'
  BY <1>1 DEF DeviceInv, ShownIsSelected, NothingPutBack
<1> QED BY <1>6, <1>7, <1>8, <1>9, <1>10 DEF DeviceInv

(* getDevice is answered: to an effect that is still there, or not. *)
LEMMA DeviceAnsweredInv ==
    ASSUME DeviceInv, NEW c \in calls, DeviceAnswered(c) PROVE DeviceInv'
<1>1. /\ DeviceTypes /\ c \in CallRecords /\ selected \in Shown /\ mount \in Nat
      /\ UNCHANGED <<selected, range, points, made, twin, news, clobbered>>
  BY DEF DeviceInv, DeviceTypes, DeviceAnswered, shadowVars, counters
<1>2. CASE ~c.current /\ calls' = calls \ {c} /\ UNCHANGED <<device, deviceError, loaded, panels, mount>>
  BY <1>1, <1>2 DEF DeviceInv, DeviceTypes, Answers, CurrentIsSelected, MountIsSelected,
     FormIsVersion, ShownIsSelected, PanelsBelong, NothingPutBack
<1>3. CASE /\ deviceError' = TRUE /\ panels' = NoPanels /\ calls' = calls \ {c}
           /\ UNCHANGED <<device, loaded, mount>>
  BY <1>1, <1>3, FreshPanels DEF DeviceInv, DeviceTypes, Answers, CurrentIsSelected,
     MountIsSelected, FormIsVersion, ShownIsSelected, PanelsBelong, NothingPutBack
<1>4. CASE /\ c.current /\ device' = [id |-> c.dev, of |-> c.dev]
           /\ deviceError' = FALSE /\ loaded' = loaded \cup {"device"}
           /\ IF deviceError
              THEN Remounted(selected) /\ calls' = (calls \ {c}) \cup {FirstRefresh(selected)}
              ELSE UNCHANGED <<panels, mount>> /\ calls' = calls \ {c}
  <2>1. c.dev = selected /\ selected \in Devices /\ selected \in Shown
    BY <1>1, <1>4 DEF DeviceInv, CurrentIsSelected, DeviceAnswered, CallRecords
  <2>2. device' \in [id : Shown, of : Shown] /\ ShownIsSelected'
    BY <1>1, <1>4, <2>1 DEF DeviceInv, ShownIsSelected
  <2>3. CASE ~deviceError
    BY <1>1, <1>4, <2>2, <2>3 DEF DeviceInv, DeviceTypes, Answers, CurrentIsSelected,
       MountIsSelected, FormIsVersion, PanelsBelong, NothingPutBack
  <2>4. CASE deviceError
    <3> DEFINE sq == FirstRefresh(selected)
    <3>1. mount' = mount + 1 /\ panels' = NewPanels /\ calls' = (calls \ {c}) \cup {sq}
      BY <1>4, <2>4 DEF Remounted
    <3>2. /\ sq \in CallRecords /\ sq.kind = "shadow" /\ sq.dev = selected
          /\ sq.mount = mount' /\ sq.st = "asked"
      <4>1. LET q == Request("shadow", selected)
            IN  q \in CallRecords /\ q.kind = "shadow" /\ q.dev = selected /\ q.st = "asked"
        BY <1>1, <2>1, Requested DEF Kinds
      <4> QED BY <1>1, <3>1, <4>1 DEF FirstRefresh, CallRecords
    <3> HIDE DEF sq
    <3>3. \A b \in calls : b.mount \in Nat /\ b.mount <= mount
      BY <1>1 DEF DeviceInv, DeviceTypes, MountIsSelected, CallRecords
    <3>4. DeviceTypes'
      <4>1. mount' \in Nat /\ calls' \subseteq CallRecords /\ panels' \in PanelStates
        BY <1>1, <3>1, <3>2, FreshPanels DEF DeviceTypes
      <4>2. deviceError' \in BOOLEAN
        BY <1>4
      <4> QED BY <1>1, <2>2, <4>1, <4>2 DEF DeviceTypes
    <3>5. Answers' /\ CurrentIsSelected'
      BY <1>1, <3>1, <3>2 DEF DeviceInv, Answers, CurrentIsSelected
    <3>6. MountIsSelected'
      BY <1>1, <1>4, <2>1, <3>1, <3>2, <3>3, FreshPanels DEF MountIsSelected
    <3>7. FormIsVersion' /\ PanelsBelong' /\ NothingPutBack'
      BY <1>1, <3>1, <3>2, FreshPanels DEF DeviceInv, FormIsVersion, PanelsBelong, NothingPutBack
    <3> QED BY <2>2, <3>4, <3>5, <3>6, <3>7 DEF DeviceInv
  <2> QED BY <2>3, <2>4
<1> QED BY <1>2, <1>3, <1>4 DEF DeviceAnswered

(* getTelemetry is answered. *)
LEMMA PointsAnsweredInv ==
    ASSUME DeviceInv, NEW c \in calls, PointsAnswered(c) PROVE DeviceInv'
<1>1. /\ calls' = calls \ {c} /\ c.kind = "points"
      /\ UNCHANGED <<selected, range, device, deviceError, panels, mount, made, twin, news, clobbered>>
  BY DEF PointsAnswered, shadowVars, counters
<1>2. ShownIsSelected'
  <2>1. CASE c.current /\ points' \in {{}, {<<c.dev, c.range>>}} /\ loaded' = loaded \cup {"points"}
    BY <1>1, <2>1 DEF DeviceInv, ShownIsSelected, CurrentIsSelected
  <2>2. CASE UNCHANGED <<points, loaded>>
    BY <1>1, <2>2 DEF DeviceInv, ShownIsSelected
  <2> QED BY <2>1, <2>2 DEF PointsAnswered
<1> QED BY <1>1, <1>2 DEF DeviceInv, DeviceTypes, Answers, CurrentIsSelected, MountIsSelected,
           FormIsVersion, PanelsBelong, NothingPutBack

(* A button of the panels: the request is of this mount. *)
LEMMA ClickInv ==
    ASSUME DeviceInv, NEW kind \in {"patch", "rpc", "deploy"}, Click(kind),
           panels' \in PanelStates, panels'.on, panels'.dev = panels.dev,
           panels'.version = panels.version, panels'.form = panels.form
    PROVE  DeviceInv'
<1>1. /\ DeviceTypes /\ selected \in Devices /\ mount \in Nat /\ made \in Nat /\ panels.on
      /\ made' = made + 1
      /\ UNCHANGED <<selected, range, device, deviceError, points, loaded, mount, twin, news, clobbered>>
  BY DEF DeviceInv, DeviceTypes, MountIsSelected, Click, viewVars, shadowVars
<1> DEFINE q == Request(kind, selected)
<1>2. /\ q \in CallRecords /\ q.kind = kind /\ q.dev = selected /\ q.mount = mount /\ q.st = "asked"
      /\ kind = "patch" => q.version = panels.version /\ q.form = panels.form
  BY <1>1, Requested DEF Kinds
<1>3. calls' = calls \cup {q}
  BY DEF Click
<1> HIDE DEF q
<1>4. DeviceTypes'
  BY <1>1, <1>2, <1>3 DEF DeviceTypes
<1>5. Answers' /\ CurrentIsSelected'
  BY <1>1, <1>2, <1>3 DEF DeviceInv, Answers, CurrentIsSelected
<1>6. MountIsSelected' /\ PanelsBelong'
  BY <1>1, <1>2, <1>3 DEF DeviceInv, MountIsSelected, PanelsBelong
<1>7. FormIsVersion' /\ ShownIsSelected' /\ NothingPutBack'
  BY <1>1, <1>2, <1>3 DEF DeviceInv, FormIsVersion, ShownIsSelected, NothingPutBack
<1> QED BY <1>4, <1>5, <1>6, <1>7 DEF DeviceInv

LEMMA ButtonsInv ==
    ASSUME DeviceInv, ApplyShadowForm \/ InvokeRpc \/ DeployFirmware PROVE DeviceInv'
<1>1. panels \in PanelStates
  BY DEF DeviceInv, DeviceTypes
<1>2. CASE ApplyShadowForm
  BY <1>1, <1>2, ClickInv DEF ApplyShadowForm, PanelStates, Click
<1>3. CASE InvokeRpc
  BY <1>1, <1>3, ClickInv DEF InvokeRpc, PanelStates, Click
<1>4. CASE DeployFirmware
  BY <1>1, <1>4, ClickInv DEF DeployFirmware, PanelStates, Click
<1> QED BY <1>2, <1>3, <1>4

(* The server serves a request; an edit makes one version of the shadow. *)
LEMMA Edited ==
    ASSUME DeviceTypes, NEW d \in Devices, Edit(d)
    PROVE  twin' \in [Devices -> Int] /\ news' \subseteq [dev : Devices, version : Int]
<1>1. twin[d] + 1 \in Int
  BY DEF DeviceTypes
<1> QED BY <1>1 DEF DeviceTypes, Edit

(* What an answer leaves of a request. *)
LEMMA Answered ==
    ASSUME DeviceTypes, NEW c \in calls, NEW st \in {"ok", "error", "conflict"}, NEW v \in Int,
           Answer(c, st, v)
    PROVE  \E b \in CallRecords :
              /\ calls' = (calls \ {c}) \cup {b}
              /\ b.kind = c.kind /\ b.dev = c.dev /\ b.range = c.range /\ b.mount = c.mount
              /\ b.current = c.current /\ b.st = st
<1> DEFINE b == [c EXCEPT !.st = st, !.version = v]
<1>1. c \in CallRecords
  BY DEF DeviceTypes
<1>2. /\ b \in CallRecords
      /\ b.kind = c.kind /\ b.dev = c.dev /\ b.range = c.range /\ b.mount = c.mount
      /\ b.current = c.current /\ b.st = st
  BY <1>1 DEF CallRecords
<1> QED BY <1>2 DEF Answer

LEMMA CallServedInv ==
    ASSUME DeviceInv, NEW c \in calls, CallServed(c) PROVE DeviceInv'
<1>1. /\ DeviceTypes /\ c \in CallRecords /\ c.dev \in Devices
      /\ c.st = "asked" /\ c.kind \notin {"device", "points"}
      /\ UNCHANGED <<selected, range, device, deviceError, points, loaded, panels, mount, made>>
  BY DEF DeviceInv, DeviceTypes, CallRecords, CallServed, viewVars, counters
<1>2. /\ NoVersion \in Int
      /\ twin[c.dev] \in Int /\ twin[c.dev] + 1 \in Int
  BY <1>1 DEF DeviceTypes, NoVersion
<1>3. ASSUME NEW st \in {"ok", "error", "conflict"}, NEW v \in Int, Answer(c, st, v),
             \/ c.kind = "shadow" /\ st \in {"ok", "error"}
             \/ c.kind = "patch"
             \/ c.kind = "rpc" /\ st = "ok"
             \/ c.kind = "deploy" /\ st \in {"ok", "error"},
             twin' \in [Devices -> Int], news' \subseteq [dev : Devices, version : Int],
             clobbered' = FALSE
      PROVE  DeviceInv'
  <2>1. PICK b \in CallRecords :
              /\ calls' = (calls \ {c}) \cup {b}
              /\ b.kind = c.kind /\ b.dev = c.dev /\ b.range = c.range /\ b.mount = c.mount
              /\ b.current = c.current /\ b.st = st
    BY <1>1, <1>3, Answered
  <2>2. DeviceTypes'
    BY <1>1, <1>3, <2>1 DEF DeviceTypes
  <2>3. Answers' /\ CurrentIsSelected' /\ FormIsVersion'
    BY <1>1, <1>3, <2>1 DEF DeviceInv, Answers, CurrentIsSelected, FormIsVersion
  <2>4. MountIsSelected' /\ PanelsBelong' /\ ShownIsSelected' /\ NothingPutBack'
    BY <1>1, <1>3, <2>1 DEF DeviceInv, MountIsSelected, PanelsBelong, ShownIsSelected, NothingPutBack
  <2> QED BY <2>2, <2>3, <2>4 DEF DeviceInv
<1>4. clobbered = FALSE /\ twin \in [Devices -> Int] /\ news \subseteq [dev : Devices, version : Int]
  BY DEF DeviceInv, DeviceTypes, NothingPutBack
<1>5. CASE c.kind = "shadow" /\ Answer(c, "ok", twin[c.dev]) /\ UNCHANGED shadowVars
  BY <1>2, <1>3, <1>4, <1>5 DEF shadowVars
<1>6. CASE /\ c.kind = "patch" /\ c.version = twin[c.dev]
           /\ Edit(c.dev) /\ Answer(c, "ok", twin[c.dev] + 1)
           /\ clobbered' = (clobbered \/ c.form # twin[c.dev])
  <2>1. c.form = c.version
    BY <1>1, <1>6 DEF DeviceInv, FormIsVersion
  <2>2. clobbered' = FALSE
    BY <1>4, <1>6, <2>1
  <2>3. twin' \in [Devices -> Int] /\ news' \subseteq [dev : Devices, version : Int]
    BY <1>1, <1>6, Edited
  <2> QED BY <1>2, <1>3, <1>6, <2>2, <2>3
<1>7. CASE c.kind = "patch" /\ Answer(c, "conflict", NoVersion) /\ UNCHANGED shadowVars
  BY <1>2, <1>3, <1>4, <1>7 DEF shadowVars
<1>8. CASE c.kind = "deploy" /\ Edit(c.dev) /\ Answer(c, "ok", NoVersion) /\ UNCHANGED clobbered
  <2>1. twin' \in [Devices -> Int] /\ news' \subseteq [dev : Devices, version : Int]
    BY <1>1, <1>8, Edited
  <2> QED BY <1>2, <1>3, <1>4, <1>8, <2>1
<1>9. CASE c.kind = "rpc" /\ Answer(c, "ok", NoVersion) /\ UNCHANGED shadowVars
  BY <1>2, <1>3, <1>4, <1>9 DEF shadowVars
<1>10. CASE /\ c.kind \in {"shadow", "patch", "deploy"}
            /\ Answer(c, "error", NoVersion) /\ UNCHANGED shadowVars
  BY <1>2, <1>3, <1>4, <1>10 DEF shadowVars
<1> QED BY <1>5, <1>6, <1>7, <1>8, <1>9, <1>10 DEF CallServed

(* A panel that is still mounted goes on with an answer. *)
LEMMA Continued ==
    ASSUME DeviceInv, NEW c \in calls, c.st # "asked", panels.on, c.mount = mount
    PROVE  LET p == Continue(c)
           IN  p \in PanelStates /\ p.on /\ p.dev \subseteq {selected} /\ p.form = p.version
<1>1. /\ c \in CallRecords /\ panels \in PanelStates /\ c.dev = selected /\ selected \in Shown
      /\ panels.dev \subseteq {selected} /\ panels.form = panels.version
  BY DEF DeviceInv, DeviceTypes, MountIsSelected, PanelsBelong, FormIsVersion
<1> DEFINE a == Applied(c.dev, c.version)
<1>2. /\ a \in PanelStates /\ a.on /\ a.dev \subseteq {selected} /\ a.form = a.version
  BY <1>1 DEF Applied, PanelStates, CallRecords
<1> HIDE DEF a
<1>3. \/ c.kind = "shadow" /\ c.st = "ok" /\ Continue(c) = [a EXCEPT !.hidden = FALSE, !.saving = FALSE]
      \/ c.kind = "shadow" /\ c.st = "error" /\ Continue(c) = [panels EXCEPT !.hidden = TRUE, !.saving = FALSE]
      \/ c.kind = "patch" /\ c.st = "ok" /\ Continue(c) = [a EXCEPT !.saving = FALSE]
      \/ c.kind = "patch" /\ c.st = "error" /\ Continue(c) = [panels EXCEPT !.saving = FALSE]
      \/ c.kind = "patch" /\ c.st = "conflict" /\ Continue(c) = panels
      \/ c.kind = "rpc" /\ Continue(c) = [panels EXCEPT !.dev = panels.dev \cup {c.dev}, !.calling = FALSE]
      \/ c.kind = "deploy" /\ c.st = "ok" /\ Continue(c) = panels
      \/ c.kind = "deploy" /\ c.st = "error" /\ Continue(c) = [panels EXCEPT !.deploying = FALSE]
  <2>1. \/ c.kind = "shadow" /\ c.st \in {"ok", "error"}
        \/ c.kind = "patch" /\ c.st \in {"ok", "error", "conflict"}
        \/ c.kind = "rpc" /\ c.st = "ok"
        \/ c.kind = "deploy" /\ c.st \in {"ok", "error"}
    BY <1>1 DEF DeviceInv, Answers, CallRecords
  <2> QED BY <2>1 DEF Continue, a
<1>4. PICK p : p = Continue(c)
  OBVIOUS
<1>5. /\ p \in PanelStates /\ p.on /\ p.dev \subseteq {selected} /\ p.form = p.version
  <2>1. CASE c.kind = "shadow" \/ c.kind = "deploy"
    <3>1. CASE c.kind = "shadow" /\ c.st = "ok"
      BY <1>2, <1>3, <1>4, <3>1 DEF PanelStates
    <3>2. CASE c.kind = "shadow" /\ c.st = "error"
      BY <1>1, <1>3, <1>4, <3>2 DEF PanelStates
    <3>3. CASE c.kind = "deploy"
      BY <1>1, <1>3, <1>4, <3>3 DEF PanelStates
    <3> QED BY <1>3, <2>1, <3>1, <3>2, <3>3
  <2>2. CASE c.kind = "patch"
    BY <1>1, <1>2, <1>3, <1>4, <2>2 DEF PanelStates
  <2>3. CASE c.kind = "rpc"
    <3>1. p = [panels EXCEPT !.dev = panels.dev \cup {c.dev}, !.calling = FALSE]
      BY <1>3, <1>4, <2>3
    <3>2. panels.dev \cup {c.dev} \in SUBSET Shown
      BY <1>1 DEF PanelStates
    <3> QED BY <1>1, <3>1, <3>2 DEF PanelStates
  <2> QED BY <1>3, <2>1, <2>2, <2>3
<1> QED BY <1>4, <1>5

LEMMA CallAnsweredInv == ASSUME DeviceInv, NEW c \in calls, CallAnswered(c) PROVE DeviceInv'
<1>1. /\ DeviceTypes /\ c \in CallRecords /\ c.st # "asked" /\ mount \in Nat
      /\ UNCHANGED <<selected, range, device, deviceError, points, loaded, mount, made,
                     twin, news, clobbered>>
  BY DEF DeviceInv, DeviceTypes, CallAnswered, viewVars, counters, shadowVars
<1>2. /\ panels' \in PanelStates /\ panels'.on = panels.on
      /\ panels'.form = panels'.version
      /\ panels'.dev \subseteq {selected} /\ (~panels.on => panels'.dev = {})
  <2>1. CASE panels.on /\ c.mount = mount
    BY <1>1, <2>1, Continued DEF CallAnswered, PanelStates
  <2>2. CASE ~(panels.on /\ c.mount = mount)
    BY <2>2 DEF CallAnswered, DeviceInv, DeviceTypes, MountIsSelected, FormIsVersion, PanelsBelong
  <2> QED BY <2>1, <2>2
<1> DEFINE q == [Request("shadow", c.dev) EXCEPT !.mount = c.mount]
<1>3. /\ q \in CallRecords /\ q.kind = "shadow" /\ q.dev = c.dev /\ q.mount = c.mount /\ q.st = "asked"
  <2>1. c.dev \in Devices /\ c.mount \in Nat
    BY <1>1 DEF CallRecords
  <2>2. LET r == Request("shadow", c.dev)
        IN  r \in CallRecords /\ r.kind = "shadow" /\ r.dev = c.dev /\ r.st = "asked"
    BY <1>1, <2>1, Requested DEF Kinds
  <2> QED BY <2>1, <2>2 DEF CallRecords
<1>4. \A b \in calls' : b \in calls \/ b = q
  BY DEF CallAnswered
<1> HIDE DEF q
<1>5. DeviceTypes'
  BY <1>1, <1>2, <1>3, <1>4 DEF DeviceTypes
<1>6. Answers' /\ CurrentIsSelected' /\ FormIsVersion'
  BY <1>1, <1>2, <1>3, <1>4 DEF DeviceInv, Answers, CurrentIsSelected, FormIsVersion
<1>7. MountIsSelected' /\ PanelsBelong'
  BY <1>1, <1>2, <1>3, <1>4 DEF DeviceInv, MountIsSelected, PanelsBelong
<1>8. ShownIsSelected' /\ NothingPutBack'
  BY <1>1 DEF DeviceInv, ShownIsSelected, NothingPutBack
<1> QED BY <1>5, <1>6, <1>7, <1>8 DEF DeviceInv

(* Steps that leave the page alone. *)
LEMMA OutsideInv ==
    ASSUME DeviceInv, UNCHANGED viewVars, UNCHANGED <<panels, mount, calls, made, clobbered>>,
           twin' \in [Devices -> Int], news' \subseteq [dev : Devices, version : Int]
    PROVE  DeviceInv'
  BY DEF DeviceInv, DeviceTypes, Answers, CurrentIsSelected, MountIsSelected, FormIsVersion,
     ShownIsSelected, PanelsBelong, NothingPutBack, viewVars

LEMMA ElsewhereInv ==
    ASSUME DeviceInv,
           \/ \E d \in Devices : OtherEdit(d)
           \/ \E s \in news : PublishShadow(s)
           \/ \E type, d : Happens(type, d)
           \/ UNCHANGED deviceVars
    PROVE  DeviceInv'
<1>1. DeviceTypes /\ twin \in [Devices -> Int] /\ news \subseteq [dev : Devices, version : Int]
  BY DEF DeviceInv, DeviceTypes
<1>2. ASSUME NEW d \in Devices, OtherEdit(d) PROVE DeviceInv'
  BY <1>1, <1>2, Edited, OutsideInv DEF OtherEdit, counters
<1>3. ASSUME NEW s \in news, PublishShadow(s) PROVE DeviceInv'
  BY <1>1, <1>3, OutsideInv DEF PublishShadow, counters
<1>4. ASSUME NEW type, NEW d, Happens(type, d) PROVE DeviceInv'
  BY <1>1, <1>4, OutsideInv DEF Happens, shadowVars
<1>5. CASE UNCHANGED deviceVars
  BY <1>1, <1>5, OutsideInv DEF deviceVars, viewVars
<1> QED BY <1>2, <1>3, <1>4, <1>5

(* An event about the device selected. *)
LEMMA ListenInv ==
    ASSUME DeviceInv, NEW e \in DeviceEvents, e.dev = selected, Listen(e),
           UNCHANGED <<selected, range, deviceError, loaded, mount, calls, made,
                       twin, news, clobbered>>
    PROVE  DeviceInv'
<1>1. /\ DeviceTypes /\ panels \in PanelStates /\ selected \in Shown
      /\ device \in [id : Shown, of : Shown]
      /\ panels.dev \subseteq {selected} /\ panels.form = panels.version
      /\ ~panels.on => panels.dev = {}
  BY DEF DeviceInv, DeviceTypes, PanelsBelong, MountIsSelected, FormIsVersion
<1> DEFINE a == Applied(e.dev, e.version)
<1>2. /\ panels' \in PanelStates /\ panels'.on = panels.on
      /\ panels'.dev \subseteq {selected} /\ panels'.form = panels'.version
      /\ ~panels.on => panels'.dev = {}
  <2>1. CASE panels' = panels
    BY <1>1, <2>1
  <2>2. CASE e.type = "complete" /\ panels.on
             /\ panels' = [panels EXCEPT !.deploying = FALSE, !.dev = panels.dev \cup {e.dev}]
    <3>1. panels.dev \cup {e.dev} \in SUBSET Shown
      BY <1>1 DEF PanelStates
    <3> QED BY <1>1, <2>2, <3>1 DEF PanelStates
  <2>3. CASE e.type = "shadow" /\ panels.on /\ panels' = Applied(e.dev, e.version)
    <3>1. e.version \in Int
      BY <2>3 DEF DeviceEvents
    <3>2. panels.dev \cup {e.dev} \in SUBSET Shown
      BY <1>1 DEF PanelStates
    <3>3. panels' = [panels EXCEPT !.version = e.version, !.form = e.version, !.dev = panels.dev \cup {e.dev}]
      BY <2>3 DEF Applied
    <3>4. panels' \in PanelStates
      BY <1>1, <3>1, <3>2, <3>3 DEF PanelStates
    <3>5. /\ panels'.on = panels.on /\ panels'.dev = panels.dev \cup {e.dev}
          /\ panels'.form = panels'.version
      BY <1>1, <3>3 DEF PanelStates
    <3> QED BY <1>1, <2>3, <3>4, <3>5
  <2> QED BY <2>1, <2>2, <2>3 DEF Listen
<1>3. /\ device' \in [id : Shown, of : Shown]
      /\ device = [id |-> selected, of |-> selected] => device' = device
  <2>1. device' = device \/ (device.id # None /\ device' = [device EXCEPT !.of = e.dev])
    BY DEF Listen, WithStatus
  <2> QED BY <1>1, <2>1
<1>4. points' = points \/ (range = Live /\ points' \subseteq points \cup {<<selected, Live>>})
  BY DEF Listen
<1>5. ShownIsSelected'
  BY <1>3, <1>4 DEF DeviceInv, ShownIsSelected
<1>6. DeviceTypes'
  BY <1>1, <1>2, <1>3 DEF DeviceTypes
<1>7. MountIsSelected' /\ PanelsBelong' /\ FormIsVersion'
  BY <1>2 DEF DeviceInv, MountIsSelected, PanelsBelong, FormIsVersion
<1> QED BY <1>5, <1>6, <1>7 DEF DeviceInv, Answers, CurrentIsSelected, NothingPutBack

(* The wire holds what was published to it. *)
LEMMA WireTyped ==
    ASSUME NEW S, wire \in Seq(S)
    PROVE  /\ \A i \in 1 .. Len(wire) : wire[i] \in S
           /\ \A e \in S : Publish(e) => wire' \in Seq(S)
           /\ \A e \in {wire[i] : i \in 1 .. Len(wire)} : Handle(e) => e \in S /\ wire' \in Seq(S)
           /\ SocketStep => wire' \in Seq(S)
<1>1. \A i \in 1 .. Len(wire) : wire[i] \in S
  OBVIOUS
<1>2. ASSUME NEW e \in S, Publish(e) PROVE wire' \in Seq(S)
  BY <1>2 DEF Publish, Published
<1>3. ASSUME NEW e \in {wire[i] : i \in 1 .. Len(wire)}, Handle(e) PROVE e \in S /\ wire' \in Seq(S)
  BY <1>1, <1>3 DEF Handle
<1>4. ASSUME SocketStep PROVE wire' \in Seq(S)
  <2>1. wire' = wire \/ wire' = << >>
    BY <1>4 DEF SocketStep, SocketOpens, SocketCloses, ReconnectFires
  <2> QED BY <2>1, EmptySeq
<1> QED BY <1>1, <1>2, <1>3, <1>4, Zenon

LEMMA ViewEventInv ==
    ASSUME DeviceInv, wire \in Seq(DeviceEvents), ViewEvent PROVE DeviceInv'
<1>1. PICK e \in {wire[i] : i \in 1 .. Len(wire)} :
         /\ Handle(e)
         /\ IF e.dev = selected THEN Listen(e) ELSE UNCHANGED <<points, device, panels>>
         /\ UNCHANGED <<selected, range, deviceError, loaded, mount, calls>>
         /\ UNCHANGED counters /\ UNCHANGED shadowVars
  BY DEF ViewEvent
<1>2. e \in DeviceEvents
  BY <1>1, WireTyped
<1>3. CASE e.dev = selected
  BY <1>1, <1>2, <1>3, ListenInv DEF counters, shadowVars
<1>4. CASE e.dev # selected
  <2>1. /\ UNCHANGED viewVars /\ UNCHANGED <<panels, mount, calls, made, clobbered>>
        /\ UNCHANGED <<twin, news>>
    BY <1>1, <1>4 DEF viewVars, counters, shadowVars
  <2>2. twin' \in [Devices -> Int] /\ news' \subseteq [dev : Devices, version : Int]
    BY <2>1 DEF DeviceInv, DeviceTypes
  <2> QED BY <2>1, <2>2, OutsideInv
<1> QED BY <1>3, <1>4

(* Every step of the page keeps the invariant, and publishes events only. *)
LEMMA DeviceStep ==
    ASSUME DeviceInv, wire \in Seq(DeviceEvents), HeaderNext \/ PanelsNext
    PROVE  DeviceInv' /\ wire' \in Seq(DeviceEvents)
<1>1. ASSUME NEW d \in Devices, Select(d) PROVE DeviceInv' /\ wire' \in Seq(DeviceEvents)
  BY <1>1, SelectInv DEF Select, liveVars
<1>2. ASSUME NEW c \in calls,
             DeviceAnswered(c) \/ PointsAnswered(c) \/ CallServed(c) \/ CallAnswered(c)
      PROVE  DeviceInv' /\ wire' \in Seq(DeviceEvents)
  <2>1. DeviceInv'
    BY <1>2, DeviceAnsweredInv, PointsAnsweredInv, CallServedInv, CallAnsweredInv
  <2>2. wire' = wire
    BY <1>2 DEF DeviceAnswered, PointsAnswered, CallServed, CallAnswered, liveVars
  <2> QED BY <2>1, <2>2
<1>3. ASSUME NEW type \in {"telemetry", "presence", "complete"}, NEW d \in Devices, Happens(type, d)
      PROVE  DeviceInv' /\ wire' \in Seq(DeviceEvents)
  <2>1. [type |-> type, dev |-> d] \in DeviceEvents
    BY DEF DeviceEvents
  <2> QED BY <1>3, <2>1, WireTyped, ElsewhereInv DEF Happens
<1>4. CASE ViewEvent
  BY <1>4, ViewEventInv, WireTyped DEF ViewEvent
<1>5. CASE SocketStep /\ UNCHANGED deviceVars
  BY <1>5, ElsewhereInv, WireTyped
<1>6. ASSUME NEW k \in Ranges, SetRange(k) PROVE DeviceInv' /\ wire' \in Seq(DeviceEvents)
  BY <1>6, SetRangeInv DEF SetRange, liveVars
<1>7. CASE ApplyShadowForm \/ InvokeRpc \/ DeployFirmware
  BY <1>7, ButtonsInv DEF ApplyShadowForm, InvokeRpc, DeployFirmware, Click, liveVars
<1>8. ASSUME NEW d \in Devices, OtherEdit(d) PROVE DeviceInv' /\ wire' \in Seq(DeviceEvents)
  BY <1>8, ElsewhereInv DEF OtherEdit, liveVars
<1>9. ASSUME NEW s \in news, PublishShadow(s) PROVE DeviceInv' /\ wire' \in Seq(DeviceEvents)
  <2>1. [type |-> "shadow", dev |-> s.dev, version |-> s.version] \in DeviceEvents
    BY DEF DeviceInv, DeviceTypes, DeviceEvents
  <2> QED BY <1>9, <2>1, WireTyped, ElsewhereInv DEF PublishShadow
<1>10. CASE SelectStep
  BY <1>1, <1>2, <1>3, <1>4, <1>5, <1>10 DEF SelectStep
<1> QED BY <1>2, <1>3, <1>6, <1>7, <1>8, <1>9, <1>10 DEF HeaderNext, PanelsNext

-----------------------------------------------------------------------------
(* The list of alerts. *)

AlertEvents == [id : Alerts, status : {"open", "resolved"}]
AlertStages == {"none", "inserted", "raised", "updated", "resolved"}
LoadShape ==
    /\ load = [st |-> load.st, alerts |-> load.alerts, rules |-> load.rules]
    /\ load.alerts.got \in BOOLEAN /\ load.rules.got \in BOOLEAN
    /\ load.st # "asked" => ~load.alerts.got /\ ~load.rules.got

ListTypes ==
    /\ wire \in Seq(AlertEvents) /\ (socket # "open" => wire = << >>)
    /\ stage \in [Alerts -> AlertStages]
    /\ LoadShape

(* The last event on the wire about an alert tells what the engine published *)
(* last.                                                                     *)
LastIsNews ==
    \A i \in 1 .. Len(wire) :
        (/\ stage[wire[i].id] \in {"raised", "resolved"}
         /\ \A j \in 1 .. Len(wire) : i < j => wire[j].id # wire[i].id)
        => wire[i].status = Row(wire[i].id)

Shows(list, a) == a \in DOMAIN list /\ list[a] = Row(a)
Due(a) == a \notin missed /\ ~Pending(a) /\ Row(a) # "none"

(* While the page waits for the rest of its load, an alert that has nothing  *)
(* on its way is right in the answer, or an event has corrected the list:    *)
(* then the answer is older than the list, which the view does not see.      *)
ListShown ==
    /\ load.st = "done" => \A a \in Alerts : Due(a) => Shows(alerts, a)
    /\ load.st = "asked" /\ load.alerts.got =>
          \A a \in Alerts : Due(a) => Shows(load.alerts.rows, a) \/ Shows(alerts, a)
    /\ load.alerts.got => \A a \in DOMAIN load.alerts.rows :
          /\ load.alerts.rows[a] \in {"open", "resolved"}
          /\ load.alerts.rows[a] = "resolved" => a \in Alerts /\ Row(a) = "resolved"

ListInv == ListTypes /\ LastIsNews /\ ListShown

LEMMA Rows ==
    ASSUME stage \in [Alerts -> AlertStages], NEW a \in Alerts
    PROVE  /\ Row(a) \in {"none", "open", "resolved"}
           /\ Row(a) = "none" <=> stage[a] = "none"
           /\ Row(a) = "open" <=> stage[a] \in {"inserted", "raised"}
           /\ Row(a) = "resolved" <=> stage[a] \in {"updated", "resolved"}
  BY DEF Row, AlertStages

LEMMA AlertIds ==
    ASSUME wire \in Seq(AlertEvents)
    PROVE  \A i \in 1 .. Len(wire) : wire[i].id \in Alerts /\ wire[i].status \in {"open", "resolved"}
<1>1. \A i \in 1 .. Len(wire) : wire[i] \in AlertEvents
  OBVIOUS
<1> QED BY <1>1 DEF AlertEvents

LEMMA InitList == LiveInit /\ AlertsInit => ListInv
<1> SUFFICES ASSUME LiveInit, AlertsInit PROVE ListInv
  OBVIOUS
<1>1. wire = << >> /\ wire \in Seq(AlertEvents) /\ Len(wire) = 0
  BY EmptySeq DEF LiveInit
<1>2. load.st = "asked" /\ ~load.alerts.got
  BY DEF AlertsInit, NoAnswer
<1>3. stage \in [Alerts -> AlertStages] /\ LoadShape
  BY DEF AlertsInit, AlertStages, LoadShape, NoAnswer
<1> QED BY <1>1, <1>2, <1>3 DEF ListInv, ListTypes, LastIsNews, ListShown

(* A step of engine, wire or view that is right about what it touches. *)
LEMMA ListKept ==
    ASSUME ListInv, load' = load, ListTypes',
           \A a \in Alerts : Row(a) = "resolved" => Row(a)' = "resolved",
           \A a \in Alerts : Due(a)' =>
               \/ Shows(alerts, a)'
               \/ Due(a) /\ Row(a)' = Row(a) /\ (Shows(alerts, a) => Shows(alerts, a)')
    PROVE  ListShown'
<1>1. load.st' = load.st /\ load.alerts' = load.alerts
  OBVIOUS
<1>2. ASSUME load.st = "done", NEW a \in Alerts, Due(a)' PROVE Shows(alerts, a)'
  BY <1>2 DEF ListInv, ListShown
<1>3. ASSUME load.st = "asked", load.alerts.got, NEW a \in Alerts, Due(a)'
      PROVE  Shows(load.alerts.rows, a)' \/ Shows(alerts, a)'
  <2>1. Shows(load.alerts.rows, a) \/ Shows(alerts, a) \/ Shows(alerts, a)'
    BY <1>3 DEF ListInv, ListShown
  <2> QED BY <1>1, <1>3, <2>1 DEF Shows
<1>4. ASSUME load.alerts.got, NEW a \in DOMAIN load.alerts.rows
      PROVE  /\ load.alerts.rows[a] \in {"open", "resolved"}
             /\ load.alerts.rows[a] = "resolved" => a \in Alerts /\ Row(a)' = "resolved"
  BY <1>4 DEF ListInv, ListShown
<1> QED BY <1>1, <1>2, <1>3, <1>4 DEF ListShown

(* A statement of the engine: the alert's event is to come. *)
LEMMA EngineStoresList == ASSUME ListInv, NEW a \in Alerts, EngineStores(a) PROVE ListInv'
<1>1. /\ stage \in [Alerts -> AlertStages] /\ wire \in Seq(AlertEvents)
      /\ UNCHANGED <<alerts, missed, load, wire, socket>>
  BY DEF ListInv, ListTypes, EngineStores, liveVars
<1>2. /\ stage' \in [Alerts -> AlertStages] /\ stage'[a] \in {"inserted", "updated"}
      /\ stage'[a] = "inserted" => stage[a] = "none"
      /\ \A b \in Alerts : b # a => stage'[b] = stage[b]
  BY <1>1 DEF EngineStores, AlertStages
<1>3. ListTypes'
  BY <1>1, <1>2 DEF ListInv, ListTypes, LoadShape
<1>4. \A b \in Alerts : b # a => Row(b)' = Row(b)
  BY <1>2 DEF Row
<1>5. Row(a) = "resolved" => Row(a)' = "resolved"
  BY <1>1, <1>2, Rows DEF Row
<1>6. Pending(a)'
  BY <1>2 DEF Pending
<1>7. \A b \in Alerts : b # a => (Pending(b)' <=> Pending(b))
  BY <1>1, <1>2 DEF Pending
<1>8. LastIsNews'
  BY <1>1, <1>2, <1>4, AlertIds DEF ListInv, LastIsNews
<1>9. ListShown'
  BY <1>1, <1>3, <1>4, <1>5, <1>6, <1>7, ListKept DEF Due, Shows
<1> QED BY <1>3, <1>8, <1>9 DEF ListInv

(* The event of a statement: it is on the wire, or missed. *)
LEMMA EnginePublishesList == ASSUME ListInv, NEW a \in Alerts, EnginePublishes(a) PROVE ListInv'
<1>1. /\ stage \in [Alerts -> AlertStages] /\ wire \in Seq(AlertEvents)
      /\ socket # "open" => wire = << >>
      /\ UNCHANGED <<alerts, load, socket>>
      /\ missed' = IF socket = "open" THEN missed ELSE missed \cup {a}
  BY DEF ListInv, ListTypes, EnginePublishes, Publish
<1>2. /\ stage' \in [Alerts -> AlertStages] /\ stage'[a] \in {"raised", "resolved"}
      /\ stage[a] = IF stage'[a] = "raised" THEN "inserted" ELSE "updated"
      /\ \A b \in Alerts : b # a => stage'[b] = stage[b]
  BY <1>1 DEF EnginePublishes, AlertStages
<1>3. Row(a)' = Row(a) /\ Row(a) \in {"open", "resolved"}
  BY <1>2 DEF Row
<1>4. \A b \in Alerts : Row(b)' = Row(b)
  BY <1>2, <1>3 DEF Row
<1> DEFINE e == [id |-> a, status |-> Row(a)]
<1>5. e \in AlertEvents /\ e.id = a /\ e.status = Row(a)
  BY <1>3 DEF AlertEvents
<1>6. wire' = IF socket = "open" THEN Append(wire, e) ELSE wire
  BY DEF EnginePublishes, Publish, Published
<1> HIDE DEF e
<1>7. CASE socket = "open"
  <2>1. /\ wire' \in Seq(AlertEvents) /\ Len(wire') = Len(wire) + 1 /\ Len(wire) \in Nat
        /\ wire'[Len(wire) + 1] = e /\ \A i \in 1 .. Len(wire) : wire'[i] = wire[i]
    BY <1>1, <1>5, <1>6, <1>7
  <2>2. ListTypes'
    BY <1>1, <1>2, <1>7, <2>1 DEF ListInv, ListTypes, LoadShape
  <2>3. Pending(a)'
    BY <1>5, <2>1 DEF Pending
  <2>4. \A b \in Alerts : b # a /\ Pending(b) => Pending(b)'
    BY <1>2, <2>1 DEF Pending
  <2>5. \A b \in Alerts : Due(b)' => Due(b)
    BY <1>1, <1>4, <1>7, <2>3, <2>4 DEF Due
  <2>6. LastIsNews'
    <3> SUFFICES ASSUME NEW i \in 1 .. Len(wire'), NEW b, b = wire'[i].id,
                        stage'[b] \in {"raised", "resolved"},
                        \A j \in 1 .. Len(wire') : i < j => wire'[j].id # b
                 PROVE  wire'[i].status = Row(b)'
      BY DEF LastIsNews
    <3>1. CASE i = Len(wire) + 1
      BY <1>3, <1>5, <2>1, <3>1
    <3>2. CASE i # Len(wire) + 1
      <4>1. i \in 1 .. Len(wire) /\ i < Len(wire) + 1 /\ Len(wire) + 1 \in 1 .. Len(wire')
        BY <2>1, <3>2
      <4>2. wire[i].id \in Alerts /\ wire'[i] = wire[i] /\ wire[i].id # a
        BY <1>1, <1>5, <2>1, <4>1, AlertIds
      <4>3. \A j \in 1 .. Len(wire) : i < j => wire[j].id # wire[i].id
        BY <2>1, <4>1
      <4> QED BY <1>2, <1>4, <4>1, <4>2, <4>3 DEF ListInv, LastIsNews
    <3> QED BY <3>1, <3>2
  <2>7. ListShown'
    BY <1>1, <1>4, <2>2, <2>5, ListKept DEF Shows
  <2> QED BY <2>2, <2>6, <2>7 DEF ListInv
<1>8. CASE socket # "open"
  <2>1. wire' = << >> /\ Len(wire') = 0 /\ wire' = wire
    BY <1>1, <1>6, <1>8, EmptySeq
  <2>2. ListTypes' /\ LastIsNews'
    BY <1>1, <1>2, <2>1 DEF ListInv, ListTypes, LoadShape, LastIsNews
  <2>3. \A b \in Alerts : b # a => (Pending(b)' <=> Pending(b))
    BY <1>2, <2>1 DEF Pending
  <2>4. \A b \in Alerts : Due(b)' => Due(b)
    BY <1>1, <1>4, <1>8, <2>3 DEF Due
  <2>5. ListShown'
    BY <1>1, <1>4, <2>2, <2>4, ListKept DEF Shows
  <2> QED BY <2>2, <2>5 DEF ListInv
<1> QED BY <1>7, <1>8

(* The next event is put into the list, also of an alert the load left out. *)
LEMMA AlertEventList == ASSUME ListInv, AlertEvent PROVE ListInv'
<1>1. /\ stage \in [Alerts -> AlertStages] /\ wire \in Seq(AlertEvents)
      /\ UNCHANGED <<stage, load, socket>>
  BY DEF ListInv, ListTypes, AlertEvent, Handle
<1>2. PICK e : /\ wire # << >> /\ e = Head(wire) /\ wire' = Tail(wire)
               /\ alerts' = With(alerts, e.id, e.status) /\ missed' = missed \ {e.id}
  BY DEF AlertEvent, Handle
<1>3. /\ Len(wire) \in Nat /\ Len(wire) >= 1 /\ e = wire[1]
      /\ wire' \in Seq(AlertEvents) /\ Len(wire') = Len(wire) - 1
      /\ \A i \in 1 .. Len(wire') : wire'[i] = wire[i + 1] /\ i + 1 \in 1 .. Len(wire)
  BY <1>1, <1>2
<1>4. socket = "open" /\ ListTypes'
  BY <1>1, <1>2, <1>3 DEF ListInv, ListTypes, LoadShape
<1>5. \A a \in Alerts : Row(a)' = Row(a)
  BY <1>1 DEF Row
<1>6. LastIsNews'
  <2> SUFFICES ASSUME NEW i \in 1 .. Len(wire'), NEW b, b = wire'[i].id,
                      stage'[b] \in {"raised", "resolved"},
                      \A j \in 1 .. Len(wire') : i < j => wire'[j].id # b
               PROVE  wire'[i].status = Row(b)'
    BY DEF LastIsNews
  <2>1. i + 1 \in 1 .. Len(wire) /\ wire'[i] = wire[i + 1] /\ wire[i + 1].id \in Alerts
    BY <1>1, <1>3, AlertIds
  <2>2. ASSUME NEW j \in 1 .. Len(wire), i + 1 < j PROVE wire[j].id # wire[i + 1].id
    <3>1. j - 1 \in 1 .. Len(wire') /\ i < j - 1 /\ (j - 1) + 1 = j
      BY <1>3, <2>2
    <3> QED BY <1>3, <2>1, <3>1
  <2> QED BY <1>1, <1>5, <2>1, <2>2 DEF ListInv, LastIsNews
<1>7. ASSUME NEW a \in Alerts, Due(a)'
      PROVE  \/ Shows(alerts, a)'
             \/ Due(a) /\ (Shows(alerts, a) => Shows(alerts, a)')
  <2>1. /\ a \notin missed \/ e.id = a
        /\ Row(a) # "none" /\ stage[a] \notin {"inserted", "updated"}
        /\ \A i \in 1 .. Len(wire') : wire'[i].id # a
    BY <1>1, <1>2, <1>5, <1>7 DEF Due, Pending
  <2>2. \A i \in 1 .. Len(wire) : 1 < i => wire[i].id # a
    <3> SUFFICES ASSUME NEW i \in 1 .. Len(wire), 1 < i PROVE wire[i].id # a
      OBVIOUS
    <3>1. i - 1 \in 1 .. Len(wire') /\ (i - 1) + 1 = i
      BY <1>3
    <3> QED BY <1>3, <2>1, <3>1
  <2>3. CASE e.id = a
    <3>1. stage[a] \in {"raised", "resolved"}
      BY <1>1, <2>1, Rows DEF AlertStages
    <3>2. 1 \in 1 .. Len(wire) /\ wire[1].id = a
      BY <1>3, <2>3
    <3>3. wire[1].status = Row(wire[1].id)
      BY <2>2, <3>1, <3>2 DEF ListInv, LastIsNews
    <3>4. e.status = Row(a)
      BY <1>3, <3>2, <3>3
    <3> QED BY <1>2, <1>5, <2>3, <3>4 DEF Shows, With
  <2>4. CASE e.id # a
    <3>1. \A i \in 1 .. Len(wire) : wire[i].id # a
      BY <1>3, <2>2, <2>4
    <3>2. Due(a)
      BY <2>1, <2>4, <3>1 DEF Due, Pending
    <3> QED BY <1>2, <1>5, <2>4, <3>2 DEF Shows, With
  <2> QED BY <2>3, <2>4
<1>8. ListShown'
  BY <1>1, <1>4, <1>5, <1>7, ListKept
<1> QED BY <1>4, <1>6, <1>8 DEF ListInv

(* What is on the wire when the socket breaks is missed. *)
LEMMA SocketStepList == ASSUME ListInv, SocketStepOfAlerts PROVE ListInv'
<1>1. /\ UNCHANGED <<stage, alerts, load>> /\ wire \in Seq(AlertEvents)
      /\ stage \in [Alerts -> AlertStages] /\ LoadShape
      /\ missed' = IF wire' = wire THEN missed
                   ELSE missed \cup {wire[i].id : i \in 1 .. Len(wire)}
  BY DEF ListInv, ListTypes, SocketStepOfAlerts
<1>2. /\ wire' = wire \/ wire' = << >>
      /\ socket' # "open" => wire' = << >>
  BY DEF ListInv, ListTypes, SocketStepOfAlerts, SocketStep, SocketOpens, SocketCloses,
         ReconnectFires
<1>3. wire' \in Seq(AlertEvents) /\ (wire' # wire => Len(wire') = 0)
  BY <1>1, <1>2, EmptySeq
<1>4. ListTypes'
  BY <1>1, <1>2, <1>3 DEF ListTypes, LoadShape
<1>5. \A a \in Alerts : Row(a)' = Row(a)
  BY <1>1 DEF Row
<1>6. LastIsNews'
  <2>1. CASE wire' = wire
    BY <1>1, <1>5, <2>1, AlertIds DEF ListInv, LastIsNews, Row
  <2>2. CASE wire' # wire
    BY <1>3, <2>2 DEF LastIsNews
  <2> QED BY <2>1, <2>2
<1>7. ASSUME NEW a \in Alerts, Due(a)' PROVE Due(a)
  <2>1. CASE wire' = wire
    BY <1>1, <1>5, <1>7, <2>1 DEF Due, Pending
  <2>2. CASE wire' # wire
    BY <1>1, <1>5, <1>7, <2>2 DEF Due, Pending
  <2> QED BY <2>1, <2>2
<1>8. ListShown'
  BY <1>1, <1>4, <1>5, <1>7, ListKept DEF Shows
<1> QED BY <1>4, <1>6, <1>8 DEF ListInv

(* The load.  What is not among the newest rows is missed, and so is what an *)
(* answer that is older than the list takes back.                            *)
LEMMA LoadList == ASSUME ListInv, LoadStep PROVE ListInv'
<1>1. /\ UNCHANGED <<stage, wire, socket>> /\ wire \in Seq(AlertEvents)
      /\ socket # "open" => wire = << >>
      /\ stage \in [Alerts -> AlertStages] /\ LoadShape /\ load.st = "asked"
  BY DEF ListInv, ListTypes, LoadStep, LoadReadsAlerts, LoadReadsRules, LoadShows, LoadFails,
         listVars, liveVars
<1>2. \A a \in Alerts : Row(a)' = Row(a) /\ (Pending(a)' <=> Pending(a))
  BY <1>1 DEF Row, Pending
<1>3. LastIsNews'
  BY <1>1, <1>2, AlertIds DEF ListInv, LastIsNews
<1>4. LoadShape' => ListTypes'
  BY <1>1 DEF ListTypes
<1>5. CASE LoadReadsAlerts
  <2> DEFINE rows == [a \in Newest |-> Row(a)]
  <2>1. /\ load'.st = "asked" /\ load'.alerts = [got |-> TRUE, rows |-> rows]
        /\ load'.rules = load.rules /\ LoadShape'
        /\ missed' = InTable \ Newest
    BY <1>1, <1>5 DEF LoadReadsAlerts, LoadShape
  <2>2. load'.alerts.rows = rows
    BY <2>1
  <2>3. \A a \in DOMAIN rows : a \in Alerts /\ rows[a] = Row(a) /\ rows[a] \in {"open", "resolved"}
    BY <1>1, Rows DEF Newest, InTable
  <2>4. \A a \in Alerts : Row(a) # "none" /\ a \notin InTable \ Newest
                           => a \in DOMAIN rows /\ rows[a] = Row(a)
    BY DEF InTable
  <2> HIDE DEF rows
  <2>5. \A a \in Alerts : Due(a)' => Shows(load.alerts.rows, a)'
    BY <1>2, <2>1, <2>2, <2>4 DEF Due, Shows
  <2>6. ListShown'
    BY <1>2, <2>1, <2>2, <2>3, <2>5 DEF ListShown
  <2> QED BY <1>3, <1>4, <2>1, <2>6 DEF ListInv
<1>6. CASE LoadReadsRules
  <2>1. /\ load'.st = load.st /\ load'.alerts = load.alerts /\ LoadShape'
        /\ UNCHANGED <<alerts, missed>>
    BY <1>1, <1>6 DEF LoadReadsRules, LoadShape, listVars
  <2>2. ListShown'
    BY <1>1, <1>2, <2>1 DEF ListInv, ListShown, Due, Shows
  <2> QED BY <1>3, <1>4, <2>1, <2>2 DEF ListInv
<1>7. CASE LoadShows
  <2>1. /\ load'.st = "done" /\ ~load'.alerts.got /\ LoadShape'
        /\ alerts' = load.alerts.rows /\ load.alerts.got
        /\ missed' = missed \cup {a \in DOMAIN alerts : Older(a)}
    BY <1>7 DEF LoadShows, LoadShape, NoAnswer
  <2>2. ASSUME NEW a \in Alerts, Due(a)' PROVE Shows(alerts, a)'
    <3>1. Due(a) /\ ~(a \in DOMAIN alerts /\ Older(a))
      BY <1>2, <2>1, <2>2 DEF Due
    <3>2. Shows(load.alerts.rows, a) \/ Shows(alerts, a)
      BY <1>1, <2>1, <3>1 DEF ListInv, ListShown
    <3>3. Shows(load.alerts.rows, a)
      BY <1>1, <2>1, <3>1, <3>2, Rows DEF ListInv, ListShown, Shows, Older, Due
    <3> QED BY <1>2, <2>1, <3>3 DEF Shows
  <2>3. ListShown'
    BY <2>1, <2>2 DEF ListShown
  <2> QED BY <1>3, <1>4, <2>1, <2>3 DEF ListInv
<1>8. CASE LoadFails
  <2>1. load'.st = "failed" /\ ~load'.alerts.got /\ LoadShape'
    BY <1>8 DEF LoadFails, LoadShape, NoAnswer
  <2>2. ListShown'
    BY <2>1 DEF ListShown
  <2> QED BY <1>3, <1>4, <2>1, <2>2 DEF ListInv
<1> QED BY <1>5, <1>6, <1>7, <1>8 DEF LoadStep

LEMMA AlertsStep == ASSUME ListInv, AlertsNext PROVE ListInv'
  BY LoadList, EngineStoresList, EnginePublishesList, AlertEventList, SocketStepList
  DEF AlertsNext

-----------------------------------------------------------------------------
(* The rules and their drawer. *)

RuleLists == UNION {[S -> Bodies] : S \in SUBSET Rules}
RequestStates == {"sent", "ok", "failed", "done"}
Requests ==
    [op : {"toggle"}, rule : Rules, value : BOOLEAN, undo : BOOLEAN, st : RequestStates]
    \cup [op : {"delete"}, rule : Rules, undo : RuleLists, st : RequestStates]
    \cup [op : {"save"}, rule : Rules \cup {New}, value : Bodies, st : RequestStates]

RuleTypes ==
    /\ table \in RuleLists /\ rules \in RuleLists
    /\ drawer \in [open : BOOLEAN, initial : Rules \cup {New}, form : Bodies]
    /\ requests \in Seq(Requests) /\ tangled \in BOOLEAN
    /\ LoadShape
    /\ load.rules.got => load.rules.rows \in RuleLists
    /\ \A i \in 1 .. Len(requests) : requests[i].st = "ok" => requests[i].rule # New

(* Wherever a rule's text can come from, it is one that the rule may have; a *)
(* new rule's is a draft.                                                    *)
OwnText(list) == \A r \in DOMAIN list : list[r].text \in Texts(r)
Typed(r) == IF r = New THEN {Draft} ELSE Texts(r)

OwnRequest(q) ==
    /\ q.op = "delete" => OwnText(q.undo)
    /\ q.op = "save" => q.value.text \in Typed(q.rule)

TextsKept ==
    /\ OwnText(table) /\ OwnText(rules)
    /\ load.rules.got => OwnText(load.rules.rows)
    /\ drawer.form.text \in {""} \cup Typed(drawer.initial)
    /\ \A i \in 1 .. Len(requests) : OwnRequest(requests[i])

(* Table and list are the same of a rule; and what they are while a request  *)
(* about it is under way: the list shows a switch or a deletion at once, the *)
(* table a save before the list.                                             *)
Same(r) ==
    /\ r \in DOMAIN table <=> r \in DOMAIN rules
    /\ r \in DOMAIN table => table[r] = rules[r]

Agrees(q) ==
    /\ q.op = "toggle" /\ q.st # "ok" =>
          /\ q.rule \in DOMAIN table /\ q.rule \in DOMAIN rules
          /\ table[q.rule].text = rules[q.rule].text
          /\ table[q.rule].enabled = q.undo /\ rules[q.rule].enabled = q.value
    /\ q.op = "delete" /\ q.st # "ok" =>
          /\ q.rule \in DOMAIN table /\ q.rule \notin DOMAIN rules
          /\ q.rule \in DOMAIN q.undo /\ q.undo[q.rule] = table[q.rule]
    /\ q.op = "save" /\ q.st = "ok" => q.rule \in DOMAIN table /\ table[q.rule] = q.value
    /\ (q.op = "save") # (q.st = "ok") => Same(q.rule)

OneByOne == \A i, j \in UnderWay : i # j => requests[i].rule # requests[j].rule
Underways == \A i \in UnderWay : Agrees(requests[i])
Others == \A r \in Rules : (\A i \in UnderWay : requests[i].rule # r) => Same(r)

Agreement ==
    ~tangled =>
        /\ load.st = "asked" /\ load.rules.got => load.rules.rows = table
        /\ requests # << >> => load.st = "done"
        /\ load.st = "done" => OneByOne /\ Underways /\ Others

RulesInv == RuleTypes /\ TextsKept /\ Agreement

LEMMA ARuleList ==
    ASSUME NEW f
    PROVE  f \in RuleLists <=> /\ f = [r \in DOMAIN f |-> f[r]] /\ DOMAIN f \subseteq Rules
                              /\ \A r \in DOMAIN f : f[r] \in Bodies
<1>1. ASSUME f \in RuleLists
      PROVE  /\ f = [r \in DOMAIN f |-> f[r]] /\ DOMAIN f \subseteq Rules
             /\ \A r \in DOMAIN f : f[r] \in Bodies
  <2>1. PICK S \in SUBSET Rules : f \in [S -> Bodies]
    BY <1>1 DEF RuleLists
  <2> QED BY <2>1
<1>2. ASSUME f = [r \in DOMAIN f |-> f[r]], DOMAIN f \subseteq Rules,
             \A r \in DOMAIN f : f[r] \in Bodies
      PROVE  f \in RuleLists
  <2>1. f \in [DOMAIN f -> Bodies] /\ DOMAIN f \in SUBSET Rules
    BY <1>2
  <2> QED BY <2>1 DEF RuleLists
<1> QED BY <1>1, <1>2

LEMMA WithRule ==
    ASSUME NEW f \in RuleLists, NEW k \in Rules, NEW b \in Bodies, NEW g, g = With(f, k, b)
    PROVE  /\ g \in RuleLists /\ g[k] = b
           /\ \A r : r \in DOMAIN g <=> r \in DOMAIN f \/ r = k
           /\ \A r \in DOMAIN f : r # k => g[r] = f[r]
           /\ OwnText(f) /\ b.text \in Texts(k) => OwnText(g)
<1>1. /\ g = [r \in DOMAIN f \cup {k} |-> IF r = k THEN b ELSE f[r]]
      /\ DOMAIN f \subseteq Rules /\ \A r \in DOMAIN f : f[r] \in Bodies
  BY ARuleList DEF With
<1>2. /\ DOMAIN g = DOMAIN f \cup {k} /\ g = [r \in DOMAIN g |-> g[r]] /\ g[k] = b
      /\ \A r \in DOMAIN g : g[r] = IF r = k THEN b ELSE f[r]
  BY <1>1
<1>3. g \in RuleLists
  BY <1>1, <1>2, ARuleList
<1>4. OwnText(f) /\ b.text \in Texts(k) => OwnText(g)
  BY <1>2 DEF OwnText
<1> QED BY <1>2, <1>3, <1>4

LEMMA WithoutRule ==
    ASSUME NEW f \in RuleLists, NEW k, NEW g, g = Without(f, k)
    PROVE  /\ g \in RuleLists
           /\ \A r : r \in DOMAIN g <=> r \in DOMAIN f /\ r # k
           /\ \A r \in DOMAIN f : r # k => g[r] = f[r]
           /\ OwnText(f) => OwnText(g)
<1>1. /\ g = [r \in DOMAIN f \ {k} |-> f[r]]
      /\ DOMAIN f \subseteq Rules /\ \A r \in DOMAIN f : f[r] \in Bodies
  BY ARuleList DEF Without
<1>2. /\ DOMAIN g = DOMAIN f \ {k} /\ g = [r \in DOMAIN g |-> g[r]]
      /\ \A r \in DOMAIN g : g[r] = f[r]
  BY <1>1
<1>3. g \in RuleLists
  BY <1>1, <1>2, ARuleList
<1>4. OwnText(f) => OwnText(g)
  BY <1>2 DEF OwnText
<1> QED BY <1>2, <1>3, <1>4

LEMMA OneBody ==
    ASSUME NEW a \in Bodies, NEW b \in Bodies, a.text = b.text, a.enabled = b.enabled
    PROVE  a = b
<1>1. a = [text |-> a.text, enabled |-> a.enabled]
  BY DEF Bodies
<1>2. b = [text |-> b.text, enabled |-> b.enabled]
  BY DEF Bodies
<1> QED BY <1>1, <1>2

Switched(f, k, v) == [f EXCEPT ![k].enabled = v]

LEMMA SwitchedRule ==
    ASSUME NEW f \in RuleLists, NEW k \in DOMAIN f, NEW v \in BOOLEAN, NEW g,
           g = Switched(f, k, v)
    PROVE  /\ g \in RuleLists
           /\ \A r : r \in DOMAIN g <=> r \in DOMAIN f
           /\ g[k].text = f[k].text /\ g[k].enabled = v
           /\ \A r \in DOMAIN f : r # k => g[r] = f[r]
           /\ OwnText(f) => OwnText(g)
<1>1. /\ f = [r \in DOMAIN f |-> f[r]] /\ DOMAIN f \subseteq Rules
      /\ \A r \in DOMAIN f : f[r] \in Bodies
  BY ARuleList
<1> DEFINE b == [f[k] EXCEPT !.enabled = v]
<1>6. g = [f EXCEPT ![k] = b]
  BY DEF Switched
<1> HIDE DEF b
<1>7. /\ DOMAIN g = DOMAIN f /\ g = [r \in DOMAIN g |-> g[r]]
      /\ \A r \in DOMAIN f : r # k => g[r] = f[r]
      /\ g[k] = b
  BY <1>1, <1>6
<1>2. /\ DOMAIN g = DOMAIN f /\ g = [r \in DOMAIN g |-> g[r]]
      /\ \A r \in DOMAIN f : r # k => g[r] = f[r]
      /\ g[k] = [f[k] EXCEPT !.enabled = v]
  BY <1>7 DEF b
<1>3. g[k] = [text |-> f[k].text, enabled |-> v] /\ g[k] \in Bodies
  BY <1>1, <1>2 DEF Bodies
<1>4. g \in RuleLists
  <2>1. \A r \in DOMAIN g : g[r] \in Bodies
    BY <1>1, <1>2, <1>3
  <2> QED BY <1>1, <1>2, <2>1, ARuleList
<1>5. OwnText(f) => OwnText(g)
  BY <1>2, <1>3 DEF OwnText
<1> QED BY <1>2, <1>3, <1>4, <1>5

LEMMA InitRules == AlertsInit => RulesInv
<1> SUFFICES ASSUME AlertsInit PROVE RulesInv
  OBVIOUS
<1>1. Stored \subseteq Rules /\ New \notin Rules
  BY AlertsAssumption DEF New
<1>2. /\ table = [r \in DOMAIN table |-> table[r]] /\ DOMAIN table = Stored
      /\ \A r \in Stored : table[r] = [text |-> r, enabled |-> TRUE]
  BY DEF AlertsInit
<1>3. \A r \in DOMAIN table : r \in Rules /\ table[r].text = r /\ table[r] \in Bodies
  <2> SUFFICES ASSUME NEW r \in Stored
               PROVE  r \in Rules /\ table[r].text = r /\ table[r] \in Bodies
    BY <1>2
  <2>1. table[r] = [text |-> r, enabled |-> TRUE] /\ r \in Rules
    BY <1>1, <1>2
  <2>2. [text |-> r, enabled |-> TRUE] \in Bodies
    BY <2>1 DEF Bodies
  <2> QED BY <2>1, <2>2
<1>8. table \in RuleLists /\ OwnText(table)
  BY <1>1, <1>2, <1>3, ARuleList DEF OwnText, Texts
<1>4. /\ rules = [r \in DOMAIN rules |-> rules[r]] /\ DOMAIN rules = {}
  BY DEF AlertsInit
<1>5. rules \in RuleLists /\ OwnText(rules)
  BY <1>4, ARuleList DEF OwnText
<1>6. /\ load.st = "asked" /\ ~load.alerts.got /\ ~load.rules.got /\ LoadShape
      /\ requests = << >>
  BY DEF AlertsInit, NoAnswer, LoadShape
<1>12. requests \in Seq(Requests) /\ Len(requests) = 0 /\ tangled \in BOOLEAN
  BY EmptySeq DEF AlertsInit
<1>13. \A i \in 1 .. Len(requests) : FALSE
  BY <1>12
<1>7. drawer \in [open : BOOLEAN, initial : Rules \cup {New}, form : Bodies]
      /\ drawer.form.text = ""
  BY DEF AlertsInit, DefaultForm, Bodies
<1>9. RuleTypes
  BY <1>5, <1>6, <1>7, <1>8, <1>12, <1>13 DEF RuleTypes
<1>10. TextsKept
  BY <1>5, <1>6, <1>7, <1>8, <1>13 DEF TextsKept
<1>11. Agreement
  BY <1>6 DEF Agreement
<1> QED BY <1>9, <1>10, <1>11 DEF RulesInv

(* A step about one request, the i-th, and one rule leaves the agreement of  *)
(* all others alone.                                                         *)
Unmoved(s) ==
    /\ s \in DOMAIN table' <=> s \in DOMAIN table
    /\ s \in DOMAIN rules' <=> s \in DOMAIN rules
    /\ s \in DOMAIN table => table'[s] = table[s]
    /\ s \in DOMAIN rules => rules'[s] = rules[s]

LEMMA Locally ==
    ASSUME Agreement, ~tangled, load.st = "done", load'.st = "done",
           NEW i, NEW r, NEW q,
           \A j : j # i => /\ j \in UnderWay' <=> j \in UnderWay
                           /\ j \in UnderWay => requests'[j] = requests[j] /\ requests[j].rule # r,
           i \in UnderWay => requests[i].rule \in {r, New},
           i \in UnderWay' => requests'[i] = q /\ q.rule = r /\ Agrees(q)',
           i \notin UnderWay' /\ r \in Rules => Same(r)',
           \A s : s # r => Unmoved(s)
    PROVE  Agreement'
<1>1. New \notin Rules
  BY AlertsAssumption DEF New
<1>2. OneByOne /\ Underways /\ Others
  BY DEF Agreement
<1>3. OneByOne'
  <2> SUFFICES ASSUME NEW j \in UnderWay', NEW k \in UnderWay', j # k
               PROVE  requests'[j].rule # requests'[k].rule
    BY DEF OneByOne
  <2>1. CASE j = i
    BY <2>1
  <2>2. CASE k = i
    BY <2>2
  <2>3. CASE j # i /\ k # i
    BY <1>2, <2>3 DEF OneByOne
  <2> QED BY <2>1, <2>2, <2>3
<1>4. Underways'
  <2> SUFFICES ASSUME NEW j \in UnderWay', NEW p, p = requests'[j] PROVE Agrees(p)'
    BY Zenon DEF Underways, Agrees
  <2>1. CASE j = i
    BY <2>1
  <2>2. CASE j # i
    <3>1. p = requests[j] /\ j \in UnderWay /\ p.rule # r
      BY <2>2
    <3>2. Agrees(p)
      BY <1>2, <3>1 DEF Underways
    <3>3. Unmoved(p.rule)
      BY <3>1
    <3> QED BY <3>2, <3>3 DEF Agrees, Same, Unmoved
  <2> QED BY <2>1, <2>2
<1>5. Others'
  <2> SUFFICES ASSUME NEW s \in Rules, \A j \in UnderWay' : requests'[j].rule # s
               PROVE  Same(s)'
    BY DEF Others
  <2>1. CASE s = r
    BY <2>1
  <2>2. CASE s # r
    <3>1. \A j \in UnderWay : requests[j].rule # s
      BY <1>1, <2>2
    <3>2. Same(s) /\ Unmoved(s)
      BY <1>2, <2>2, <3>1 DEF Others
    <3> QED BY <3>2 DEF Same, Unmoved
  <2> QED BY <2>1, <2>2
<1> QED BY <1>3, <1>4, <1>5 DEF Agreement

LEMMA ARequest ==
    ASSUME NEW q \in Requests
    PROVE  /\ q.op \in {"toggle", "delete", "save"} /\ q.st \in RequestStates
           /\ q.rule \in Rules \cup {New} /\ (q.rule = New => q.op = "save")
           /\ q.op = "toggle" => q.value \in BOOLEAN /\ q.undo \in BOOLEAN
           /\ q.op = "delete" => q.undo \in RuleLists
           /\ q.op = "save" => q.value \in Bodies
  BY AlertsAssumption DEF Requests, New

Rewrite(q, st, r) == [q EXCEPT !.st = st, !.rule = r]

LEMMA Rewritten ==
    ASSUME NEW q \in Requests, NEW st \in RequestStates, NEW r,
           r \in Rules \/ r = q.rule, NEW p, p = Rewrite(q, st, r)
    PROVE  /\ p \in Requests /\ p.op = q.op /\ p.st = st /\ p.rule = r
           /\ q.op = "toggle" => p.value = q.value /\ p.undo = q.undo
           /\ q.op = "delete" => p.undo = q.undo
           /\ q.op = "save" => p.value = q.value
<1>1. CASE q \in [op : {"toggle"}, rule : Rules, value : BOOLEAN, undo : BOOLEAN, st : RequestStates]
  BY <1>1 DEF Requests, Rewrite
<1>2. CASE q \in [op : {"delete"}, rule : Rules, undo : RuleLists, st : RequestStates]
  BY <1>2 DEF Requests, Rewrite
<1>3. CASE q \in [op : {"save"}, rule : Rules \cup {New}, value : Bodies, st : RequestStates]
  BY <1>3 DEF Requests, Rewrite
<1> QED BY <1>1, <1>2, <1>3 DEF Requests

(* What an answer or a failure does to the list of requests. *)
LEMMA Replied ==
    ASSUME RuleTypes, NEW i \in 1 .. Len(requests), NEW st \in RequestStates, NEW r,
           r \in Rules \/ r = requests[i].rule, Reply(i, st, r), st = "ok" => r # New
    PROVE  \E q \in Requests, p \in Requests :
           /\ q = requests[i] /\ p = requests'[i]
           /\ p.op = q.op /\ p.st = st /\ p.rule = r
           /\ q.op = "toggle" => p.value = q.value /\ p.undo = q.undo
           /\ q.op = "delete" => p.undo = q.undo
           /\ q.op = "save" => p.value = q.value
           /\ requests' \in Seq(Requests) /\ Len(requests') = Len(requests)
           /\ \A j \in 1 .. Len(requests) : j # i => requests'[j] = requests[j]
           /\ \A j \in 1 .. Len(requests') : requests'[j].st = "ok" => requests'[j].rule # New
           /\ \A j : j # i => /\ j \in UnderWay' <=> j \in UnderWay
                              /\ j \in UnderWay => requests'[j] = requests[j]
           /\ i \in UnderWay' <=> st # "done"
<1>1. requests \in Seq(Requests)
  BY DEF RuleTypes
<1>2. PICK q \in Requests : q = requests[i]
  BY <1>1
<1>3. PICK p : p = Rewrite(q, st, r)
  OBVIOUS
<1>4. /\ p \in Requests /\ p.op = q.op /\ p.st = st /\ p.rule = r
      /\ q.op = "toggle" => p.value = q.value /\ p.undo = q.undo
      /\ q.op = "delete" => p.undo = q.undo
      /\ q.op = "save" => p.value = q.value
  BY <1>2, <1>3, Rewritten
<1>5. requests' = [requests EXCEPT ![i] = p]
  BY <1>1, <1>2, <1>3 DEF Reply, Rewrite
<1>6. /\ requests' \in Seq(Requests) /\ Len(requests') = Len(requests)
      /\ requests'[i] = p
      /\ \A j \in 1 .. Len(requests) : j # i => requests'[j] = requests[j]
  BY <1>1, <1>4, <1>5
<1>7. \A j \in 1 .. Len(requests') : requests'[j].st = "ok" => requests'[j].rule # New
  BY <1>4, <1>6 DEF RuleTypes
<1>8. /\ \A j : j # i => /\ j \in UnderWay' <=> j \in UnderWay
                         /\ j \in UnderWay => requests'[j] = requests[j]
      /\ i \in UnderWay' <=> st # "done"
  BY <1>4, <1>6 DEF UnderWay
<1> QED BY <1>2, <1>4, <1>6, <1>7, <1>8

(* What the invariant knows of a request under way. *)
LEMMA UnderWayKnown ==
    ASSUME RulesInv, ~tangled, NEW i \in 1 .. Len(requests), requests[i].st # "done",
           NEW q \in Requests, q = requests[i]
    PROVE  /\ load.st = "done" /\ i \in UnderWay /\ Agrees(q)
           /\ \A j \in UnderWay : j # i => requests[j].rule # q.rule
<1>1. i \in UnderWay
  BY DEF UnderWay
<1>2. requests # << >>
  BY <1>1 DEF RulesInv, RuleTypes, UnderWay
<1>3. load.st = "done" /\ OneByOne /\ Underways
  BY <1>2 DEF RulesInv, Agreement
<1>4. Agrees(q)
  BY <1>1, <1>3 DEF Underways
<1> QED BY <1>1, <1>3, <1>4 DEF OneByOne

(* The table changes at the rule of the request that is served, a new one    *)
(* for the request of a new rule.                                            *)
LEMMA ServeInv ==
    ASSUME RulesInv, NEW i \in 1 .. Len(requests), Serve(i) PROVE RulesInv'
<1>1. /\ RuleTypes /\ TextsKept /\ requests[i].st = "sent"
      /\ UNCHANGED <<load, rules, drawer, tangled>> /\ New \notin Rules
      /\ table \in RuleLists /\ rules \in RuleLists
  BY AlertsAssumption DEF RulesInv, RuleTypes, Serve, New
<1>2. /\ "ok" \in RequestStates /\ "failed" \in RequestStates
      /\ DOMAIN table \subseteq Rules /\ DOMAIN rules \subseteq Rules
      /\ \A r \in DOMAIN rules : rules[r] \in Bodies
      /\ \A r \in DOMAIN table : table[r] \in Bodies
  BY <1>1, ARuleList DEF RequestStates
<1>3. PICK st, r :
         /\ Reply(i, st, r)
         /\ \/ /\ requests[i].rule = New /\ r \in Rules \ DOMAIN table /\ r \notin Stored /\ st = "ok"
               /\ \A k \in 1 .. Len(requests) : requests[k].rule # r
               /\ table' = With(table, r, requests[i].value)
            \/ /\ requests[i].rule \in DOMAIN table /\ r = requests[i].rule /\ st = "ok"
               /\ table' = CASE requests[i].op = "toggle" ->
                                   [table EXCEPT ![r].enabled = requests[i].value]
                             [] requests[i].op = "delete" -> Without(table, r)
                             [] requests[i].op = "save" -> With(table, r, requests[i].value)
            \/ /\ requests[i].rule \notin DOMAIN table \cup {New} /\ r = requests[i].rule
               /\ st = "failed" /\ table' = table
  BY Zenon DEF Serve, Used
<1>7. /\ st \in RequestStates /\ (r \in Rules \/ r = requests[i].rule)
      /\ st = "ok" => r \in Rules /\ r # New
  BY <1>1, <1>2, <1>3
<1>4. PICK q \in Requests, p \in Requests :
           /\ q = requests[i] /\ p = requests'[i]
           /\ p.op = q.op /\ p.st = st /\ p.rule = r
           /\ q.op = "toggle" => p.value = q.value /\ p.undo = q.undo
           /\ q.op = "delete" => p.undo = q.undo
           /\ q.op = "save" => p.value = q.value
           /\ requests' \in Seq(Requests) /\ Len(requests') = Len(requests)
           /\ \A j \in 1 .. Len(requests) : j # i => requests'[j] = requests[j]
           /\ \A j \in 1 .. Len(requests') : requests'[j].st = "ok" => requests'[j].rule # New
           /\ \A j : j # i => /\ j \in UnderWay' <=> j \in UnderWay
                              /\ j \in UnderWay => requests'[j] = requests[j]
           /\ i \in UnderWay' <=> st # "done"
  BY <1>1, <1>3, <1>7, Replied
<1>5. /\ q.op \in {"toggle", "delete", "save"} /\ q.st = "sent"
      /\ q.rule \in Rules \cup {New} /\ (q.rule = New => q.op = "save")
      /\ q.op = "toggle" => q.value \in BOOLEAN /\ q.undo \in BOOLEAN
      /\ q.op = "delete" => q.undo \in RuleLists
      /\ q.op = "save" => q.value \in Bodies
      /\ OwnRequest(q)
  BY <1>1, <1>4, ARequest DEF TextsKept
<1>6. \/ /\ q.rule = New /\ r \in Rules \ DOMAIN table /\ r \notin Stored /\ st = "ok"
         /\ \A k \in 1 .. Len(requests) : requests[k].rule # r
         /\ table' = With(table, r, q.value)
      \/ /\ q.rule \in DOMAIN table /\ r = q.rule /\ st = "ok" /\ q.op = "toggle"
         /\ table' = [table EXCEPT ![r].enabled = q.value]
      \/ /\ q.rule \in DOMAIN table /\ r = q.rule /\ st = "ok" /\ q.op = "delete"
         /\ table' = Without(table, r)
      \/ /\ q.rule \in DOMAIN table /\ r = q.rule /\ st = "ok" /\ q.op = "save"
         /\ table' = With(table, r, q.value)
      \/ /\ q.rule \notin DOMAIN table \cup {New} /\ r = q.rule /\ st = "failed"
         /\ table' = table
  BY <1>3, <1>4, <1>5
<1>8. ~tangled => /\ load.st = "done" /\ i \in UnderWay /\ Agrees(q)
                  /\ \A j \in UnderWay : j # i => requests[j].rule # q.rule
  BY <1>4, <1>5, UnderWayKnown
<1>14. PICK t, u : t = table /\ u = table'
  OBVIOUS
<1>15. t \in RuleLists /\ OwnText(t)
  BY <1>1, <1>14 DEF TextsKept, OwnText
<1>9. /\ u \in RuleLists /\ OwnText(u)
      /\ \A s : s # r => Unmoved(s)
      /\ \A j \in UnderWay : j # i => r = q.rule \/ requests[j].rule # r
      /\ ~tangled => Agrees(p)'
      /\ q.rule = New \/ r = q.rule
  <2>1. CASE /\ q.rule = New /\ r \in Rules \ DOMAIN table /\ r \notin Stored /\ st = "ok"
             /\ \A k \in 1 .. Len(requests) : requests[k].rule # r
             /\ table' = With(table, r, q.value)
    <3>1. q.op = "save" /\ q.value \in Bodies /\ q.value.text \in Texts(r)
      BY <1>1, <1>5, <2>1 DEF OwnRequest, Typed, Texts
    <3>4. u = With(t, r, q.value)
      BY <1>14, <2>1 DEF With
    <3>2. /\ u \in RuleLists /\ (\A s : s \in DOMAIN u <=> s \in DOMAIN t \/ s = r) /\ u[r] = q.value
          /\ \A s \in DOMAIN t : s # r => u[s] = t[s]
          /\ OwnText(u)
      BY <1>15, <2>1, <3>1, <3>4, WithRule
    <3>3. Agrees(p)'
      BY <1>14, <1>4, <2>1, <3>1, <3>2 DEF Agrees
    <3> QED BY <1>14, <1>1, <2>1, <3>2, <3>3 DEF Unmoved, UnderWay
  <2>2. CASE /\ q.rule \in DOMAIN table /\ r = q.rule /\ st = "ok" /\ q.op = "toggle"
             /\ table' = [table EXCEPT ![r].enabled = q.value]
    <3> PICK v : v = q.value
      OBVIOUS
    <3>4. u = Switched(t, r, v) /\ v \in BOOLEAN /\ r \in DOMAIN t
      BY <1>5, <1>14, <2>2 DEF Switched
    <3>1. /\ u \in RuleLists /\ \A s : s \in DOMAIN u <=> s \in DOMAIN t
          /\ u[r].text = t[r].text /\ u[r].enabled = v
          /\ \A s \in DOMAIN t : s # r => u[s] = t[s]
          /\ OwnText(u)
      BY <1>15, <3>4, SwitchedRule
    <3>2. ASSUME ~tangled PROVE Agrees(p)'
      <4>1. r \in DOMAIN rules /\ rules[r].text = table[r].text /\ rules[r].enabled = q.value
        BY <1>14, <1>5, <1>8, <2>2, <3>2 DEF Agrees
      <4>2. rules[r] = u[r]
        <5>1. u[r] \in Bodies /\ rules[r] \in Bodies
          BY <1>2, <1>14, <2>2, <3>1, <4>1, ARuleList
        <5>2. rules[r].text = u[r].text /\ rules[r].enabled = u[r].enabled
          BY <1>14, <3>1, <4>1
        <5> QED BY <5>1, <5>2, OneBody
      <4> QED BY <1>14, <1>1, <1>4, <2>2, <3>1, <4>1, <4>2 DEF Agrees, Same
    <3> QED BY <1>14, <1>1, <2>2, <3>1, <3>2 DEF Unmoved
  <2>3. CASE /\ q.rule \in DOMAIN table /\ r = q.rule /\ st = "ok" /\ q.op = "delete"
             /\ table' = Without(table, r)
    <3>4. u = Without(t, r)
      BY <1>14, <2>3 DEF Without
    <3>1. /\ u \in RuleLists /\ \A s : s \in DOMAIN u <=> s \in DOMAIN t /\ s # r
          /\ \A s \in DOMAIN t : s # r => u[s] = t[s]
          /\ OwnText(u)
      BY <1>15, <3>4, WithoutRule
    <3>2. ~tangled => Agrees(p)'
      BY <1>14, <1>1, <1>4, <1>5, <1>8, <2>3, <3>1 DEF Agrees, Same
    <3> QED BY <1>14, <1>1, <2>3, <3>1, <3>2 DEF Unmoved
  <2>4. CASE /\ q.rule \in DOMAIN table /\ r = q.rule /\ st = "ok" /\ q.op = "save"
             /\ table' = With(table, r, q.value)
    <3>1. r \in Rules /\ q.value \in Bodies /\ q.value.text \in Texts(r)
      BY <1>1, <1>2, <1>5, <2>4 DEF OwnRequest, Typed
    <3>4. u = With(t, r, q.value)
      BY <1>14, <2>4 DEF With
    <3>2. /\ u \in RuleLists /\ (\A s : s \in DOMAIN u <=> s \in DOMAIN t \/ s = r) /\ u[r] = q.value
          /\ \A s \in DOMAIN t : s # r => u[s] = t[s]
          /\ OwnText(u)
      BY <1>15, <3>1, <3>4, WithRule
    <3>3. Agrees(p)'
      BY <1>14, <1>4, <2>4, <3>2 DEF Agrees
    <3> QED BY <1>14, <1>1, <2>4, <3>1, <3>2, <3>3 DEF Unmoved
  <2>5. CASE /\ q.rule \notin DOMAIN table \cup {New} /\ r = q.rule /\ st = "failed"
             /\ table' = table
    <3>1. ~tangled => Agrees(p)'
      BY <1>1, <1>4, <1>5, <1>8, <2>5 DEF Agrees, Same
    <3> QED BY <1>1, <1>14, <1>15, <2>5, <3>1 DEF Unmoved
  <2> QED BY <1>6, <2>1, <2>2, <2>3, <2>4, <2>5
<1>10. RuleTypes'
  BY <1>1, <1>4, <1>9, <1>14 DEF RuleTypes, LoadShape
<1>11. OwnRequest(p)
  BY <1>1, <1>4, <1>5, <1>6 DEF OwnRequest, Typed, Texts
<1>12. TextsKept'
  <2>1. \A j \in 1 .. Len(requests') : OwnRequest(requests'[j])
    BY <1>1, <1>4, <1>11 DEF TextsKept
  <2> QED BY <1>1, <1>9, <1>14, <2>1 DEF TextsKept, OwnText
<1>13. Agreement'
  <2>1. ASSUME ~tangled PROVE Agreement'
    <3>1. i \in UnderWay' /\ requests'[i] = p /\ p.rule = r /\ Agrees(p)'
      BY <1>3, <1>4, <1>9, <2>1
    <3>2. \A j : j # i => /\ j \in UnderWay' <=> j \in UnderWay
                          /\ j \in UnderWay => requests'[j] = requests[j] /\ requests[j].rule # r
      BY <1>4, <1>8, <1>9, <2>1
    <3>3. load.st = "done" /\ load'.st = "done" /\ requests[i].rule \in {r, New}
      BY <1>1, <1>4, <1>8, <1>9, <2>1
    <3>4. Agreement
      BY DEF RulesInv
    <3> QED BY <1>9, <2>1, <3>1, <3>2, <3>3, <3>4, Locally
  <2>2. tangled => Agreement'
    BY <1>1 DEF Agreement
  <2> QED BY <2>1, <2>2
<1> QED BY <1>10, <1>12, <1>13 DEF RulesInv

(* A request that is not served leaves the table as it is; one whose answer  *)
(* is lost is among what the agreement leaves out.                           *)
LEMMA RequestFailsInv ==
    ASSUME RulesInv, NEW i \in 1 .. Len(requests), RequestFails(i) PROVE RulesInv'
<1>1. /\ RuleTypes /\ TextsKept /\ UNCHANGED <<load, table, rules, drawer>>
      /\ Reply(i, "failed", requests[i].rule)
      /\ requests[i].st \in {"sent", "ok"}
      /\ tangled' = (tangled \/ requests[i].st = "ok")
  BY DEF RulesInv, RequestFails
<1>2. "failed" \in RequestStates
  BY DEF RequestStates
<1>3. PICK q \in Requests, p \in Requests :
           /\ q = requests[i] /\ p = requests'[i]
           /\ p.op = q.op /\ p.st = "failed" /\ p.rule = requests[i].rule
           /\ q.op = "toggle" => p.value = q.value /\ p.undo = q.undo
           /\ q.op = "delete" => p.undo = q.undo
           /\ q.op = "save" => p.value = q.value
           /\ requests' \in Seq(Requests) /\ Len(requests') = Len(requests)
           /\ \A j \in 1 .. Len(requests) : j # i => requests'[j] = requests[j]
           /\ \A j \in 1 .. Len(requests') : requests'[j].st = "ok" => requests'[j].rule # New
           /\ \A j : j # i => /\ j \in UnderWay' <=> j \in UnderWay
                              /\ j \in UnderWay => requests'[j] = requests[j]
           /\ i \in UnderWay' <=> "failed" # "done"
  BY <1>1, <1>2, Replied
<1>4. RuleTypes'
  BY <1>1, <1>3 DEF RuleTypes, LoadShape
<1>5. OwnRequest(p)
  BY <1>1, <1>3, ARequest DEF TextsKept, OwnRequest
<1>6. TextsKept'
  <2>1. \A j \in 1 .. Len(requests') : OwnRequest(requests'[j])
    BY <1>1, <1>3, <1>5 DEF TextsKept
  <2> QED BY <1>1, <2>1 DEF TextsKept, OwnText
<1>7. ASSUME ~tangled, q.st = "sent" PROVE Agreement'
  <2>1. /\ load.st = "done" /\ i \in UnderWay /\ Agrees(q) /\ load'.st = "done"
        /\ \A j \in UnderWay : j # i => requests[j].rule # q.rule
    BY <1>1, <1>3, <1>7, UnderWayKnown
  <2>2. p.rule = q.rule
    BY <1>3
  <2>3. Agrees(p)'
    BY <1>1, <1>3, <1>7, <2>1, ARequest DEF Agrees, Same
  <2>4. \A s : Unmoved(s)
    BY <1>1 DEF Unmoved
  <2>5. \A j : j # i => /\ j \in UnderWay' <=> j \in UnderWay
                        /\ j \in UnderWay => requests'[j] = requests[j] /\ requests[j].rule # p.rule
    BY <1>3, <2>1, <2>2
  <2>6. Agreement /\ i \in UnderWay' /\ requests'[i] = p /\ requests[i].rule \in {p.rule, New}
    BY <1>3, <2>2 DEF RulesInv
  <2> QED BY <1>7, <2>1, <2>3, <2>4, <2>5, <2>6, Locally
<1>8. tangled \/ q.st = "ok" => Agreement'
  BY <1>1, <1>3 DEF Agreement
<1>9. Agreement'
  BY <1>1, <1>3, <1>7, <1>8
<1> QED BY <1>4, <1>6, <1>9 DEF RulesInv

(* A save that went well is shown as it was stored.                          *)
LEMMA AnswerOkInv ==
    ASSUME RulesInv, NEW i \in 1 .. Len(requests), AnswerOk(i) PROVE RulesInv'
<1>1. /\ RuleTypes /\ TextsKept /\ UNCHANGED <<load, table, tangled>>
      /\ Reply(i, "done", requests[i].rule) /\ requests[i].st = "ok"
      /\ rules \in RuleLists /\ table \in RuleLists
      /\ drawer \in [open : BOOLEAN, initial : Rules \cup {New}, form : Bodies]
  BY DEF RulesInv, RuleTypes, AnswerOk
<1>2. "done" \in RequestStates
  BY DEF RequestStates
<1>3. PICK q \in Requests, p \in Requests :
           /\ q = requests[i] /\ p = requests'[i]
           /\ p.op = q.op /\ p.st = "done" /\ p.rule = requests[i].rule
           /\ q.op = "toggle" => p.value = q.value /\ p.undo = q.undo
           /\ q.op = "delete" => p.undo = q.undo
           /\ q.op = "save" => p.value = q.value
           /\ requests' \in Seq(Requests) /\ Len(requests') = Len(requests)
           /\ \A j \in 1 .. Len(requests) : j # i => requests'[j] = requests[j]
           /\ \A j \in 1 .. Len(requests') : requests'[j].st = "ok" => requests'[j].rule # New
           /\ \A j : j # i => /\ j \in UnderWay' <=> j \in UnderWay
                              /\ j \in UnderWay => requests'[j] = requests[j]
           /\ i \in UnderWay' <=> "done" # "done"
  BY <1>1, <1>2, Replied
<1>4. /\ q.op \in {"toggle", "delete", "save"} /\ q.rule \in Rules /\ q.st = "ok"
      /\ q.op = "save" => q.value \in Bodies
      /\ OwnRequest(q)
  BY <1>1, <1>3, ARequest DEF RuleTypes, TextsKept
<1>5. OwnRequest(p)
  BY <1>3, <1>4 DEF OwnRequest
<1>6. \A j \in 1 .. Len(requests') : OwnRequest(requests'[j])
  BY <1>1, <1>3, <1>5 DEF TextsKept
<1>7. PICK f, g : f = rules /\ g = rules'
  OBVIOUS
<1>8. f \in RuleLists /\ OwnText(f)
  BY <1>1, <1>7 DEF TextsKept, OwnText
<1>9. /\ drawer' \in [open : BOOLEAN, initial : Rules \cup {New}, form : Bodies]
      /\ drawer'.form = drawer.form /\ drawer'.initial = drawer.initial
  BY <1>1 DEF AnswerOk
<1>10. /\ g \in RuleLists /\ OwnText(g)
       /\ \A s : s # q.rule => Unmoved(s)
       /\ ~tangled => Same(q.rule)'
  <2>1. CASE q.op = "save"
    <3>1. g = With(f, q.rule, q.value) /\ q.value.text \in Texts(q.rule) /\ q.value \in Bodies
      BY <1>3, <1>4, <1>7, <2>1, AlertsAssumption DEF AnswerOk, With, OwnRequest, Typed, New
    <3>2. /\ g \in RuleLists /\ g[q.rule] = q.value
          /\ \A s : s \in DOMAIN g <=> s \in DOMAIN f \/ s = q.rule
          /\ \A s \in DOMAIN f : s # q.rule => g[s] = f[s]
          /\ OwnText(g)
      BY <1>4, <1>8, <3>1, WithRule
    <3>3. ~tangled => q.rule \in DOMAIN table /\ table[q.rule] = q.value
      BY <1>3, <1>4, <2>1, UnderWayKnown DEF Agrees
    <3> QED BY <1>1, <1>7, <3>2, <3>3 DEF Unmoved, Same
  <2>2. CASE q.op # "save"
    <3>1. rules' = rules
      BY <1>3, <2>2 DEF AnswerOk
    <3>2. ~tangled => Same(q.rule)
      BY <1>3, <1>4, <2>2, UnderWayKnown DEF Agrees
    <3> QED BY <1>1, <1>7, <1>8, <3>1, <3>2 DEF Unmoved, Same
  <2> QED BY <2>1, <2>2
<1>11. RuleTypes'
  BY <1>1, <1>3, <1>7, <1>9, <1>10 DEF RuleTypes, LoadShape
<1>12. TextsKept'
  BY <1>1, <1>6, <1>7, <1>9, <1>10 DEF TextsKept, OwnText
<1>13. ASSUME ~tangled PROVE Agreement'
  <2>1. /\ load.st = "done" /\ i \in UnderWay /\ load'.st = "done"
        /\ \A j \in UnderWay : j # i => requests[j].rule # q.rule
    BY <1>1, <1>3, <1>4, <1>13, UnderWayKnown
  <2>2. \A j : j # i => /\ j \in UnderWay' <=> j \in UnderWay
                        /\ j \in UnderWay => requests'[j] = requests[j] /\ requests[j].rule # q.rule
    BY <1>3, <2>1
  <2>3. /\ Agreement /\ i \notin UnderWay' /\ requests[i].rule \in {q.rule, New}
        /\ Same(q.rule)' /\ \A s : s # q.rule => Unmoved(s)
    BY <1>3, <1>10, <1>13 DEF RulesInv
  <2> QED BY <1>13, <2>1, <2>2, <2>3, Locally
<1>14. Agreement'
  BY <1>1, <1>13 DEF Agreement
<1> QED BY <1>11, <1>12, <1>14 DEF RulesInv

(* An error takes back what was shown at once.  A deletion puts back the     *)
(* whole list, which is right when nothing else of it has changed.           *)
LEMMA AnswerErrorInv ==
    ASSUME RulesInv, NEW i \in 1 .. Len(requests), AnswerError(i) PROVE RulesInv'
<1>1. /\ RuleTypes /\ TextsKept /\ UNCHANGED <<load, table, drawer>>
      /\ Reply(i, "done", requests[i].rule) /\ requests[i].st = "failed"
      /\ rules \in RuleLists /\ table \in RuleLists
      /\ rules' = RolledBack(requests[i])
      /\ tangled' = (tangled \/ (requests[i].op = "delete"
                                 /\ rules # Without(requests[i].undo, requests[i].rule)))
  BY DEF RulesInv, RuleTypes, AnswerError
<1>2. "done" \in RequestStates
  BY DEF RequestStates
<1>3. PICK q \in Requests, p \in Requests :
           /\ q = requests[i] /\ p = requests'[i]
           /\ p.op = q.op /\ p.st = "done" /\ p.rule = requests[i].rule
           /\ q.op = "toggle" => p.value = q.value /\ p.undo = q.undo
           /\ q.op = "delete" => p.undo = q.undo
           /\ q.op = "save" => p.value = q.value
           /\ requests' \in Seq(Requests) /\ Len(requests') = Len(requests)
           /\ \A j \in 1 .. Len(requests) : j # i => requests'[j] = requests[j]
           /\ \A j \in 1 .. Len(requests') : requests'[j].st = "ok" => requests'[j].rule # New
           /\ \A j : j # i => /\ j \in UnderWay' <=> j \in UnderWay
                              /\ j \in UnderWay => requests'[j] = requests[j]
           /\ i \in UnderWay' <=> "done" # "done"
  BY <1>1, <1>2, Replied
<1>4. /\ q.op \in {"toggle", "delete", "save"} /\ q.st = "failed"
      /\ q.op = "toggle" => q.undo \in BOOLEAN
      /\ q.op = "delete" => q.undo \in RuleLists
      /\ OwnRequest(q)
  BY <1>1, <1>3, ARequest DEF TextsKept
<1>5. OwnRequest(p)
  BY <1>3, <1>4 DEF OwnRequest
<1>6. \A j \in 1 .. Len(requests') : OwnRequest(requests'[j])
  BY <1>1, <1>3, <1>5 DEF TextsKept
<1>7. PICK f, g : f = rules /\ g = rules'
  OBVIOUS
<1>8. f \in RuleLists /\ OwnText(f)
  BY <1>1, <1>7 DEF TextsKept, OwnText
<1>9. ~tangled => /\ load.st = "done" /\ i \in UnderWay /\ Agrees(q)
                  /\ \A j \in UnderWay : j # i => requests[j].rule # q.rule
  BY <1>3, <1>4, UnderWayKnown
<1>10. /\ g \in RuleLists /\ OwnText(g)
       /\ ~tangled' => \A s : s # q.rule => Unmoved(s)
       /\ ~tangled' => Same(q.rule)'
  <2>1. CASE q.op = "toggle" /\ q.rule \in DOMAIN rules
    <3> PICK v : v = q.undo
      OBVIOUS
    <3>1. g = Switched(f, q.rule, v) /\ v \in BOOLEAN /\ q.rule \in DOMAIN f
      BY <1>1, <1>3, <1>4, <1>7, <2>1 DEF RolledBack, Switched
    <3>2. /\ g \in RuleLists /\ \A s : s \in DOMAIN g <=> s \in DOMAIN f
          /\ g[q.rule].text = f[q.rule].text /\ g[q.rule].enabled = v
          /\ \A s \in DOMAIN f : s # q.rule => g[s] = f[s]
          /\ OwnText(g)
      BY <1>8, <3>1, SwitchedRule
    <3>3. ASSUME ~tangled PROVE Same(q.rule)'
      <4>1. /\ q.rule \in DOMAIN table /\ table[q.rule].text = f[q.rule].text
            /\ table[q.rule].enabled = v
        BY <1>4, <1>7, <1>9, <2>1, <3>3 DEF Agrees
      <4>2. table[q.rule] \in Bodies /\ g[q.rule] \in Bodies
        BY <1>1, <3>1, <3>2, <4>1, ARuleList
      <4>3. table[q.rule].text = g[q.rule].text /\ table[q.rule].enabled = g[q.rule].enabled
        BY <3>2, <4>1
      <4>4. table[q.rule] = g[q.rule]
        BY <4>2, <4>3, OneBody
      <4> QED BY <1>1, <1>7, <3>1, <3>2, <4>1, <4>4 DEF Same
    <3> QED BY <1>1, <1>7, <3>2, <3>3 DEF Unmoved
  <2>2. CASE q.op = "save" \/ (q.op = "toggle" /\ q.rule \notin DOMAIN rules)
    <3>1. rules' = rules
      BY <1>1, <1>3, <2>2 DEF RolledBack
    <3>2. ~tangled => Same(q.rule)
      BY <1>4, <1>9, <2>2 DEF Agrees
    <3> QED BY <1>1, <1>7, <1>8, <3>1, <3>2 DEF Unmoved, Same
  <2>3. CASE q.op = "delete"
    <3>1. g = q.undo /\ g \in RuleLists /\ OwnText(g)
      BY <1>1, <1>3, <1>4, <1>7, <2>3 DEF RolledBack, OwnRequest
    <3>2. ASSUME ~tangled' PROVE (\A s : s # q.rule => Unmoved(s)) /\ Same(q.rule)'
      <4>1. ~tangled /\ f = Without(g, q.rule)
        BY <1>1, <1>3, <1>7, <2>3, <3>1, <3>2 DEF Without
      <4>2. /\ \A s : s \in DOMAIN f <=> s \in DOMAIN g /\ s # q.rule
            /\ \A s \in DOMAIN g : s # q.rule => f[s] = g[s]
        BY <3>1, <4>1, WithoutRule
      <4>3. q.rule \in DOMAIN table /\ q.rule \in DOMAIN g /\ g[q.rule] = table[q.rule]
        BY <1>4, <1>9, <2>3, <3>1, <4>1 DEF Agrees
      <4> QED BY <1>1, <1>7, <4>2, <4>3 DEF Unmoved, Same
    <3> QED BY <3>1, <3>2
  <2> QED BY <1>4, <2>1, <2>2, <2>3
<1>11. RuleTypes'
  BY <1>1, <1>3, <1>7, <1>10 DEF RuleTypes, LoadShape
<1>12. TextsKept'
  BY <1>1, <1>6, <1>7, <1>10 DEF TextsKept, OwnText
<1>13. ASSUME ~tangled' PROVE Agreement'
  <2>1. /\ ~tangled /\ load.st = "done" /\ i \in UnderWay /\ load'.st = "done"
        /\ \A j \in UnderWay : j # i => requests[j].rule # q.rule
    BY <1>1, <1>9, <1>13
  <2>2. \A j : j # i => /\ j \in UnderWay' <=> j \in UnderWay
                        /\ j \in UnderWay => requests'[j] = requests[j] /\ requests[j].rule # q.rule
    BY <1>3, <2>1
  <2>3. /\ Agreement /\ i \notin UnderWay' /\ requests[i].rule \in {q.rule, New}
        /\ Same(q.rule)' /\ \A s : s # q.rule => Unmoved(s)
    BY <1>3, <1>10, <1>13 DEF RulesInv
  <2> QED BY <2>1, <2>2, <2>3, Locally
<1>14. Agreement'
  BY <1>13 DEF Agreement
<1> QED BY <1>11, <1>12, <1>14 DEF RulesInv

(* What a request made now finds.                                            *)
LEMMA Asked ==
    ASSUME RulesInv, NEW q \in Requests, q.st = "sent", OwnRequest(q), Ask(q)
    PROVE  /\ UNCHANGED <<table, load>> /\ tangled' \in BOOLEAN
           /\ requests' \in Seq(Requests)
           /\ \A j \in 1 .. Len(requests') : OwnRequest(requests'[j])
           /\ \A j \in 1 .. Len(requests') : requests'[j].st = "ok" => requests'[j].rule # New
           /\ ~tangled' => /\ ~tangled /\ load.st = "done"
                           /\ q.rule \in Rules => Same(q.rule)
           /\ \E i : /\ i \notin UnderWay /\ i \in UnderWay' /\ requests'[i] = q
                     /\ \A j : j # i => /\ j \in UnderWay' <=> j \in UnderWay
                                        /\ j \in UnderWay => requests'[j] = requests[j]
                     /\ ~tangled' => \A j \in UnderWay : requests[j].rule # q.rule
<1>1. /\ RuleTypes /\ TextsKept /\ UNCHANGED <<table, load>> /\ requests \in Seq(Requests)
      /\ requests' = Append(requests, q) /\ tangled \in BOOLEAN
      /\ tangled' = (tangled \/ load.st # "done" \/ \E i \in UnderWay : requests[i].rule = q.rule)
  BY DEF RulesInv, RuleTypes, Ask
<1>2. /\ requests' \in Seq(Requests) /\ Len(requests) \in Nat /\ Len(requests') = Len(requests) + 1
      /\ requests'[Len(requests) + 1] = q
      /\ \A j \in 1 .. Len(requests) : requests'[j] = requests[j]
  BY <1>1
<1>3. \A j \in 1 .. Len(requests') : OwnRequest(requests'[j])
  <2> SUFFICES ASSUME NEW j \in 1 .. Len(requests') PROVE OwnRequest(requests'[j])
    OBVIOUS
  <2>1. CASE j = Len(requests) + 1
    BY <1>2, <2>1
  <2>2. CASE j # Len(requests) + 1
    <3>1. j \in 1 .. Len(requests) /\ requests'[j] = requests[j]
      BY <1>2, <2>2
    <3>2. OwnRequest(requests[j])
      BY <1>1, <3>1 DEF TextsKept
    <3> QED BY <3>1, <3>2 DEF OwnRequest
  <2> QED BY <2>1, <2>2
<1>4. \A j \in 1 .. Len(requests') : requests'[j].st = "ok" => requests'[j].rule # New
  BY <1>1, <1>2 DEF RuleTypes
<1>5. ASSUME ~tangled'
      PROVE  /\ ~tangled /\ load.st = "done" /\ \A j \in UnderWay : requests[j].rule # q.rule
             /\ q.rule \in Rules => Same(q.rule)
  <2>1. ~tangled /\ load.st = "done" /\ \A j \in UnderWay : requests[j].rule # q.rule
    BY <1>1, <1>5
  <2>2. Others
    BY <2>1 DEF RulesInv, Agreement
  <2> QED BY <2>1, <2>2 DEF Others
<1>6. PICK i : i = Len(requests) + 1
  OBVIOUS
<1>7. /\ i \notin UnderWay /\ i \in UnderWay' /\ requests'[i] = q
      /\ \A j : j # i => /\ j \in UnderWay' <=> j \in UnderWay
                         /\ j \in UnderWay => requests'[j] = requests[j]
  BY <1>2, <1>6 DEF UnderWay
<1>8. tangled' \in BOOLEAN
  BY <1>1
<1> QED BY <1>1, <1>2, <1>3, <1>4, <1>5, <1>7, <1>8

(* A switch is shown at once.                                                *)
LEMMA ToggleInv ==
    ASSUME RulesInv, NEW r \in Rules, HandleToggleRule(r) PROVE RulesInv'
<1>1. /\ RuleTypes /\ TextsKept /\ r \in DOMAIN rules /\ drawer' = drawer
      /\ rules \in RuleLists /\ New \notin Rules
      /\ rules' = [rules EXCEPT ![r].enabled = ~@]
  BY AlertsAssumption DEF RulesInv, RuleTypes, HandleToggleRule, New
<1>2. rules[r] \in Bodies
  BY <1>1, ARuleList
<1>3. rules[r].enabled \in BOOLEAN
  BY <1>2 DEF Bodies
<1>4. PICK u \in BOOLEAN, v \in BOOLEAN : u = rules[r].enabled /\ v = ~rules[r].enabled
  BY <1>3
<1>5. PICK q : q = [op |-> "toggle", rule |-> r, value |-> v, undo |-> u, st |-> "sent"]
  OBVIOUS
<1>6. /\ q \in Requests /\ q.st = "sent" /\ q.op = "toggle" /\ q.rule = r
      /\ q.value = v /\ q.undo = u /\ OwnRequest(q)
  BY <1>5 DEF Requests, RequestStates, OwnRequest
<1>7. Ask(q)
  BY <1>4, <1>5 DEF HandleToggleRule
<1>8. /\ UNCHANGED <<table, load>> /\ tangled' \in BOOLEAN
      /\ requests' \in Seq(Requests)
      /\ \A j \in 1 .. Len(requests') : OwnRequest(requests'[j])
      /\ \A j \in 1 .. Len(requests') : requests'[j].st = "ok" => requests'[j].rule # New
      /\ ~tangled' => ~tangled /\ load.st = "done" /\ Same(r)
  BY <1>6, <1>7, Asked
<1>9. PICK i :
         /\ i \notin UnderWay /\ i \in UnderWay' /\ requests'[i] = q
         /\ \A j : j # i => /\ j \in UnderWay' <=> j \in UnderWay
                            /\ j \in UnderWay => requests'[j] = requests[j]
         /\ ~tangled' => \A j \in UnderWay : requests[j].rule # r
  BY <1>6, <1>7, Asked
<1>10. PICK f, g : f = rules /\ g = rules'
  OBVIOUS
<1>11. f \in RuleLists /\ OwnText(f)
  BY <1>1, <1>10 DEF TextsKept, OwnText
<1>12. g = Switched(f, r, v) /\ r \in DOMAIN f
  BY <1>1, <1>4, <1>10 DEF Switched
<1>13. /\ g \in RuleLists /\ \A s : s \in DOMAIN g <=> s \in DOMAIN f
       /\ g[r].text = f[r].text /\ g[r].enabled = v
       /\ \A s \in DOMAIN f : s # r => g[s] = f[s]
       /\ OwnText(g)
  BY <1>11, <1>12, SwitchedRule
<1>14. RuleTypes'
  BY <1>1, <1>8, <1>10, <1>13 DEF RuleTypes, LoadShape
<1>15. TextsKept'
  BY <1>1, <1>8, <1>10, <1>13 DEF TextsKept, OwnText
<1>16. ASSUME ~tangled' PROVE Agreement'
  <2>1. ~tangled /\ load.st = "done" /\ load'.st = "done" /\ Agreement /\ Same(r)
    BY <1>8, <1>16 DEF RulesInv
  <2>2. r \in DOMAIN table /\ table[r] = f[r]
    BY <1>10, <1>12, <2>1 DEF Same
  <2>3. Agrees(q)'
    BY <1>4, <1>6, <1>8, <1>10, <1>12, <1>13, <2>2 DEF Agrees
  <2>4. \A s : s # r => Unmoved(s)
    BY <1>8, <1>10, <1>13 DEF Unmoved
  <2>5. \A j : j # i => /\ j \in UnderWay' <=> j \in UnderWay
                        /\ j \in UnderWay => requests'[j] = requests[j] /\ requests[j].rule # r
    BY <1>9, <1>16
  <2> QED BY <1>6, <1>9, <2>1, <2>3, <2>4, <2>5, Locally
<1>17. Agreement'
  BY <1>16 DEF Agreement
<1> QED BY <1>14, <1>15, <1>17 DEF RulesInv

(* A deletion is shown at once, and remembers the list it was made from.     *)
LEMMA DeleteInv ==
    ASSUME RulesInv, NEW r \in Rules, HandleDeleteRule(r) PROVE RulesInv'
<1>1. /\ RuleTypes /\ TextsKept /\ r \in DOMAIN rules /\ drawer' = drawer
      /\ rules \in RuleLists /\ New \notin Rules
      /\ rules' = Without(rules, r)
  BY AlertsAssumption DEF RulesInv, RuleTypes, HandleDeleteRule, New
<1>2. PICK f, g : f = rules /\ g = rules'
  OBVIOUS
<1>3. f \in RuleLists /\ OwnText(f) /\ g = Without(f, r)
  BY <1>1, <1>2 DEF TextsKept, OwnText, Without
<1>4. PICK q : q = [op |-> "delete", rule |-> r, undo |-> f, st |-> "sent"]
  OBVIOUS
<1>5. /\ q \in Requests /\ q.st = "sent" /\ q.op = "delete" /\ q.rule = r
      /\ q.undo = f
  BY <1>3, <1>4 DEF Requests, RequestStates
<1>6. OwnRequest(q)
  BY <1>3, <1>5 DEF OwnRequest
<1>7. Ask(q)
  BY <1>2, <1>4 DEF HandleDeleteRule
<1>8. /\ UNCHANGED <<table, load>> /\ tangled' \in BOOLEAN
      /\ requests' \in Seq(Requests)
      /\ \A j \in 1 .. Len(requests') : OwnRequest(requests'[j])
      /\ \A j \in 1 .. Len(requests') : requests'[j].st = "ok" => requests'[j].rule # New
      /\ ~tangled' => ~tangled /\ load.st = "done" /\ Same(r)
  BY <1>5, <1>6, <1>7, Asked
<1>9. PICK i :
         /\ i \notin UnderWay /\ i \in UnderWay' /\ requests'[i] = q
         /\ \A j : j # i => /\ j \in UnderWay' <=> j \in UnderWay
                            /\ j \in UnderWay => requests'[j] = requests[j]
         /\ ~tangled' => \A j \in UnderWay : requests[j].rule # r
  BY <1>5, <1>6, <1>7, Asked
<1>13. /\ g \in RuleLists /\ \A s : s \in DOMAIN g <=> s \in DOMAIN f /\ s # r
       /\ \A s \in DOMAIN f : s # r => g[s] = f[s]
       /\ OwnText(g)
  BY <1>3, WithoutRule
<1>14. RuleTypes'
  BY <1>1, <1>2, <1>8, <1>13 DEF RuleTypes, LoadShape
<1>15. TextsKept'
  BY <1>1, <1>2, <1>8, <1>13 DEF TextsKept, OwnText
<1>16. ASSUME ~tangled' PROVE Agreement'
  <2>1. ~tangled /\ load.st = "done" /\ load'.st = "done" /\ Agreement /\ Same(r)
    BY <1>8, <1>16 DEF RulesInv
  <2>2. r \in DOMAIN table /\ table[r] = f[r] /\ r \in DOMAIN f
    BY <1>1, <1>2, <2>1 DEF Same
  <2>3. Agrees(q)'
    BY <1>2, <1>5, <1>8, <1>13, <2>2 DEF Agrees
  <2>4. \A s : s # r => Unmoved(s)
    BY <1>2, <1>8, <1>13 DEF Unmoved
  <2>5. \A j : j # i => /\ j \in UnderWay' <=> j \in UnderWay
                        /\ j \in UnderWay => requests'[j] = requests[j] /\ requests[j].rule # r
    BY <1>9, <1>16
  <2> QED BY <1>5, <1>9, <2>1, <2>3, <2>4, <2>5, Locally
<1>17. Agreement'
  BY <1>16 DEF Agreement
<1> QED BY <1>14, <1>15, <1>17 DEF RulesInv

(* The form is sent, and the list stays.                                     *)
LEMMA SubmitInv ==
    ASSUME RulesInv, HandleSubmit PROVE RulesInv'
<1>1. /\ RuleTypes /\ TextsKept /\ UNCHANGED <<rules, drawer>> /\ New \notin Rules
      /\ drawer.initial \in Rules \cup {New} /\ drawer.form \in Bodies
      /\ rules \in RuleLists /\ table \in RuleLists
      /\ drawer.form.text \in Typed(drawer.initial)
  BY AlertsAssumption DEF RulesInv, RuleTypes, TextsKept, HandleSubmit, New
<1>2. PICK r, b : r = drawer.initial /\ b = drawer.form
  OBVIOUS
<1>3. PICK q : q = [op |-> "save", rule |-> r, value |-> b, st |-> "sent"]
  OBVIOUS
<1>4. /\ q \in Requests /\ q.st = "sent" /\ q.op = "save" /\ q.rule = r /\ q.value = b
  BY <1>1, <1>2, <1>3 DEF Requests, RequestStates
<1>5. OwnRequest(q)
  BY <1>1, <1>2, <1>4 DEF OwnRequest
<1>6. Ask(q)
  BY <1>2, <1>3 DEF HandleSubmit
<1>7. /\ UNCHANGED <<table, load>> /\ tangled' \in BOOLEAN
      /\ requests' \in Seq(Requests)
      /\ \A j \in 1 .. Len(requests') : OwnRequest(requests'[j])
      /\ \A j \in 1 .. Len(requests') : requests'[j].st = "ok" => requests'[j].rule # New
      /\ ~tangled' => /\ ~tangled /\ load.st = "done"
                      /\ r \in Rules => Same(r)
  BY <1>4, <1>5, <1>6, Asked
<1>8. PICK i :
         /\ i \notin UnderWay /\ i \in UnderWay' /\ requests'[i] = q
         /\ \A j : j # i => /\ j \in UnderWay' <=> j \in UnderWay
                            /\ j \in UnderWay => requests'[j] = requests[j]
         /\ ~tangled' => \A j \in UnderWay : requests[j].rule # r
  BY <1>4, <1>5, <1>6, Asked
<1>9. RuleTypes'
  BY <1>1, <1>7 DEF RuleTypes, LoadShape
<1>10. TextsKept'
  BY <1>1, <1>7 DEF TextsKept, OwnText
<1>11. ASSUME ~tangled' PROVE Agreement'
  <2>1. ~tangled /\ load.st = "done" /\ load'.st = "done" /\ Agreement
    BY <1>7, <1>11 DEF RulesInv
  <2>2. Same(r)
    <3>1. CASE r \in Rules
      BY <1>7, <1>11, <3>1
    <3>2. CASE r = New
      BY <1>1, <3>2, ARuleList DEF Same
    <3> QED BY <1>1, <1>2, <3>1, <3>2
  <2>3. Agrees(q)'
    BY <1>1, <1>4, <1>7, <2>2 DEF Agrees, Same
  <2>4. \A s : Unmoved(s)
    BY <1>1, <1>7 DEF Unmoved
  <2>5. \A j : j # i => /\ j \in UnderWay' <=> j \in UnderWay
                        /\ j \in UnderWay => requests'[j] = requests[j] /\ requests[j].rule # r
    BY <1>8, <1>11
  <2> QED BY <1>4, <1>8, <2>1, <2>3, <2>4, <2>5, Locally
<1>12. Agreement'
  BY <1>11 DEF Agreement
<1> QED BY <1>9, <1>10, <1>12 DEF RulesInv

(* The drawer alone: whatever it is opened on, its form fits.                *)
LEMMA DrawerInv ==
    ASSUME RulesInv,
           \/ \E r \in Rules \cup {New} : OpenDrawer(r)
           \/ TypeInForm \/ CloseDrawer
    PROVE  RulesInv'
<1>1. /\ RuleTypes /\ TextsKept /\ Agreement
      /\ UNCHANGED <<table, rules, requests, tangled, load>>
      /\ rules \in RuleLists /\ New \notin Rules
      /\ drawer \in [open : BOOLEAN, initial : Rules \cup {New}, form : Bodies]
      /\ drawer.form.text \in {""} \cup Typed(drawer.initial)
      /\ OwnText(rules)
  BY AlertsAssumption
  DEF RulesInv, RuleTypes, TextsKept, OpenDrawer, TypeInForm, CloseDrawer, New
<1>2. /\ drawer' \in [open : BOOLEAN, initial : Rules \cup {New}, form : Bodies]
      /\ drawer'.form.text \in {""} \cup Typed(drawer'.initial)
  <2>1. ASSUME NEW r \in Rules \cup {New}, OpenDrawer(r)
        PROVE  /\ drawer' \in [open : BOOLEAN, initial : Rules \cup {New}, form : Bodies]
               /\ drawer'.form.text \in {""} \cup Typed(drawer'.initial)
    <3>1. PICK form \in Forms(r) : drawer' = [open |-> TRUE, initial |-> r, form |-> form]
      BY <2>1 DEF OpenDrawer
    <3>2. r # New => r \in DOMAIN rules /\ r \in Rules
      BY <2>1 DEF OpenDrawer
    <3>3. form = FilledForm(r) \/ (form = drawer.form /\ r = drawer.initial)
      BY DEF Forms
    <3>4. form \in Bodies /\ form.text \in {""} \cup Typed(r)
      <4>1. CASE form = drawer.form /\ r = drawer.initial
        BY <1>1, <4>1
      <4>2. CASE form = FilledForm(r) /\ r = New
        BY <4>2 DEF FilledForm, DefaultForm, Bodies
      <4>3. CASE form = FilledForm(r) /\ r # New
        <5>1. form = rules[r]
          BY <4>3 DEF FilledForm
        <5>2. rules[r] \in Bodies
          BY <1>1, <3>2, <4>3, ARuleList
        <5>3. rules[r].text \in Typed(r)
          BY <1>1, <3>2, <4>3 DEF OwnText, Typed
        <5> QED BY <3>2, <4>3, <5>1, <5>2, <5>3
      <4> QED BY <3>3, <4>1, <4>2, <4>3
    <3> QED BY <3>1, <3>4
  <2>2. CASE TypeInForm
    <3>1. PICK e \in BOOLEAN : drawer' =
             [drawer EXCEPT !.form = [text |-> Tag(drawer.initial), enabled |-> e]]
      BY <2>2 DEF TypeInForm
    <3>2. PICK form : form = [text |-> Tag(drawer.initial), enabled |-> e]
      OBVIOUS
    <3>3. form \in Bodies /\ form.text \in {""} \cup Typed(drawer.initial)
      BY <1>1, <3>2 DEF Tag, Bodies, Typed, Texts
    <3> QED BY <1>1, <3>1, <3>2, <3>3
  <2>3. CASE CloseDrawer
    BY <1>1, <2>3 DEF CloseDrawer
  <2> QED BY <2>1, <2>2, <2>3
<1>3. RuleTypes'
  BY <1>1, <1>2 DEF RuleTypes, LoadShape
<1>4. TextsKept'
  BY <1>1, <1>2 DEF TextsKept, OwnText
<1>5. UnderWay' = UnderWay
  BY <1>1 DEF UnderWay
<1>6. Agreement'
  <2>1. ASSUME Underways PROVE Underways'
    BY <1>1, <1>5, <2>1 DEF Underways, Agrees, Same
  <2>2. ASSUME OneByOne, Others PROVE OneByOne' /\ Others'
    BY <1>1, <1>5, <2>2 DEF OneByOne, Others, Same
  <2> QED BY <1>1, <2>1, <2>2 DEF Agreement
<1> QED BY <1>3, <1>4, <1>6 DEF RulesInv

(* Before the load nothing was asked for: what it shows is the table.        *)
LEMMA LoadRules == ASSUME RulesInv, LoadStep PROVE RulesInv'
<1>6. /\ load.st = "asked" /\ UNCHANGED <<table, drawer, requests, tangled>>
  BY DEF LoadStep, LoadReadsAlerts, LoadReadsRules, LoadShows, LoadFails, ruleVars
<1>1. /\ RuleTypes /\ TextsKept /\ Agreement /\ load.st = "asked" /\ LoadShape
      /\ UNCHANGED <<table, drawer, requests, tangled>>
      /\ table \in RuleLists /\ OwnText(table) /\ rules \in RuleLists /\ OwnText(rules)
      /\ load.rules.got => load.rules.rows \in RuleLists /\ OwnText(load.rules.rows)
  BY <1>6 DEF RulesInv, RuleTypes, TextsKept
<1>2. ~tangled => requests = << >> /\ (load.rules.got => load.rules.rows = table)
  BY <1>1 DEF Agreement
<1>3. CASE LoadReadsAlerts \/ LoadFails
  <2>1. /\ LoadShape' /\ load'.st \in {"asked", "failed"} /\ rules' = rules
        /\ load'.rules.got => load'.rules = load.rules
    <3>1. CASE LoadReadsAlerts
      <4> DEFINE a == [got |-> TRUE, rows |-> [b \in Newest |-> Row(b)]]
      <4>1. load' = [load EXCEPT !.alerts = a] /\ a.got = TRUE
        BY <3>1 DEF LoadReadsAlerts
      <4> HIDE DEF a
      <4>2. load' = [st |-> load.st, alerts |-> a, rules |-> load.rules]
        BY <1>1, <4>1 DEF LoadShape
      <4>3. LoadShape'
        BY <1>1, <4>1, <4>2 DEF LoadShape
      <4> QED BY <1>1, <3>1, <4>2, <4>3 DEF LoadReadsAlerts, ruleVars
    <3>2. CASE LoadFails
      BY <3>2 DEF LoadFails, LoadShape, NoAnswer
    <3> QED BY <1>3, <3>1, <3>2
  <2>2. RuleTypes'
    BY <1>1, <2>1 DEF RuleTypes
  <2>3. TextsKept'
    BY <1>1, <2>1 DEF TextsKept, OwnText
  <2>4. Agreement'
    BY <1>1, <1>2, <2>1 DEF Agreement
  <2> QED BY <2>2, <2>3, <2>4 DEF RulesInv
<1>4. CASE LoadReadsRules
  <2>1. /\ LoadShape' /\ load'.st = "asked" /\ rules' = rules
        /\ load'.rules.rows = table /\ load'.rules.got
    BY <1>1, <1>4 DEF LoadReadsRules, LoadShape, ruleVars
  <2>2. RuleTypes'
    BY <1>1, <2>1 DEF RuleTypes
  <2>3. TextsKept'
    BY <1>1, <2>1 DEF TextsKept, OwnText
  <2>4. Agreement'
    BY <1>1, <1>2, <2>1 DEF Agreement
  <2> QED BY <2>2, <2>3, <2>4 DEF RulesInv
<1>5. CASE LoadShows
  <2>1. /\ LoadShape' /\ load'.st = "done" /\ ~load'.rules.got
        /\ rules' = load.rules.rows /\ load.rules.got
    BY <1>5 DEF LoadShows, LoadShape, NoAnswer
  <2>2. RuleTypes'
    BY <1>1, <2>1 DEF RuleTypes
  <2>3. TextsKept'
    BY <1>1, <2>1 DEF TextsKept, OwnText
  <2>4. ASSUME ~tangled PROVE Agreement'
    <3>1. rules' = table' /\ requests' = << >>
      BY <1>1, <1>2, <2>1, <2>4
    <3>2. UnderWay' = {}
      BY <3>1 DEF UnderWay
    <3> QED BY <2>1, <3>1, <3>2 DEF Agreement, OneByOne, Underways, Others, Same
  <2>5. tangled => Agreement'
    BY <1>1 DEF Agreement
  <2> QED BY <2>2, <2>3, <2>4, <2>5 DEF RulesInv
<1> QED BY <1>3, <1>4, <1>5 DEF LoadStep

LEMMA RulesStep == ASSUME RulesInv, RulesNext PROVE RulesInv'
  BY LoadRules, ToggleInv, DeleteInv, DrawerInv, SubmitInv, ServeInv, RequestFailsInv,
     AnswerOkInv, AnswerErrorInv
  DEF RulesNext

(* The list of alerts has no part in the rules' steps, nor the rules in the  *)
(* steps of the list.                                                        *)
LEMMA RulesLeaveList == ASSUME ListInv, RulesNext PROVE ListInv'
<1>1. CASE LoadStep
  BY <1>1, LoadList
<1>2. CASE UNCHANGED <<load, stage, alerts, missed, socket, wire>>
  <2>1. /\ \A a \in Alerts : Row(a)' = Row(a) /\ (Due(a)' <=> Due(a))
        /\ ListTypes'
    BY <1>2 DEF ListInv, ListTypes, LoadShape, Row, Due, Pending
  <2>2. ListShown'
    BY <1>2, <2>1, ListKept DEF Shows
  <2>3. LastIsNews'
    BY <1>2 DEF ListInv, LastIsNews, Row
  <2> QED BY <2>1, <2>2, <2>3 DEF ListInv
<1> QED BY <1>1, <1>2 DEF RulesNext, HandleToggleRule, HandleDeleteRule, OpenDrawer, TypeInForm,
           CloseDrawer, HandleSubmit, Serve, RequestFails, AnswerOk, AnswerError, Ask, listVars,
           liveVars

LEMMA ListLeavesRules == ASSUME RulesInv, AlertsNext PROVE RulesInv'
<1>1. CASE LoadStep
  BY <1>1, LoadRules
<1>2. CASE UNCHANGED <<load, table, rules, drawer, requests, tangled>>
  <2>1. UnderWay' = UnderWay
    BY <1>2 DEF UnderWay
  <2>2. RuleTypes' /\ TextsKept'
    BY <1>2 DEF RulesInv, RuleTypes, LoadShape, TextsKept, OwnText, OwnRequest
  <2>3. Agreement'
    BY <1>2, <2>1 DEF RulesInv, Agreement, OneByOne, Underways, Others, Agrees, Same
  <2> QED BY <2>2, <2>3 DEF RulesInv
<1> QED BY <1>1, <1>2 DEF AlertsNext, EngineStores, EnginePublishes, AlertEvent,
           SocketStepOfAlerts, ruleVars

-----------------------------------------------------------------------------
(* The console. *)

ConsoleInv ==
    /\ page \in {"alerts", "rules", "header", "panels"}
    /\ page \in {"alerts", "rules"} => ListInv
    /\ page \in {"header", "panels"} => wire \in Seq(DeviceEvents) /\ load.st = "asked"
    /\ RulesInv /\ DeviceInv

LEMMA OtherPageRules == ASSUME RulesInv, UNCHANGED alertsVars PROVE RulesInv'
<1>1. UNCHANGED <<load, table, rules, drawer, requests, tangled>>
  BY DEF alertsVars
<1>2. UnderWay' = UnderWay
  BY <1>1 DEF UnderWay
<1>3. RuleTypes' /\ TextsKept'
  BY <1>1 DEF RulesInv, RuleTypes, LoadShape, TextsKept, OwnText, OwnRequest
<1>4. Agreement'
  BY <1>1, <1>2 DEF RulesInv, Agreement, OneByOne, Underways, Others, Agrees, Same
<1> QED BY <1>3, <1>4 DEF RulesInv

LEMMA OtherPageDevice == ASSUME DeviceInv, UNCHANGED deviceVars PROVE DeviceInv'
  BY DEF deviceVars, DeviceInv, DeviceTypes, Answers, CurrentIsSelected, MountIsSelected,
     FormIsVersion, ShownIsSelected, PanelsBelong, NothingPutBack

LEMMA OtherPageList == ASSUME ListInv, UNCHANGED <<liveVars, alertsVars>> PROVE ListInv'
<1>1. UNCHANGED <<load, stage, alerts, missed, socket, wire>>
  BY DEF liveVars, alertsVars
<1>2. /\ \A a \in Alerts : Row(a)' = Row(a) /\ (Due(a)' <=> Due(a))
      /\ ListTypes'
  BY <1>1 DEF ListInv, ListTypes, LoadShape, Row, Due, Pending
<1>3. ListShown'
  BY <1>1, <1>2, ListKept DEF Shows
<1>4. LastIsNews'
  BY <1>1 DEF ListInv, LastIsNews, Row
<1> QED BY <1>2, <1>3, <1>4 DEF ListInv

LEMMA InitConsole == ConsoleInit => ConsoleInv
<1> SUFFICES ASSUME ConsoleInit PROVE ConsoleInv
  OBVIOUS
<1>1. ListInv /\ RulesInv /\ DeviceInv
  BY InitList, InitRules, InitDevice DEF ConsoleInit
<1>2. load.st = "asked" /\ wire = << >>
  BY DEF ConsoleInit, AlertsInit, LiveInit
<1>3. wire \in Seq(DeviceEvents)
  BY <1>2, EmptySeq
<1> QED BY <1>1, <1>2, <1>3 DEF ConsoleInit, ConsoleInv

LEMMA ConsoleStep == ASSUME ConsoleInv, [ConsoleNext]_consoleVars PROVE ConsoleInv'
<1>1. page' = page /\ RulesInv /\ DeviceInv
  BY DEF ConsoleNext, consoleVars, ConsoleInv
<1>2. CASE page = "alerts" /\ AlertsNext /\ UNCHANGED deviceVars
  BY <1>1, <1>2, AlertsStep, ListLeavesRules, OtherPageDevice DEF ConsoleInv
<1>3. CASE page = "rules" /\ RulesNext /\ UNCHANGED deviceVars
  BY <1>1, <1>3, RulesStep, RulesLeaveList, OtherPageDevice DEF ConsoleInv
<1>4. CASE page \in {"header", "panels"} /\ (HeaderNext \/ PanelsNext) /\ UNCHANGED alertsVars
  <2>1. wire \in Seq(DeviceEvents) /\ load.st = "asked" /\ load' = load
    BY <1>4 DEF ConsoleInv, alertsVars
  <2>2. DeviceInv' /\ wire' \in Seq(DeviceEvents) /\ RulesInv'
    BY <1>1, <1>4, <2>1, DeviceStep, OtherPageRules
  <2> QED BY <1>1, <1>4, <2>1, <2>2 DEF ConsoleInv
<1>5. CASE UNCHANGED consoleVars
  <2>1. RulesInv' /\ DeviceInv' /\ UNCHANGED <<liveVars, alertsVars>>
    BY <1>1, <1>5, OtherPageRules, OtherPageDevice DEF consoleVars
  <2>2. wire' = wire /\ load' = load
    BY <2>1 DEF liveVars, alertsVars
  <2> QED BY <1>1, <2>1, <2>2, OtherPageList DEF ConsoleInv
<1> QED BY <1>2, <1>3, <1>4, <1>5 DEF ConsoleNext

(* What the three parts of the two pages maintain together: each is typed and *)
(* consistent with its requests under way, and a step of one leaves the       *)
(* others as they are.                                                        *)
THEOREM ConsoleInvariant == Spec => []ConsoleInv
<1> QED BY InitConsole, ConsoleStep, PTL DEF Spec

(* The list of open alerts: whatever the engine does while the page loads    *)
(* and however events and answers cross, once loaded and with nothing on its *)
(* way the list shows every alert as it is, except, until its next event, one *)
(* that was not among the newest PageSize rows at the load, or whose last    *)
(* event found no socket or was overwritten by the load's answer.            *)
THEOREM AlertsAreShown == Spec => []AlertsShown
<1>1. ConsoleInv => AlertsShown
  BY DEF ConsoleInv, ListInv, ListShown, Due, Shows, AlertsShown
<1> QED BY <1>1, ConsoleInvariant, PTL

(* Optimistic switches, deletions and saves come out as the table is, for    *)
(* any number of requests served and answered in any order, with any of them *)
(* failing.                                                                  *)
THEOREM OptimismSettles == Spec => []RulesSettle
<1>1. ASSUME ConsoleInv PROVE RulesSettle
  <2> SUFFICES ASSUME load.st = "done", UnderWay = {}, ~tangled PROVE rules = table
    BY DEF RulesSettle
  <2>1. Others /\ table \in RuleLists /\ rules \in RuleLists
    BY <1>1 DEF ConsoleInv, RulesInv, RuleTypes, Agreement
  <2>2. \A r \in Rules : Same(r)
    BY <2>1 DEF Others
  <2>3. /\ rules = [r \in DOMAIN rules |-> rules[r]] /\ DOMAIN rules \subseteq Rules
        /\ table = [r \in DOMAIN table |-> table[r]] /\ DOMAIN table \subseteq Rules
    BY <2>1, ARuleList
  <2>4. DOMAIN rules = DOMAIN table
    BY <2>2, <2>3 DEF Same
  <2>5. \A r \in DOMAIN table : rules[r] = table[r]
    BY <2>2, <2>3 DEF Same
  <2> QED BY <2>3, <2>4, <2>5
<1> QED BY <1>1, ConsoleInvariant, PTL

(* Types of the rules, in the table and in the list, and of the drawer.      *)
THEOREM RuleTypesCorrect == Spec => []AlertsTypeOK
<1>1. ConsoleInv => AlertsTypeOK
  BY ARuleList DEF ConsoleInv, RulesInv, RuleTypes, AlertsTypeOK
<1> QED BY <1>1, ConsoleInvariant, PTL

(* No sequence of opening, leaving and submitting the drawer puts the text   *)
(* of one rule into another, or a new rule's into one that was there before. *)
THEOREM TextsBelong == Spec => []TextBelongs
<1>1. ConsoleInv => TextBelongs
  BY DEF ConsoleInv, RulesInv, TextsKept, OwnText, TextBelongs
<1> QED BY <1>1, ConsoleInvariant, PTL

(* What the device page shows once loaded is about the device and range      *)
(* selected, whatever answers for those left behind still come.              *)
THEOREM ShownAreSelected == Spec => []ShownIsSelected
<1>1. ConsoleInv => ShownIsSelected
  BY DEF ConsoleInv, DeviceInv
<1> QED BY <1>1, ConsoleInvariant, PTL

(* The panels never hold what belongs to another device than the selected.   *)
THEOREM PanelsAreTheirs == Spec => []PanelsBelong
<1>1. ConsoleInv => PanelsBelong
  BY DEF ConsoleInv, DeviceInv
<1> QED BY <1>1, ConsoleInvariant, PTL

(* A patch sends the whole form and still never takes back another client's  *)
(* edit: the version it is accepted for is the one its form was filled from. *)
THEOREM NothingIsPutBack == Spec => []NothingPutBack
<1>1. ConsoleInv => NothingPutBack
  BY DEF ConsoleInv, DeviceInv
<1> QED BY <1>1, ConsoleInvariant, PTL

-----------------------------------------------------------------------------
(* The fleet. *)

StatusEvents == [dev : FleetDevices, n : Nat]
StatusUpdates == [dev : FleetDevices, n : Nat, stored : BOOLEAN]

(* Of the devices whose updates did not overlap or fail, the table is not    *)
(* behind a list of statuses, nor behind an event.                           *)
UpTo(f) ==
    \A d \in DOMAIN f : /\ d \in DOMAIN column /\ f[d] \in Nat
                        /\ d \notin raced => f[d] <= column[d]
Told(e) == e.dev \in DOMAIN column /\ (e.dev \notin raced => e.n <= column[e.dev])

ColumnInv ==
    /\ arrived \in Nat
    /\ \A d \in DOMAIN column : d \in FleetDevices /\ column[d] \in Nat /\ column[d] <= arrived

(* One update of a device runs at a time, and moves its status forward.      *)
UpdatesInv ==
    /\ updates \subseteq StatusUpdates
    /\ \A u \in updates :
          /\ u.dev \in DOMAIN column /\ u.n <= arrived
          /\ u.dev \notin raced =>
                IF u.stored THEN u.n <= column[u.dev] ELSE column[u.dev] <= u.n
    /\ \A u, v \in updates : u.dev = v.dev /\ u.dev \notin raced => u = v

WireInv ==
    /\ wire \in Seq(StatusEvents)
    /\ \A i \in 1 .. Len(wire) : Told(wire[i])

PollOk(q) ==
    /\ q.st # "idle" => UpTo(q.seen)
    /\ q.st = "read" =>
          /\ UpTo(q.rows)
          /\ \A d \in DOMAIN q.seen : /\ d \in DOMAIN q.rows
                                      /\ d \notin raced => q.seen[d] <= q.rows[d]

PollsInv == DOMAIN polls = Polls /\ \A p \in Polls : PollOk(polls[p])

FleetInv == ColumnInv /\ UpdatesInv /\ WireInv /\ UpTo(devices) /\ PollsInv

LEMMA InitFleet == Init => FleetInv
<1> SUFFICES ASSUME Init PROVE FleetInv
  OBVIOUS
<1>1. ColumnInv
  BY FleetAssumption DEF Init, FleetInit, ColumnInv
<1>2. UpdatesInv
  BY DEF Init, FleetInit, UpdatesInv
<1>3. wire = << >>
  BY DEF Init, LiveInit
<1>4. wire \in Seq(StatusEvents) /\ Len(wire) = 0
  BY <1>3, EmptySeq
<1>5. WireInv
  BY <1>4 DEF WireInv
<1>6. UpTo(devices)
  BY DEF Init, FleetInit, NoneListed, UpTo
<1>7. DOMAIN polls = Polls /\ \A p \in Polls : polls[p].st = "idle"
  BY DEF Init, FleetInit, Idle
<1>8. PollsInv
  BY <1>7 DEF PollsInv, PollOk
<1> QED BY <1>1, <1>2, <1>5, <1>6, <1>8 DEF FleetInv

(* The table moves forward, but for the devices that are left out.           *)
Forward ==
    /\ raced \subseteq raced'
    /\ \A d \in DOMAIN column :
          /\ d \in DOMAIN column'
          /\ d \notin raced' => column[d] <= column'[d]

LEMMA ForwardKeeps ==
    ASSUME ColumnInv, ColumnInv', Forward
    PROVE  /\ \A f : UpTo(f) => UpTo(f)'
           /\ \A e \in StatusEvents : Told(e) => Told(e)'
           /\ \A q : PollOk(q) => PollOk(q)'
<1>1. \A f : UpTo(f) => UpTo(f)'
  <2> SUFFICES ASSUME NEW f, UpTo(f), NEW d \in DOMAIN f
               PROVE  /\ d \in DOMAIN column' /\ f[d] \in Nat
                      /\ d \notin raced' => f[d] <= column'[d]
    BY DEF UpTo
  <2>1. d \in DOMAIN column /\ f[d] \in Nat /\ (d \notin raced => f[d] <= column[d])
    BY DEF UpTo
  <2> QED BY <2>1 DEF Forward, ColumnInv
<1>2. \A e \in StatusEvents : Told(e) => Told(e)'
  BY DEF StatusEvents, Told, Forward, ColumnInv
<1>3. ASSUME NEW q, PollOk(q) PROVE PollOk(q)'
  <2>1. q.st # "idle" => UpTo(q.seen)'
    BY <1>1, <1>3 DEF PollOk
  <2>2. q.st = "read" => UpTo(q.rows)'
    BY <1>1, <1>3 DEF PollOk
  <2> QED BY <1>3, <2>1, <2>2 DEF PollOk, Forward
<1> QED BY <1>1, <1>2, <1>3

(* What a step leaves alone stays right.                                     *)
LEMMA Untouched ==
    ASSUME FleetInv, ColumnInv', Forward
    PROVE  /\ wire' = wire => WireInv'
           /\ devices' = devices => UpTo(devices)'
           /\ polls' = polls => PollsInv'
<1>1. ColumnInv /\ WireInv /\ UpTo(devices) /\ PollsInv
  BY DEF FleetInv
<1>2. ASSUME wire' = wire PROVE WireInv'
  <2>1. \A i \in 1 .. Len(wire) : wire[i] \in StatusEvents /\ Told(wire[i])
    BY <1>1 DEF WireInv
  <2>2. ASSUME NEW i \in 1 .. Len(wire'), NEW e, e = wire'[i] PROVE Told(e)'
    BY <1>1, <1>2, <2>1, <2>2, ForwardKeeps
  <2>3. \A i \in 1 .. Len(wire') : Told(wire[i])'
    BY <1>2, <2>2 DEF Told
  <2> QED BY <1>1, <1>2, <2>3 DEF WireInv
<1>3. ASSUME devices' = devices PROVE UpTo(devices)'
  <2> PICK f : f = devices
    OBVIOUS
  <2>1. UpTo(f)
    BY <1>1 DEF UpTo
  <2>2. UpTo(f)'
    BY <1>1, <2>1, ForwardKeeps
  <2> QED BY <1>3, <2>2 DEF UpTo
<1>4. ASSUME polls' = polls PROVE PollsInv'
  <2>1. ASSUME NEW p \in Polls PROVE PollOk(polls[p])'
    <3> PICK q : q = polls[p]
      OBVIOUS
    <3>1. PollOk(q)
      BY <1>1 DEF PollsInv
    <3>2. PollOk(q)'
      BY <1>1, <3>1, ForwardKeeps
    <3> QED BY <1>4, <3>2 DEF PollOk, UpTo
  <2> QED BY <1>1, <1>4, <2>1 DEF PollsInv
<1> QED BY <1>2, <1>3, <1>4

LEMMA ProvisionInv == ASSUME FleetInv, NEW d \in FleetDevices, Provision(d) PROVE FleetInv'
<1>1. /\ ColumnInv /\ UpdatesInv /\ d \notin DOMAIN column
      /\ UNCHANGED <<arrived, updates, raced, devices, polls, wire>>
      /\ column' = [e \in DOMAIN column \cup {d} |-> IF e = d THEN 0 ELSE column[e]]
  BY DEF FleetInv, Provision, liveVars
<1>2. /\ \A e : e \in DOMAIN column' <=> e \in DOMAIN column \/ e = d
      /\ column'[d] = 0 /\ \A e \in DOMAIN column : column'[e] = column[e]
  BY <1>1
<1>3. ColumnInv' /\ Forward
  BY <1>1, <1>2 DEF ColumnInv, Forward
<1>4. UpdatesInv'
  BY <1>1, <1>2 DEF UpdatesInv
<1> QED BY <1>1, <1>3, <1>4, Untouched DEF FleetInv

(* A status is newer than what the table holds.                              *)
LEMMA StatusArrivesInv ==
    ASSUME FleetInv, NEW d \in FleetDevices, StatusArrives(d) PROVE FleetInv'
<1>1. /\ ColumnInv /\ UpdatesInv /\ d \in DOMAIN column
      /\ UNCHANGED <<column, devices, polls, wire>> /\ arrived' = arrived + 1
      /\ updates' = updates \cup {[dev |-> d, n |-> arrived + 1, stored |-> FALSE]}
      /\ raced' = IF Awaiting(d) = {} THEN raced ELSE raced \cup {d}
  BY DEF FleetInv, StatusArrives, liveVars
<1>2. PICK u : u = [dev |-> d, n |-> arrived + 1, stored |-> FALSE]
  OBVIOUS
<1>3. /\ arrived \in Nat /\ column[d] \in Nat /\ column[d] <= arrived
      /\ u \in StatusUpdates /\ u.dev = d /\ u.n = arrived + 1 /\ u.stored = FALSE
      /\ updates' = updates \cup {u} /\ raced \subseteq raced'
      /\ d \notin raced' => \A v \in updates : v.dev # d
  BY <1>1, <1>2 DEF ColumnInv, StatusUpdates, Awaiting
<1>4. ColumnInv' /\ Forward
  BY <1>1, <1>3 DEF ColumnInv, Forward
<1>5. UpdatesInv'
  <2>1. updates' \subseteq StatusUpdates
    BY <1>1, <1>3 DEF UpdatesInv
  <2>2. ASSUME NEW v \in updates'
        PROVE  /\ v.dev \in DOMAIN column' /\ v.n <= arrived'
               /\ v.dev \notin raced' =>
                     IF v.stored THEN v.n <= column'[v.dev] ELSE column'[v.dev] <= v.n
    <3>1. CASE v \in updates
      <4>1. v \in StatusUpdates
        BY <1>1, <3>1 DEF UpdatesInv
      <4> QED BY <1>1, <1>3, <3>1, <4>1 DEF UpdatesInv, StatusUpdates
    <3>2. CASE v = u
      BY <1>1, <1>3, <3>2
    <3> QED BY <1>3, <3>1, <3>2
  <2>3. \A v, w \in updates' : v.dev = w.dev /\ v.dev \notin raced' => v = w
    BY <1>1, <1>3 DEF UpdatesInv
  <2> QED BY <2>1, <2>2, <2>3 DEF UpdatesInv
<1> QED BY <1>1, <1>4, <1>5, Untouched DEF FleetInv

LEMMA UpdateRunsInv == ASSUME FleetInv, NEW u \in updates, UpdateRuns(u) PROVE FleetInv'
<1>1. /\ ColumnInv /\ UpdatesInv /\ ~u.stored
      /\ UNCHANGED <<arrived, raced, devices, polls, wire>>
      /\ column' = [column EXCEPT ![u.dev] = u.n]
      /\ updates' = (updates \ {u}) \cup {[u EXCEPT !.stored = TRUE]}
  BY DEF FleetInv, UpdateRuns, liveVars
<1>2. PICK v : v = [u EXCEPT !.stored = TRUE]
  OBVIOUS
<1>3. /\ u \in StatusUpdates /\ u.dev \in DOMAIN column /\ u.n <= arrived /\ u.n \in Nat
      /\ u.dev \notin raced => column[u.dev] <= u.n
  BY <1>1 DEF UpdatesInv, StatusUpdates
<1>4. /\ v \in StatusUpdates /\ v.dev = u.dev /\ v.n = u.n /\ v.stored = TRUE
      /\ updates' = (updates \ {u}) \cup {v}
  BY <1>1, <1>2, <1>3 DEF StatusUpdates
<1>5. /\ \A d : d \in DOMAIN column' <=> d \in DOMAIN column
      /\ column'[u.dev] = u.n /\ \A d \in DOMAIN column : d # u.dev => column'[d] = column[d]
  BY <1>1, <1>3
<1>6. ColumnInv' /\ Forward
  BY <1>1, <1>3, <1>5 DEF ColumnInv, Forward
<1>7. UpdatesInv'
  <2>1. updates' \subseteq StatusUpdates
    BY <1>1, <1>4 DEF UpdatesInv
  <2>2. ASSUME NEW w \in updates'
        PROVE  /\ w.dev \in DOMAIN column' /\ w.n <= arrived'
               /\ w.dev \notin raced' =>
                     IF w.stored THEN w.n <= column'[w.dev] ELSE column'[w.dev] <= w.n
    <3>1. CASE w = v
      BY <1>1, <1>3, <1>4, <1>5, <3>1 DEF ColumnInv
    <3>2. CASE w \in updates /\ w # u
      <4>1. w.dev \notin raced => w.dev # u.dev
        BY <1>1, <3>2 DEF UpdatesInv
      <4> QED BY <1>1, <1>5, <3>2, <4>1 DEF UpdatesInv
    <3> QED BY <1>4, <3>1, <3>2
  <2>3. \A w, z \in updates' : w.dev = z.dev /\ w.dev \notin raced' => w = z
    BY <1>1, <1>4 DEF UpdatesInv
  <2> QED BY <2>1, <2>2, <2>3 DEF UpdatesInv
<1> QED BY <1>1, <1>6, <1>7, Untouched DEF FleetInv

LEMMA UpdateFailsInv == ASSUME FleetInv, NEW u \in updates, UpdateFails(u) PROVE FleetInv'
<1>1. /\ ColumnInv /\ UpdatesInv /\ UNCHANGED <<column, arrived, devices, polls, wire>>
      /\ updates' \subseteq updates /\ raced \subseteq raced'
  BY DEF FleetInv, UpdateFails, liveVars
<1>2. ColumnInv' /\ Forward
  BY <1>1 DEF ColumnInv, Forward
<1>3. UpdatesInv'
  BY <1>1 DEF UpdatesInv
<1> QED BY <1>1, <1>2, <1>3, Untouched DEF FleetInv

(* Only a status that is stored is told.                                     *)
LEMMA UpdateAnsweredInv ==
    ASSUME FleetInv, NEW u \in updates, UpdateAnswered(u) PROVE FleetInv'
<1>1. /\ ColumnInv /\ UpdatesInv /\ WireInv /\ u.stored
      /\ UNCHANGED <<column, arrived, raced, devices, polls>>
      /\ updates' = updates \ {u} /\ Publish([dev |-> u.dev, n |-> u.n])
  BY DEF FleetInv, UpdateAnswered
<1>2. ColumnInv' /\ Forward
  BY <1>1 DEF ColumnInv, Forward
<1>3. UpdatesInv'
  BY <1>1 DEF UpdatesInv
<1>4. PICK e : e = [dev |-> u.dev, n |-> u.n]
  OBVIOUS
<1>5. e \in StatusEvents /\ Told(e)
  BY <1>1, <1>4 DEF UpdatesInv, StatusUpdates, StatusEvents, Told
<1>6. wire' = Append(wire, e) \/ wire' = wire
  BY <1>1, <1>4 DEF Publish, Published
<1>7. WireInv'
  <2>1. CASE wire' = Append(wire, e)
    <3>1. /\ wire' \in Seq(StatusEvents) /\ Len(wire') = Len(wire) + 1 /\ Len(wire) \in Nat
          /\ wire'[Len(wire) + 1] = e /\ \A i \in 1 .. Len(wire) : wire'[i] = wire[i]
      BY <1>1, <1>5, <2>1 DEF WireInv
    <3>2. ASSUME NEW i \in 1 .. Len(wire'), NEW f, f = wire'[i] PROVE Told(f)
      <4>1. CASE i = Len(wire) + 1
        BY <1>5, <3>1, <3>2, <4>1
      <4>2. CASE i # Len(wire) + 1
        <5>1. i \in 1 .. Len(wire) /\ f = wire[i]
          BY <3>1, <3>2, <4>2
        <5>2. Told(wire[i])
          BY <1>1, <5>1 DEF WireInv
        <5> QED BY <5>1, <5>2 DEF Told
      <4> QED BY <4>1, <4>2
    <3>3. \A i \in 1 .. Len(wire') : Told(wire[i])'
      BY <1>1, <3>2 DEF Told
    <3> QED BY <3>1, <3>3 DEF WireInv
  <2>2. CASE wire' = wire
    BY <1>2, <2>2, Untouched
  <2> QED BY <1>6, <2>1, <2>2
<1> QED BY <1>1, <1>2, <1>3, <1>7, Untouched DEF FleetInv

LEMMA PresenceInv == ASSUME FleetInv, PresenceEvent PROVE FleetInv'
<1>1. /\ ColumnInv /\ UpdatesInv /\ WireInv /\ UpTo(devices)
      /\ UNCHANGED <<column, arrived, updates, raced, polls>>
  BY DEF FleetInv, PresenceEvent
<1>2. PICK e : /\ wire # << >> /\ e = Head(wire) /\ wire' = Tail(wire)
               /\ devices' = IF e.dev \in DOMAIN devices
                             THEN [devices EXCEPT ![e.dev] = e.n] ELSE devices
  BY DEF PresenceEvent, Handle
<1>3. /\ Len(wire) \in Nat /\ 1 \in 1 .. Len(wire) /\ e = wire[1] /\ e \in StatusEvents
      /\ wire' \in Seq(StatusEvents)
      /\ \A i \in 1 .. Len(wire') : wire'[i] = wire[i + 1] /\ i + 1 \in 1 .. Len(wire)
  BY <1>1, <1>2 DEF WireInv
<1>4. ColumnInv' /\ Forward /\ UpdatesInv'
  BY <1>1 DEF ColumnInv, Forward, UpdatesInv
<1>5. Told(e)
  BY <1>1, <1>3 DEF WireInv, Told
<1>6. \A i \in 1 .. Len(wire') : Told(wire[i])'
  <2> SUFFICES ASSUME NEW i \in 1 .. Len(wire'), NEW f, f = wire'[i] PROVE Told(f)
    BY <1>1 DEF Told
  <2>1. f = wire[i + 1] /\ i + 1 \in 1 .. Len(wire)
    BY <1>3
  <2>2. Told(wire[i + 1])
    BY <1>1, <2>1 DEF WireInv
  <2> QED BY <2>1, <2>2 DEF Told
<1>7. WireInv'
  BY <1>3, <1>6 DEF WireInv
<1>8. UpTo(devices)'
  BY <1>1, <1>2, <1>3, <1>5 DEF UpTo, Told, StatusEvents
<1> QED BY <1>1, <1>4, <1>7, <1>8, Untouched DEF FleetInv

(* A refresh: what the view showed when it was sent is not ahead of the      *)
(* table it reads.                                                           *)
LEMMA PollInv ==
    ASSUME FleetInv, NEW p \in Polls,
           Poll(p) \/ PollReads(p) \/ PollShows(p) \/ PollFails(p)
    PROVE  FleetInv'
<1>1. /\ ColumnInv /\ UpdatesInv /\ WireInv /\ UpTo(devices) /\ PollsInv
      /\ UNCHANGED <<column, arrived, updates, raced, wire>>
  BY DEF FleetInv, Poll, PollReads, PollShows, PollFails, liveVars
<1>2. ColumnInv' /\ Forward /\ UpdatesInv'
  BY <1>1 DEF ColumnInv, Forward, UpdatesInv
<1>3. PICK o, f, c : o = polls[p] /\ f = devices /\ c = column
  OBVIOUS
<1>4. PollOk(o) /\ DOMAIN polls = Polls /\ UpTo(f) /\ UpTo(c)
  BY <1>1, <1>3 DEF PollsInv, UpTo, ColumnInv
<1>5. PICK q : polls' = [polls EXCEPT ![p] = q] /\ PollOk(q)
  <2>1. CASE Poll(p)
    <3>1. PICK q : q = [st |-> "asked", seen |-> f]
      OBVIOUS
    <3>2. polls' = [polls EXCEPT ![p] = q] /\ q.st = "asked" /\ q.seen = f
      BY <1>3, <2>1, <3>1 DEF Poll
    <3>3. PollOk(q)
      BY <1>4, <3>2 DEF PollOk
    <3> QED BY <3>2, <3>3
  <2>2. CASE PollReads(p)
    <3>1. PICK q : q = [st |-> "read", seen |-> o.seen, rows |-> c]
      OBVIOUS
    <3>2. polls' = [polls EXCEPT ![p] = q] /\ q.st = "read" /\ q.seen = o.seen /\ q.rows = c
      BY <1>3, <1>4, <2>2, <3>1 DEF PollReads
    <3>3. UpTo(q.seen)
      BY <1>3, <1>4, <2>2, <3>2 DEF PollReads, PollOk
    <3>4. \A d \in DOMAIN q.seen : /\ d \in DOMAIN q.rows
                                   /\ d \notin raced => q.seen[d] <= q.rows[d]
      BY <1>3, <3>2, <3>3 DEF UpTo
    <3>5. PollOk(q)
      BY <1>4, <3>2, <3>3, <3>4 DEF PollOk
    <3> QED BY <3>2, <3>5
  <2>3. CASE PollShows(p) \/ PollFails(p)
    <3>1. polls' = [polls EXCEPT ![p] = Idle] /\ PollOk(Idle)
      BY <2>3 DEF PollShows, PollFails, Idle, PollOk
    <3> QED BY <3>1
  <2> QED BY <2>1, <2>2, <2>3
<1>6. PollsInv'
  <2>1. DOMAIN polls' = Polls /\ polls'[p] = q /\ \A z \in Polls : z # p => polls'[z] = polls[z]
    BY <1>4, <1>5
  <2>2. ASSUME NEW z \in Polls, NEW w, w = polls'[z] PROVE PollOk(w)
    <3>1. CASE z = p
      BY <1>5, <2>1, <2>2, <3>1
    <3>2. CASE z # p
      <4>1. PollOk(polls[z]) /\ w = polls[z]
        BY <1>1, <2>1, <2>2, <3>2 DEF PollsInv
      <4> QED BY <4>1 DEF PollOk, UpTo
    <3> QED BY <3>1, <3>2
  <2>3. \A z \in Polls : PollOk(polls[z])'
    BY <1>1, <2>2 DEF PollOk, UpTo
  <2> QED BY <2>1, <2>3 DEF PollsInv
<1>7. UpTo(devices)'
  <2>1. CASE PollShows(p)
    <3>1. devices' = o.rows /\ UpTo(o.rows)
      BY <1>3, <1>4, <2>1 DEF PollShows, PollOk
    <3> QED BY <1>1, <3>1 DEF UpTo
  <2>2. CASE ~PollShows(p)
    <3>1. devices' = devices
      BY <2>2 DEF Poll, PollReads, PollFails
    <3> QED BY <1>1, <3>1 DEF UpTo
  <2> QED BY <2>1, <2>2
<1> QED BY <1>1, <1>2, <1>6, <1>7, Untouched DEF FleetInv

LEMMA FleetStep == ASSUME FleetInv, [FleetNext]_<<liveVars, fleetVars>> PROVE FleetInv'
<1>1. CASE UNCHANGED fleetVars /\ (wire' = wire \/ wire' = << >>)
  <2>1. /\ UNCHANGED <<column, arrived, updates, raced, devices, polls>>
        /\ ColumnInv /\ UpdatesInv
    BY <1>1 DEF FleetInv, fleetVars
  <2>2. ColumnInv' /\ Forward /\ UpdatesInv'
    BY <2>1 DEF ColumnInv, Forward, UpdatesInv
  <2>3. WireInv'
    <3>1. CASE wire' = << >>
      <4>1. wire' \in Seq(StatusEvents) /\ Len(wire') = 0
        BY <3>1, EmptySeq
      <4> QED BY <4>1 DEF WireInv
    <3>2. CASE wire' = wire
      BY <2>2, <3>2, Untouched
    <3> QED BY <1>1, <3>1, <3>2
  <2> QED BY <2>1, <2>2, <2>3, Untouched DEF FleetInv
<1>2. ASSUME SocketStep PROVE wire' = wire \/ wire' = << >>
  BY <1>2 DEF SocketStep, SocketOpens, SocketCloses, ReconnectFires
<1>3. CASE FleetNext
  BY <1>1, <1>2, <1>3, ProvisionInv, StatusArrivesInv, UpdateRunsInv, UpdateFailsInv,
     UpdateAnsweredInv, PresenceInv, PollInv
  DEF FleetNext
<1> QED BY <1>1, <1>3 DEF liveVars

(* A refresh of the fleet never takes a device back behind what the view     *)
(* showed when it was sent: an event is published only when its status is    *)
(* stored.                                                                   *)
THEOREM PollsAreNotBehind == FleetSpec => []PollNotBehind
<1>1. FleetInv => PollNotBehind
  <2> SUFFICES ASSUME FleetInv, NEW p \in Polls, polls[p].st = "read",
                      NEW d \in DOMAIN polls[p].seen \ raced
               PROVE  polls[p].rows[d] >= polls[p].seen[d]
    BY DEF PollNotBehind
  <2>1. PollOk(polls[p])
    BY DEF FleetInv, PollsInv
  <2> QED BY <2>1 DEF PollOk, UpTo
<1> QED BY <1>1, InitFleet, FleetStep, PTL DEF FleetSpec

(* The types of table, view and updates, the bounds of the counters in them. *)
Statuses == UNION {[S -> 0 .. MaxStatus] : S \in SUBSET FleetDevices}

FleetTypes ==
    /\ arrived \in 0 .. MaxStatus /\ raced \subseteq FleetDevices
    /\ column \in Statuses /\ devices \in Statuses
    /\ \A u \in updates : u.n \in 1 .. arrived
    /\ \A i \in 1 .. Len(wire) : wire[i].n \in 1 .. MaxStatus
    /\ \A p \in Polls : polls[p].st = "read" => polls[p].rows \in Statuses

LEMMA AStatusList ==
    ASSUME NEW f
    PROVE  f \in Statuses <=> /\ f = [d \in DOMAIN f |-> f[d]]
                              /\ \A d \in DOMAIN f : d \in FleetDevices /\ f[d] \in 0 .. MaxStatus
<1>1. ASSUME f \in Statuses
      PROVE  /\ f = [d \in DOMAIN f |-> f[d]]
             /\ \A d \in DOMAIN f : d \in FleetDevices /\ f[d] \in 0 .. MaxStatus
  <2>1. PICK S \in SUBSET FleetDevices : f \in [S -> 0 .. MaxStatus]
    BY <1>1 DEF Statuses
  <2> QED BY <2>1
<1>2. ASSUME f = [d \in DOMAIN f |-> f[d]],
             \A d \in DOMAIN f : d \in FleetDevices /\ f[d] \in 0 .. MaxStatus
      PROVE  f \in Statuses
  <2>1. f \in [DOMAIN f -> 0 .. MaxStatus] /\ DOMAIN f \in SUBSET FleetDevices
    BY <1>2
  <2> QED BY <2>1 DEF Statuses
<1> QED BY <1>1, <1>2

LEMMA OneStatus ==
    ASSUME NEW f \in Statuses, NEW d, NEW n \in 0 .. MaxStatus, NEW g, g = [f EXCEPT ![d] = n]
    PROVE  g \in Statuses
<1>1. /\ \A e \in DOMAIN f : e \in FleetDevices /\ f[e] \in 0 .. MaxStatus
      /\ DOMAIN g = DOMAIN f /\ g = [e \in DOMAIN g |-> g[e]]
      /\ \A e \in DOMAIN f : g[e] = n \/ g[e] = f[e]
  BY AStatusList
<1>2. \A e \in DOMAIN g : e \in FleetDevices /\ g[e] \in 0 .. MaxStatus
  BY <1>1
<1> QED BY <1>1, <1>2, AStatusList

LEMMA FleetTyped ==
    ASSUME FleetInv, FleetTypes, [FleetNext]_<<liveVars, fleetVars>> PROVE FleetTypes'
<1>1. /\ arrived \in 0 .. MaxStatus /\ raced \subseteq FleetDevices /\ MaxStatus \in Nat
      /\ column \in Statuses /\ devices \in Statuses /\ wire \in Seq(StatusEvents)
      /\ updates \subseteq StatusUpdates /\ DOMAIN polls = Polls
  BY FleetAssumption DEF FleetInv, FleetTypes, UpdatesInv, WireInv, PollsInv
<1>2. ASSUME NEW d \in FleetDevices, Provision(d) PROVE FleetTypes'
  <2>1. /\ column' = [e \in DOMAIN column \cup {d} |-> IF e = d THEN 0 ELSE column[e]]
        /\ UNCHANGED <<arrived, updates, raced, devices, polls, wire>>
    BY <1>2 DEF Provision, liveVars
  <2>2. \A e \in DOMAIN column : e \in FleetDevices /\ column[e] \in 0 .. MaxStatus
    BY <1>1, AStatusList
  <2>3. /\ column' = [e \in DOMAIN column' |-> column'[e]]
        /\ \A e \in DOMAIN column' : e \in FleetDevices /\ column'[e] \in 0 .. MaxStatus
    BY <1>1, <2>1, <2>2
  <2>4. column' \in Statuses
    BY <2>3, AStatusList
  <2> QED BY <2>1, <2>4 DEF FleetTypes
<1>3. ASSUME NEW d \in FleetDevices, StatusArrives(d) PROVE FleetTypes'
  <2> PICK u : u = [dev |-> d, n |-> arrived + 1, stored |-> FALSE]
    OBVIOUS
  <2>1. /\ arrived < MaxStatus /\ arrived' = arrived + 1
        /\ updates' = updates \cup {u} /\ u.n = arrived + 1
        /\ raced' \subseteq raced \cup {d}
        /\ UNCHANGED <<column, devices, polls, wire>>
    BY <1>3 DEF StatusArrives, liveVars
  <2>2. \A v \in updates' : v.n \in 1 .. arrived'
    BY <1>1, <2>1 DEF FleetTypes
  <2>3. arrived' \in 0 .. MaxStatus /\ raced' \subseteq FleetDevices
    BY <1>1, <2>1
  <2> QED BY <2>1, <2>2, <2>3 DEF FleetTypes
<1>4. ASSUME NEW u \in updates, UpdateRuns(u) PROVE FleetTypes'
  <2> PICK v : v = [u EXCEPT !.stored = TRUE]
    OBVIOUS
  <2>1. u \in StatusUpdates /\ u.n \in 1 .. arrived
    BY <1>1 DEF FleetTypes
  <2>2. v.n = u.n
    BY <2>1 DEF StatusUpdates
  <2>3. /\ column' = [column EXCEPT ![u.dev] = u.n]
        /\ updates' = (updates \ {u}) \cup {v}
        /\ UNCHANGED <<arrived, raced, devices, polls, wire>>
    BY <1>4 DEF UpdateRuns, liveVars
  <2>4. u.n \in 0 .. MaxStatus
    BY <1>1, <2>1
  <2>5. column' \in Statuses
    BY <1>1, <2>3, <2>4, OneStatus
  <2>6. \A w \in updates' : w.n \in 1 .. arrived'
    BY <2>1, <2>2, <2>3 DEF FleetTypes
  <2> QED BY <2>3, <2>5, <2>6 DEF FleetTypes
<1>5. ASSUME NEW u \in updates, UpdateFails(u) PROVE FleetTypes'
  <2>1. u.dev \in FleetDevices
    BY <1>1 DEF StatusUpdates
  <2> QED BY <1>5, <2>1 DEF UpdateFails, FleetTypes, liveVars
<1>6. ASSUME NEW u \in updates, UpdateAnswered(u) PROVE FleetTypes'
  <2> PICK e : e = [dev |-> u.dev, n |-> u.n]
    OBVIOUS
  <2>1. /\ updates' = updates \ {u} /\ (wire' = wire \/ wire' = Append(wire, e))
        /\ UNCHANGED <<column, arrived, raced, devices, polls>>
    BY <1>6 DEF UpdateAnswered, Publish, Published
  <2>2. e.n = u.n /\ u.n \in 1 .. arrived /\ e \in StatusEvents
    BY <1>1 DEF FleetTypes, StatusUpdates, StatusEvents
  <2>3. e.n \in 1 .. MaxStatus
    BY <1>1, <2>2
  <2>4. \A i \in 1 .. Len(wire') : wire'[i].n \in 1 .. MaxStatus
    <3>1. CASE wire' = Append(wire, e)
      <4>1. /\ Len(wire') = Len(wire) + 1 /\ wire'[Len(wire) + 1] = e /\ Len(wire) \in Nat
            /\ \A i \in 1 .. Len(wire) : wire'[i] = wire[i]
        BY <1>1, <2>2, <3>1
      <4> QED BY <2>3, <4>1 DEF FleetTypes
    <3>2. CASE wire' = wire
      BY <3>2 DEF FleetTypes
    <3> QED BY <2>1, <3>1, <3>2
  <2> QED BY <2>1, <2>4 DEF FleetTypes
<1>7. CASE PresenceEvent
  <2>1. PICK e : /\ wire # << >> /\ e = Head(wire) /\ wire' = Tail(wire)
                 /\ devices' = IF e.dev \in DOMAIN devices
                               THEN [devices EXCEPT ![e.dev] = e.n] ELSE devices
                 /\ UNCHANGED <<column, arrived, updates, raced, polls>>
    BY <1>7 DEF PresenceEvent, Handle
  <2>2. /\ Len(wire) \in Nat /\ 1 \in 1 .. Len(wire) /\ e = wire[1]
        /\ \A i \in 1 .. Len(wire') : wire'[i] = wire[i + 1] /\ i + 1 \in 1 .. Len(wire)
    BY <1>1, <2>1
  <2>3. e.n \in 0 .. MaxStatus
    BY <1>1, <2>2 DEF FleetTypes
  <2>4. devices' \in Statuses
    BY <1>1, <2>1, <2>3, OneStatus
  <2>5. \A i \in 1 .. Len(wire') : wire'[i].n \in 1 .. MaxStatus
    BY <2>2 DEF FleetTypes
  <2> QED BY <2>1, <2>4, <2>5 DEF FleetTypes
<1>8. ASSUME NEW p \in Polls, Poll(p) \/ PollReads(p) \/ PollShows(p) \/ PollFails(p)
      PROVE  FleetTypes'
  <2>1. UNCHANGED <<column, arrived, updates, raced, wire>>
    BY <1>8 DEF Poll, PollReads, PollShows, PollFails, liveVars
  <2>2. devices' = devices \/ (polls[p].st = "read" /\ devices' = polls[p].rows)
    BY <1>8 DEF Poll, PollReads, PollShows, PollFails
  <2>3. devices' \in Statuses
    BY <1>1, <2>2 DEF FleetTypes
  <2>4. PICK q : polls' = [polls EXCEPT ![p] = q] /\ (q.st = "read" => q.rows = column)
    BY <1>8 DEF Poll, PollReads, PollShows, PollFails, Idle
  <2>5. \A z \in Polls : polls'[z].st = "read" => polls'[z].rows \in Statuses
    BY <1>1, <2>4 DEF FleetTypes
  <2> QED BY <2>1, <2>3, <2>5 DEF FleetTypes
<1>9. CASE SocketStep /\ UNCHANGED fleetVars
  <2>1. wire' = wire \/ wire' = << >>
    BY <1>9 DEF SocketStep, SocketOpens, SocketCloses, ReconnectFires
  <2>2. \A i \in 1 .. Len(wire') : wire'[i].n \in 1 .. MaxStatus
    BY <1>1, <2>1 DEF FleetTypes
  <2> QED BY <1>9, <2>2 DEF FleetTypes, fleetVars
<1>10. CASE UNCHANGED <<liveVars, fleetVars>>
  BY <1>10 DEF FleetTypes, fleetVars, liveVars
<1> QED BY <1>2, <1>3, <1>4, <1>5, <1>6, <1>7, <1>8, <1>9, <1>10 DEF FleetNext

(* Types of the fleet's view and table; an update is of a device in the      *)
(* table and has a status that arrived.                                      *)
THEOREM FleetTypeCorrect == FleetSpec => []FleetTypeOK
<1>1. Init => FleetTypes
  <2> SUFFICES ASSUME Init PROVE FleetTypes
    OBVIOUS
  <2>1. /\ column = [d \in DOMAIN column |-> column[d]] /\ DOMAIN column = Provisioned
        /\ \A d \in Provisioned : column[d] = 0
    BY DEF Init, FleetInit
  <2>2. \A d \in DOMAIN column : d \in FleetDevices /\ column[d] \in 0 .. MaxStatus
    BY <2>1, FleetAssumption
  <2>3. column \in Statuses
    BY <2>1, <2>2, AStatusList
  <2>4. devices = [d \in DOMAIN devices |-> devices[d]] /\ DOMAIN devices = {}
    BY DEF Init, FleetInit, NoneListed
  <2>5. devices \in Statuses
    BY <2>4, AStatusList
  <2>6. /\ arrived = 0 /\ raced = {} /\ updates = {} /\ wire = << >>
        /\ \A p \in Polls : polls[p].st = "idle"
    BY DEF Init, FleetInit, LiveInit, Idle
  <2>7. \A i \in 1 .. Len(wire) : FALSE
    BY <2>6, EmptySeq
  <2> QED BY <2>3, <2>5, <2>6, <2>7, FleetAssumption DEF FleetTypes
<1>2. FleetInv /\ FleetTypes => FleetTypeOK
  BY DEF FleetInv, UpdatesInv, FleetTypes, FleetTypeOK, Statuses
<1> QED BY <1>1, <1>2, InitFleet, FleetStep, FleetTyped, PTL DEF FleetSpec
=============================================================================
