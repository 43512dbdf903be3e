----------------------------- MODULE AlertEngine ------------------------------
(***************************************************************************)
(* The alert state machine (apps/server/src/alerts/engine.ts, repo.ts): for *)
(* every accepted telemetry point evaluate() walks the rules that apply to  *)
(* the device, one at a time; firing and resolving await the database.      *)
(* Nothing keeps two evaluations of one device apart: index.ts starts one   *)
(* per point and does not wait for it, and even an evalOne that returns at  *)
(* once is awaited, so evaluations interleave between rules.                *)
(*                                                                          *)
(* `states` maps a key to a JavaScript object, and an evaluation that is    *)
(* suspended keeps the object it read.  Two evaluations may hold different  *)
(* objects of one key (each made by `?? {}`), so the model has a heap of    *)
(* objects, and `states` refers to them.                                    *)
(*                                                                          *)
(* A point is the set of rules that apply to it (enabled, of its device and *)
(* kind) and, among them, those it violates (compare() of the value with    *)
(* the threshold).  Which apply may change from point to point, as rules    *)
(* are edited.  The rules of one metric come in the order of a SELECT       *)
(* without ORDER BY, so evaluate() may take the next rule from any of them. *)
(***************************************************************************)
EXTENDS Naturals, FiniteSets

CONSTANTS
    Devices,
    Rules,       \* the rules of the table
    Duration,    \* durationSec of each rule
    Cooldown,    \* cooldownSec of each rule
    None,        \* undefined
    DbFails,     \* whether a statement may fail, or its answer be lost
    MaxEvals,    \* bound of the model: points evaluated
    MaxRestarts, \* bound of the model: restarts of the server
    MaxClock     \* bound of the model: readings of the clock

Evals == 1 .. MaxEvals
Keys == Rules \X Devices
Ids == Evals \X Rules       \* objects and alert rows: at most one of each
                            \* is made by an evaluation for a rule

ASSUME AlertAssumption ==
    /\ Duration \in [Rules -> Nat] /\ Cooldown \in [Rules -> Nat]
    /\ DbFails \in BOOLEAN
    /\ MaxEvals \in Nat /\ MaxRestarts \in Nat /\ MaxClock \in Nat
    /\ None \notin Nat \cup Rules \cup Devices \cup Ids

VARIABLES
    clock,
    states,      \* the Map: the object of each key, or None
    heap,        \* the RuleDeviceState objects
    evals,       \* the evaluations: where each is, and what it holds
    alerts,      \* the alerts table
    restarts,    \* how often the server was restarted
    earlier,     \* history: the evaluations of the processes before this one
    overlapped,  \* history: devices two of whose evaluations were in progress at once
    faulted,     \* history: keys for which a statement failed
    hotSince     \* history: when a key's present run of violating points began

engineVars == <<states, heap>>
histories == <<overlapped, faulted>>
process == <<restarts, earlier>>
vars == <<clock, engineVars, evals, alerts, process, histories, hotSince>>

Undefined == [pendingSince |-> None, active |-> None, lastFiredAt |-> None]
NotStarted == [pc |-> "idle", device |-> None, todo |-> {}, hot |-> {},
               rule |-> None, now |-> None, obj |-> None, alert |-> None]
NoRow == [st |-> "none", at |-> None]

Init ==
    /\ clock = 0
    /\ states = [k \in Keys |-> None]
    /\ heap = [o \in Ids |-> Undefined]
    /\ evals = [e \in Evals |-> NotStarted]
    /\ alerts = [a \in Ids |-> NoRow]
    /\ restarts = 0
    /\ earlier = {}
    /\ overlapped = {}
    /\ faulted = {}
    /\ hotSince = [k \in Keys |-> None]

Key(e, r) == <<r, evals[e].device>>
InProgress(e) == evals[e].pc \notin {"idle", "done"}

(* The object evalOne or fire works on: the key's, or a new one. *)
ObjectFor(e, r) == IF states[Key(e, r)] = None THEN <<e, r>> ELSE states[Key(e, r)]
StateFor(e, r) == IF states[Key(e, r)] = None THEN Undefined ELSE heap[states[Key(e, r)]]

(* evaluate() is between two rules and takes r next, with a value in range   *)
(* or not.                                                                   *)
InRangeOf(e, r) == evals[e].pc = "between" /\ r \in evals[e].todo \ evals[e].hot
OutOfRangeOf(e, r) == evals[e].pc = "between" /\ r \in evals[e].todo \cap evals[e].hot

(* evalOne has returned: the evaluation goes on to its next rule, or ends. *)
Continue(e, r) ==
    evals' = [evals EXCEPT ![e] =
                 [NotStarted EXCEPT !.pc = IF evals[e].todo \ {r} = {} THEN "done" ELSE "between",
                                    !.device = evals[e].device,
                                    !.todo = evals[e].todo \ {r},
                                    !.hot = evals[e].hot \ {r}]]

(* A rejected statement ends the evaluation: the rules after it are skipped. *)
Ended(rec) == [NotStarted EXCEPT !.pc = "done", !.device = rec.device, !.todo = rec.todo]

(* evalOne awaits a statement, holding the object (and the alert) it read. *)
Await(e, r, pc, alert) ==
    evals' = [evals EXCEPT ![e] =
                 [evals[e] EXCEPT !.pc = pc, !.todo = @ \ {r}, !.rule = r, !.now = clock,
                                  !.obj = ObjectFor(e, r), !.alert = alert]]

(* The table once the statements that the evaluations S await have run. *)
Inserted(S) == {<<e, evals[e].rule>> : e \in {e \in S : evals[e].pc = "firing"}}
Resolved(S) == {evals[e].alert : e \in {e \in S : evals[e].pc = "resolving"}}
Executed(S) ==
    [a \in Ids |->
        IF a \in Inserted(S) THEN [st |-> "open", at |-> evals[a[1]].now]
        ELSE IF a \in Resolved(S) THEN [alerts[a] EXCEPT !.st = "resolved"]
        ELSE alerts[a]]

-----------------------------------------------------------------------------
(* Slips a change of the code could make, one per property that catches it.  *)

(* pendingSince is not cleared when the value is back in range. *)
InRangeKeepsPending(e, r) ==
    /\ InRangeOf(e, r)
    /\ StateFor(e, r).active = None
    /\ hotSince' = [hotSince EXCEPT ![Key(e, r)] = None]
    /\ Continue(e, r)
    /\ UNCHANGED <<clock, engineVars, alerts, process, histories>>

(* A value in range ends a wait and nothing else. *)
InRangeOnlyEndsWait(e, r) ==
    /\ InRangeOf(e, r)
    /\ heap' = IF StateFor(e, r).pendingSince = None THEN heap
               ELSE [heap EXCEPT ![states[Key(e, r)]].pendingSince = None]
    /\ hotSince' = [hotSince EXCEPT ![Key(e, r)] = None]
    /\ Continue(e, r)
    /\ UNCHANGED <<clock, states, alerts, process, histories>>

(* fire() does not put a new object into the map. *)
FireReturnsUnset(e) ==
    /\ evals[e].pc = "firing"
    /\ alerts' = Executed({e})
    /\ heap' = [heap EXCEPT ![evals[e].obj] =
                   [pendingSince |-> None, active |-> <<e, evals[e].rule>>,
                    lastFiredAt |-> evals[e].now]]
    /\ Continue(e, evals[e].rule)
    /\ UNCHANGED <<clock, states, process, histories, hotSince>>

(* A resolved key's state is deleted, and with it when it last fired. *)
ResolveReturnsDeleting(e) ==
    /\ evals[e].pc = "resolving"
    /\ alerts' = Executed({e})
    /\ states' = [states EXCEPT ![Key(e, evals[e].rule)] = None]
    /\ Continue(e, evals[e].rule)
    /\ UNCHANGED <<clock, heap, process, histories, hotSince>>

(* `active` is not cleared once the row is resolved. *)
ResolveReturnsActive(e) ==
    /\ evals[e].pc = "resolving"
    /\ alerts' = Executed({e})
    /\ heap' = [heap EXCEPT ![evals[e].obj].pendingSince = None]
    /\ states' = [states EXCEPT ![Key(e, evals[e].rule)] = evals[e].obj]
    /\ Continue(e, evals[e].rule)
    /\ UNCHANGED <<clock, process, histories, hotSince>>

-----------------------------------------------------------------------------
(* A telemetry point of d, to which `rules` apply and which violates `hot`   *)
(* of them, is evaluated.                                                    *)
Evaluate(e, d, rules, hot) ==
    /\ evals[e].pc = "idle"
    /\ \A f \in Evals : f < e => evals[f].pc # "idle"
    /\ evals' = [evals EXCEPT ![e] = [NotStarted EXCEPT !.pc = "between", !.device = d,
                                                       !.todo = rules, !.hot = hot]]
    /\ overlapped' = IF \E f \in Evals : InProgress(f) /\ evals[f].device = d
                       THEN overlapped \cup {d} ELSE overlapped
    /\ UNCHANGED <<clock, engineVars, alerts, process, faulted, hotSince>>

(* evalOne on a value in range, no alert active: a pending condition ends. *)
InRange(e, r) ==
    /\ InRangeOf(e, r)
    /\ StateFor(e, r).active = None
    /\ heap' = IF StateFor(e, r).pendingSince = None THEN heap
               ELSE [heap EXCEPT ![states[Key(e, r)]].pendingSince = None]
    /\ hotSince' = [hotSince EXCEPT ![Key(e, r)] = None]
    /\ Continue(e, r)
    /\ UNCHANGED <<clock, states, alerts, process, histories>>

(* evalOne on a value in range while an alert is active: resolveActive keeps *)
(* the object and the alert it read, and awaits the UPDATE.                  *)
StartResolve(e, r) ==
    /\ InRangeOf(e, r)
    /\ StateFor(e, r).active # None
    /\ Await(e, r, "resolving", StateFor(e, r).active)
    /\ hotSince' = [hotSince EXCEPT ![Key(e, r)] = None]
    /\ UNCHANGED <<clock, engineVars, alerts, process, histories>>

(* A violating value: the key's run of violations goes on, or begins. *)
Violated(e, r) ==
    /\ OutOfRangeOf(e, r)
    /\ hotSince' = [hotSince EXCEPT ![Key(e, r)] = IF @ = None THEN clock ELSE @]
    /\ UNCHANGED <<clock, alerts, process, histories>>

Sustained(e, r) ==
    \/ Duration[r] = 0
    \/ /\ StateFor(e, r).pendingSince # None
       /\ clock - StateFor(e, r).pendingSince >= Duration[r]

CoolingDown(e, r) ==
    /\ StateFor(e, r).lastFiredAt # None
    /\ clock - StateFor(e, r).lastFiredAt < Cooldown[r]

(* The first violating value of a rule with a duration starts the wait. *)
StartPending(e, r) ==
    /\ Violated(e, r)
    /\ StateFor(e, r).active = None
    /\ Duration[r] > 0 /\ StateFor(e, r).pendingSince = None
    /\ heap' = [heap EXCEPT ![ObjectFor(e, r)].pendingSince = clock]
    /\ states' = [states EXCEPT ![Key(e, r)] = ObjectFor(e, r)]
    /\ Continue(e, r)

(* Already firing, not sustained for long enough, or cooling down. *)
Suppressed(e, r) ==
    /\ Violated(e, r)
    /\ \/ StateFor(e, r).active # None
       \/ StateFor(e, r).pendingSince # None /\ ~Sustained(e, r)
       \/ Sustained(e, r) /\ CoolingDown(e, r)
    /\ Continue(e, r)
    /\ UNCHANGED engineVars

(* fire() reads the key's object, or makes one, and awaits the INSERT. *)
StartFire(e, r) ==
    /\ Violated(e, r)
    /\ StateFor(e, r).active = None
    /\ Sustained(e, r) /\ ~CoolingDown(e, r)
    /\ Await(e, r, "firing", None)
    /\ UNCHANGED engineVars

(* The INSERT returned: the object is written and put into the map.  The     *)
(* statement runs in the step that has its answer: nothing in the engine     *)
(* reads the table, so nothing can tell the two apart.                       *)
FireReturns(e) ==
    /\ evals[e].pc = "firing"
    /\ alerts' = Executed({e})
    /\ heap' = [heap EXCEPT ![evals[e].obj] =
                   [pendingSince |-> None, active |-> <<e, evals[e].rule>>,
                    lastFiredAt |-> evals[e].now]]
    /\ states' = [states EXCEPT ![Key(e, evals[e].rule)] = evals[e].obj]
    /\ Continue(e, evals[e].rule)
    /\ UNCHANGED <<clock, process, histories, hotSince>>

(* The UPDATE returned: the object read before the await is written back;    *)
(* the statement runs in this step, as the INSERT does.                      *)
ResolveReturns(e) ==
    /\ evals[e].pc = "resolving"
    /\ alerts' = Executed({e})
    /\ heap' = [heap EXCEPT ![evals[e].obj].active = None,
                            ![evals[e].obj].pendingSince = None]
    /\ states' = [states EXCEPT ![Key(e, evals[e].rule)] = evals[e].obj]
    /\ Continue(e, evals[e].rule)
    /\ UNCHANGED <<clock, process, histories, hotSince>>

(* A statement rejects: it was not executed, or only its answer was lost. *)
StatementFails(e) ==
    /\ DbFails
    /\ evals[e].pc \in {"firing", "resolving"}
    /\ alerts' \in {Executed({}), Executed({e})}
    /\ faulted' = faulted \cup {Key(e, evals[e].rule)}
    /\ evals' = [evals EXCEPT ![e] = Ended(@)]
    /\ UNCHANGED <<clock, engineVars, process, overlapped, hotSince>>

(* The server is restarted: the Map is gone, whatever was awaited was        *)
(* executed or not, and the table stays.                                     *)
ServerRestarts ==
    /\ restarts < MaxRestarts
    /\ restarts' = restarts + 1
    /\ earlier' = {e \in Evals : evals[e].pc # "idle"}
    /\ states' = [k \in Keys |-> None]
    /\ heap' = [o \in Ids |-> Undefined]
    /\ \E S \in SUBSET {e \in Evals : InProgress(e)} : alerts' = Executed(S)
    /\ evals' = [e \in Evals |-> IF e \in earlier' THEN Ended(NotStarted) ELSE evals[e]]
    /\ overlapped' = {} /\ faulted' = {}
    /\ hotSince' = [k \in Keys |-> None]
    /\ UNCHANGED clock

Tick ==
    /\ clock < MaxClock
    /\ clock' = clock + 1
    /\ UNCHANGED <<engineVars, evals, alerts, process, histories, hotSince>>

Next ==
    \/ \E e \in Evals, d \in Devices, rules \in (SUBSET Rules) \ {{}} :
          \E hot \in SUBSET rules : Evaluate(e, d, rules, hot)
    \/ \E e \in Evals, r \in Rules :
          \/ InRange(e, r) \/ StartResolve(e, r)
          \/ StartPending(e, r) \/ Suppressed(e, r) \/ StartFire(e, r)
    \/ \E e \in Evals : FireReturns(e) \/ ResolveReturns(e) \/ StatementFails(e)
    \/ ServerRestarts
    \/ Tick

Spec == Init /\ [][Next]_vars

-----------------------------------------------------------------------------
Time == 0 .. MaxClock

StateObject == [pendingSince : Time \cup {None}, active : Ids \cup {None},
                lastFiredAt : Time \cup {None}]
Evaluation == [pc : {"idle", "between", "firing", "resolving", "done"},
               device : Devices \cup {None}, todo : SUBSET Rules, hot : SUBSET Rules,
               rule : Rules \cup {None}, now : Time \cup {None},
               obj : Ids \cup {None}, alert : Ids \cup {None}]
AlertRow == [st : {"none", "open", "resolved"}, at : Time \cup {None}]

AlertTypeOK ==
    /\ clock \in Time
    /\ states \in [Keys -> Ids \cup {None}]
    /\ heap \in [Ids -> StateObject]
    /\ evals \in [Evals -> Evaluation]
    /\ alerts \in [Ids -> AlertRow]
    /\ restarts \in 0 .. MaxRestarts
    /\ earlier \subseteq Evals
    /\ overlapped \subseteq Devices
    /\ faulted \subseteq Keys
    /\ hotSince \in [Keys -> Time \cup {None}]

ActiveOf(k) == IF states[k] = None THEN None ELSE heap[states[k]].active

(* The rows of a key that this process has inserted, and those still open. *)
RowsOfKey(k) ==
    {a \in Ids : /\ a[1] \notin earlier /\ a[2] = k[1] /\ evals[a[1]].device = k[2]
                /\ alerts[a].st # "none"}
OpenRows(k) == {a \in RowsOfKey(k) : alerts[a].st = "open"}

(* The engine never takes a closed alert for an active one, which would      *)
(* silence the rule: what a key's state calls active is an open row, however *)
(* evaluations overlap and whenever the server restarts, unless the answer   *)
(* to its UPDATE was lost.  It is said of rows as answered: between an       *)
(* UPDATE's commit and its answer the object still calls the row active.     *)
ActiveIsOpen ==
    \A k \in Keys : ActiveOf(k) # None =>
        \/ alerts[ActiveOf(k)].st = "open"
        \/ k \in faulted

(* A device whose evaluations did not overlap (and whose statements did not  *)
(* fail) since the server started: a rule has one open alert of this process *)
(* at most, and it is the one the engine will resolve, again of statements   *)
(* that are answered.                                                        *)
Sequential(k) == k[2] \notin overlapped /\ k \notin faulted

OpenIsActive == \A k \in Keys : Sequential(k) => OpenRows(k) \subseteq {ActiveOf(k)}

(* ... two of its alerts are at least cooldownSec apart, resolved in between *)
(* or not, ...                                                               *)
CooldownKept ==
    \A k \in Keys : Sequential(k) =>
        \A a, b \in RowsOfKey(k) : a[1] < b[1] =>
            alerts[a].at + Cooldown[k[1]] <= alerts[b].at

(* ... and once evalOne has returned for a value in range, no alert of the   *)
(* rule is open, even if the rule did not apply to some points in between.   *)
Unhandled(e) == evals[e].todo \cup {evals[e].rule}
InRangeCloses ==
    [][\A e \in Evals, r \in Rules :
          (/\ r \in Unhandled(e) /\ r \notin Unhandled(e)' /\ r \notin evals[e].hot
           /\ Sequential(Key(e, r))') => OpenRows(Key(e, r))' = {}]_vars

(* A rule with a duration fires only when every point evaluated during the   *)
(* last durationSec violated it, however evaluations overlap or fail.        *)
FiresOnlySustained ==
    [][\A e \in Evals : evals[e].pc = "between" /\ evals'[e].pc = "firing" =>
          LET r == evals'[e].rule
          IN clock - hotSince'[Key(e, r)] >= Duration[r]]_vars

(* What alerts.engine.test.ts:172 says: "an already-active alert does not    *)
(* fire a second row while still in violation".                              *)
OneOpenAlert == \A k \in Keys : Cardinality(OpenRows(k)) <= 1
===============================================================================
