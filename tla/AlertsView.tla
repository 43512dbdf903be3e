------------------------------ MODULE AlertsView ------------------------------
(***************************************************************************)
(* The alerts page of one console: the list of alerts, kept by one fetch    *)
(* and by live events, and the rules with the drawer that edits them        *)
(* (apps/web/src/views/AlertsView.tsx, components/alerts/RuleDrawer.tsx),   *)
(* over GET /api/alerts and the rules API (apps/server/src/api).  Switches  *)
(* and deletions are shown before they are answered and taken back when the *)
(* answer is an error; any number of requests may be under way and be       *)
(* served and answered in any order.                                        *)
(*                                                                          *)
(* A rule is whether it is enabled and its text (every other field), which  *)
(* is known by the form it was typed in: the one of a rule, or a draft.  An *)
(* alert is its number in the order of triggered_at.                        *)
(***************************************************************************)
EXTENDS LiveEvents, FiniteSets

CONSTANTS
    Alerts,         \* alerts, a greater number being triggered later
    PageSize,       \* alerts that the page asks for (100)
    Rules,          \* ids
    Stored,         \* the rules in the table when the page is opened
    MaxRequests,    \* bound: requests of the operator
    MaxFailures     \* bound: requests that fail or whose answer is lost

(* An id is a UUID, not what marks the drawer of a new rule. *)
ASSUME AlertsAssumption ==
    /\ Alerts \subseteq Nat /\ PageSize \in Nat \ {0}
    /\ Stored \subseteq Rules /\ "new" \notin Rules
    /\ MaxRequests \in Nat /\ MaxFailures \in Nat

VARIABLES
    stage,       \* each alert: none, inserted, raised, updated, resolved
    table,       \* alert_rules
    load,        \* the effect's Promise.all: its answers so far
    alerts,      \* state of the view: status by alert
    rules,       \*   and the rules listed
    drawer,      \* open, initial (the rule edited, or New), form
    requests,    \* the operator's requests, oldest first
    missed,      \* alerts whose last event was lost or overwritten, or that
                 \* the load left out
    tangled,     \* whether requests met in a way the view does not undo
    failures

alertsVars == <<stage, table, load, alerts, rules, drawer, requests, missed, tangled, failures>>
listVars == <<stage, alerts, missed>>
ruleVars == <<table, rules, drawer, requests, tangled, failures>>

New == "new"
NoAnswer == [got |-> FALSE]
Draft == "draft"
DefaultForm == [text |-> "", enabled |-> TRUE]
Bodies == [text : Rules \cup {"", Draft}, enabled : BOOLEAN]

AlertsInit ==
    /\ stage = [a \in Alerts |-> "none"]
    /\ table = [r \in Stored |-> [text |-> r, enabled |-> TRUE]]
    /\ load = [st |-> "asked", alerts |-> NoAnswer, rules |-> NoAnswer]
    /\ alerts = [a \in {} |-> "open"]
    /\ rules = [r \in {} |-> DefaultForm]
    /\ drawer = [open |-> FALSE, initial |-> New, form |-> DefaultForm]
    /\ requests = << >>
    /\ missed = {}
    /\ tangled = FALSE
    /\ failures = 0

(* A list with one entry put in place of the entry of that key, or added; and *)
(* without it.                                                                *)
With(list, key, entry) ==
    [k \in DOMAIN list \cup {key} |-> IF k = key THEN entry ELSE list[k]]
Without(list, key) == [k \in DOMAIN list \ {key} |-> list[k]]

(* What GET /api/alerts says of an alert, "none" when it has no row. *)
Row(a) ==
    CASE stage[a] = "none" -> "none"
      [] stage[a] \in {"inserted", "raised"} -> "open"
      [] stage[a] \in {"updated", "resolved"} -> "resolved"

UnderWay == {i \in 1 .. Len(requests) : requests[i].st # "done"}

-----------------------------------------------------------------------------
(* Slips a change of the code could make, one per property that catches it.  *)

(* An event for an alert that is listed already is taken for a repetition. *)
AlertEventNewOnly ==
    \E e \in {wire[i] : i \in 1 .. Len(wire)} :
        /\ Handle(e)
        /\ alerts' = IF e.id \in DOMAIN alerts THEN alerts ELSE With(alerts, e.id, e.status)
        /\ missed' = missed \ {e.id}
        /\ UNCHANGED <<stage, load>> /\ UNCHANGED ruleVars

(* An error is told, and the optimistic change stays. *)
RolledBackNot(q) == rules

(* The drawer keeps its form whatever it is opened on. *)
FormsKept(initial) == {drawer.form}

-----------------------------------------------------------------------------
(* The engine inserts and resolves an alert, and publishes each once the     *)
(* statement is answered.                                                    *)
EngineStores(a) ==
    /\ \/ stage[a] = "none" /\ stage' = [stage EXCEPT ![a] = "inserted"]
       \/ stage[a] = "raised" /\ stage' = [stage EXCEPT ![a] = "updated"]
    /\ UNCHANGED <<alerts, missed, load>> /\ UNCHANGED ruleVars /\ UNCHANGED liveVars

EnginePublishes(a) ==
    /\ \/ stage[a] = "inserted" /\ stage' = [stage EXCEPT ![a] = "raised"]
       \/ stage[a] = "updated" /\ stage' = [stage EXCEPT ![a] = "resolved"]
    /\ Publish([id |-> a, status |-> Row(a)])
    /\ missed' = IF socket = "open" THEN missed ELSE missed \cup {a}
    /\ UNCHANGED <<alerts, load>> /\ UNCHANGED ruleVars

(* The handler of events: the alert replaces the one of its id. *)
AlertEvent ==
    \E e \in {wire[i] : i \in 1 .. Len(wire)} :
        /\ Handle(e)
        /\ alerts' = With(alerts, e.id, e.status)
        /\ missed' = missed \ {e.id}
        /\ UNCHANGED <<stage, load>> /\ UNCHANGED ruleVars

SocketStepOfAlerts ==
    /\ SocketStep
    /\ missed' = IF wire' = wire THEN missed ELSE missed \cup {wire[i].id : i \in 1 .. Len(wire)}
    /\ UNCHANGED <<stage, alerts, load>> /\ UNCHANGED ruleVars

-----------------------------------------------------------------------------
(* The effect: two of its three requests (the third gives names to devices)  *)
(* are served; both answers together replace the lists.                      *)
InTable == {a \in Alerts : Row(a) # "none"}

(* ORDER BY triggered_at DESC LIMIT 100, open and resolved together. *)
Newest == {a \in InTable : Cardinality({b \in InTable : b > a}) < PageSize}

LoadReadsAlerts ==
    /\ load.st = "asked" /\ ~load.alerts.got
    /\ load' = [load EXCEPT !.alerts = [got |-> TRUE, rows |-> [a \in Newest |-> Row(a)]]]
    /\ missed' = InTable \ Newest
    /\ UNCHANGED <<stage, alerts>> /\ UNCHANGED ruleVars /\ UNCHANGED liveVars

LoadReadsRules ==
    /\ load.st = "asked" /\ ~load.rules.got
    /\ load' = [load EXCEPT !.rules = [got |-> TRUE, rows |-> table]]
    /\ UNCHANGED listVars /\ UNCHANGED ruleVars /\ UNCHANGED liveVars

Older(a) == \/ a \notin DOMAIN load.alerts.rows
            \/ load.alerts.rows[a] = "open" /\ alerts[a] = "resolved"

LoadShows ==
    /\ load.st = "asked" /\ load.alerts.got /\ load.rules.got
    /\ load' = [st |-> "done", alerts |-> NoAnswer, rules |-> NoAnswer]
    /\ alerts' = load.alerts.rows
    /\ rules' = load.rules.rows
    /\ missed' = missed \cup {a \in DOMAIN alerts : Older(a)}
    /\ UNCHANGED <<stage, table, drawer, requests, tangled, failures>> /\ UNCHANGED liveVars

(* One request fails: an error is shown, the lists stay, nothing tries again. *)
LoadFails ==
    /\ load.st = "asked"
    /\ load' = [st |-> "failed", alerts |-> NoAnswer, rules |-> NoAnswer]
    /\ failures < MaxFailures /\ failures' = failures + 1
    /\ UNCHANGED listVars /\ UNCHANGED liveVars
    /\ UNCHANGED <<table, rules, drawer, requests, tangled>>

-----------------------------------------------------------------------------
(* The operator.  The drawer is modal: what is under it is used when it is   *)
(* closed.  `undo` is what the handler holds over its await.                 *)
Ask(q) ==
    /\ Len(requests) < MaxRequests
    /\ requests' = Append(requests, q)
    /\ tangled' = (tangled \/ load.st # "done" \/ \E i \in UnderWay : requests[i].rule = q.rule)
    /\ UNCHANGED <<table, load, failures>> /\ UNCHANGED listVars /\ UNCHANGED liveVars

HandleToggleRule(r) ==
    /\ ~drawer.open /\ r \in DOMAIN rules
    /\ Ask([op |-> "toggle", rule |-> r, value |-> ~rules[r].enabled,
            undo |-> rules[r].enabled, st |-> "sent"])
    /\ rules' = [rules EXCEPT ![r].enabled = ~@]
    /\ UNCHANGED drawer

HandleDeleteRule(r) ==
    /\ ~drawer.open /\ r \in DOMAIN rules
    /\ Ask([op |-> "delete", rule |-> r, undo |-> rules, st |-> "sent"])
    /\ rules' = Without(rules, r)
    /\ UNCHANGED drawer

(* The drawer is opened on a rule of the list or on New.  Its effect fills   *)
(* the form when `initial` is another object than before: the object of the  *)
(* same rule may or may not be another.                                      *)
FilledForm(initial) == IF initial = New THEN DefaultForm ELSE rules[initial]

Forms(initial) ==
    {FilledForm(initial)} \cup (IF initial = drawer.initial THEN {drawer.form} ELSE {})

OpenDrawer(initial) ==
    /\ ~drawer.open /\ initial \in DOMAIN rules \cup {New}
    /\ \E form \in Forms(initial) :
          drawer' = [open |-> TRUE, initial |-> initial, form |-> form]
    /\ UNCHANGED <<table, rules, requests, tangled, failures, load>>
    /\ UNCHANGED listVars /\ UNCHANGED liveVars

Tag(initial) == IF initial = New THEN Draft ELSE initial

TypeInForm ==
    /\ drawer.open
    /\ \E enabled \in BOOLEAN : drawer' =
          [drawer EXCEPT !.form = [text |-> Tag(drawer.initial), enabled |-> enabled]]
    /\ UNCHANGED <<table, rules, requests, tangled, failures, load>>
    /\ UNCHANGED listVars /\ UNCHANGED liveVars

CloseDrawer ==
    /\ drawer.open
    /\ drawer' = [drawer EXCEPT !.open = FALSE]
    /\ UNCHANGED <<table, rules, requests, tangled, failures, load>>
    /\ UNCHANGED listVars /\ UNCHANGED liveVars

(* The form is checked, and the whole of it sent; one save at a time.  A new *)
(* rule gets its id from the table.                                          *)
Saving == \E i \in UnderWay : requests[i].op = "save"

HandleSubmit ==
    /\ drawer.open /\ ~Saving
    /\ drawer.form.text # ""
    /\ Ask([op |-> "save", rule |-> drawer.initial, value |-> drawer.form, st |-> "sent"])
    /\ UNCHANGED <<rules, drawer>>

-----------------------------------------------------------------------------
(* The rules API: POST, PATCH and DELETE are one statement each; the last    *)
(* two answer 404 when the rule is gone.                                     *)
Reply(i, st, r) == requests' = [requests EXCEPT ![i].st = st, ![i].rule = r]

(* gen_random_uuid() gives an id that no rule ever had. *)
Used == Stored \cup DOMAIN table \cup {requests[k].rule : k \in 1 .. Len(requests)}

Serve(i) ==
    /\ requests[i].st = "sent"
    /\ LET q == requests[i]
       IN  \/ /\ q.rule = New
              /\ \E r \in Rules \ Used : table' = With(table, r, q.value) /\ Reply(i, "ok", r)
           \/ /\ q.rule \in DOMAIN table
              /\ table' = CASE q.op = "toggle" -> [table EXCEPT ![q.rule].enabled = q.value]
                            [] q.op = "delete" -> Without(table, q.rule)
                            [] q.op = "save" -> With(table, q.rule, q.value)
              /\ Reply(i, "ok", q.rule)
           \/ /\ q.rule \notin DOMAIN table \cup {New}
              /\ Reply(i, "failed", q.rule) /\ UNCHANGED table
    /\ UNCHANGED <<load, rules, drawer, tangled, failures>>
    /\ UNCHANGED listVars /\ UNCHANGED liveVars

(* The request is not served, or the answer of one that was is lost. *)
RequestFails(i) ==
    /\ requests[i].st \in {"sent", "ok"}
    /\ failures < MaxFailures /\ failures' = failures + 1
    /\ Reply(i, "failed", requests[i].rule)
    /\ tangled' = (tangled \/ requests[i].st = "ok")
    /\ UNCHANGED <<load, table, rules, drawer>> /\ UNCHANGED listVars /\ UNCHANGED liveVars

(* The handler goes on with an answer: only a save shows it, and closes the  *)
(* drawer, whichever rule it is open on by now.                              *)
AnswerOk(i) ==
    /\ requests[i].st = "ok"
    /\ Reply(i, "done", requests[i].rule)
    /\ IF requests[i].op = "save"
       THEN /\ rules' = With(rules, requests[i].rule, requests[i].value)
            /\ drawer' = [drawer EXCEPT !.open = FALSE]
       ELSE UNCHANGED <<rules, drawer>>
    /\ UNCHANGED <<load, table, tangled, failures>> /\ UNCHANGED listVars /\ UNCHANGED liveVars

(* The `catch` of each handler: the switch is put back, a deletion restores  *)
(* the whole list it had seen.                                               *)
RolledBack(q) ==
    CASE q.op = "toggle" -> IF q.rule \in DOMAIN rules
                            THEN [rules EXCEPT ![q.rule].enabled = q.undo] ELSE rules
      [] q.op = "delete" -> q.undo
      [] q.op = "save" -> rules

AnswerError(i) ==
    LET q == requests[i]
    IN  /\ q.st = "failed"
        /\ Reply(i, "done", q.rule)
        /\ rules' = RolledBack(q)
        /\ tangled' = (tangled \/ (q.op = "delete" /\ rules # Without(q.undo, q.rule)))
        /\ UNCHANGED <<load, table, drawer, failures>> /\ UNCHANGED listVars /\ UNCHANGED liveVars

LoadStep == LoadReadsAlerts \/ LoadReadsRules \/ LoadShows \/ LoadFails

AlertsNext ==
    \/ LoadStep
    \/ \E a \in Alerts : EngineStores(a) \/ EnginePublishes(a)
    \/ AlertEvent \/ SocketStepOfAlerts

RulesNext ==
    \/ LoadStep
    \/ \E r \in Rules : HandleToggleRule(r) \/ HandleDeleteRule(r)
    \/ \E r \in Rules \cup {New} : OpenDrawer(r)
    \/ TypeInForm \/ CloseDrawer \/ HandleSubmit
    \/ \E i \in 1 .. Len(requests) :
          Serve(i) \/ RequestFails(i) \/ AnswerOk(i) \/ AnswerError(i)

-----------------------------------------------------------------------------
AlertsTypeOK ==
    /\ \A r \in DOMAIN table : r \in Rules /\ table[r] \in Bodies
    /\ \A r \in DOMAIN rules : r \in Rules /\ rules[r] \in Bodies
    /\ drawer.initial \in Rules \cup {New} /\ drawer.form \in Bodies

(* An alert is shown as it is: once the page is loaded and every event has   *)
(* been handled, `Active alerts` has the open ones and none that is          *)
(* resolved.  Excepted, until its next event, is an alert that was not among *)
(* the newest PageSize rows at the load (however long it has been open), or  *)
(* whose last event found no socket or was overwritten by the load's answer. *)
Pending(a) ==
    \/ stage[a] \in {"inserted", "updated"}
    \/ \E i \in 1 .. Len(wire) : wire[i].id = a

AlertsShown ==
    load.st = "done" =>
        \A a \in Alerts \ missed :
            ~Pending(a) /\ Row(a) # "none" => a \in DOMAIN alerts /\ alerts[a] = Row(a)

(* Optimistic changes come out right: when every request is answered the     *)
(* list is the table, whichever of them failed and in whatever order they    *)
(* were served, unless two concerned one rule, a deletion failed while the   *)
(* list changed, a request was made before the page was loaded, or the       *)
(* answer of a request that was carried out got lost.                        *)
RulesSettle == load.st = "done" /\ UnderWay = {} /\ ~tangled => rules = table

(* The drawer saves what was typed for the rule it saves: no sequence of     *)
(* opening, leaving and submitting puts one rule's text into another, or     *)
(* what was typed for a new rule into one that was there before.             *)
Texts(r) == IF r \in Stored THEN {r} ELSE {r, Draft}

TextBelongs == \A r \in DOMAIN table : table[r].text \in Texts(r)
==============================================================================
