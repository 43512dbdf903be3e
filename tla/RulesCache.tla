------------------------------ MODULE RulesCache ------------------------------
(***************************************************************************)
(* The engine's cache of rules and device kinds (alerts/engine.ts           *)
(* ensureCache, invalidateRulesCache; alerts/repo.ts) with what changes     *)
(* under it: the rules API (api/rules.ts), which commits first and          *)
(* invalidates when the database has answered, and provisioning             *)
(* (api/devices.ts), which adds device kinds and invalidates nothing.       *)
(*                                                                          *)
(* A table's content is the number of writes it has seen.  When the last of *)
(* the two queries answers, the cache is written and the evaluations that   *)
(* awaited the load go on in the same turn of the event loop.               *)
(***************************************************************************)
EXTENDS Naturals, Sequences

CONSTANTS
    Evals,       \* evaluations of telemetry points
    Edits,       \* POST, PATCH and DELETE requests of the rules API
    TTL,         \* rulesCacheTtlMs
    None,
    MaxKinds,    \* bound of the model: devices provisioned
    MaxClock     \* bound of the model: readings of the clock

ASSUME CacheAssumption == TTL \in Nat \ {0} /\ MaxKinds \in Nat /\ MaxClock \in Nat

VARIABLES
    clock,
    rulesDb,            \* the alert_rules table
    born,               \* the devices table: when each kind was added
    edits,              \* where each request of the rules API is
    cache,              \* the RulesCache, or None
    loading,            \* the load in progress, or None
    evals,              \* where each evaluation is, and the cache it uses
    invalidated         \* history: rulesDb as the last invalidation saw it

kindsDb == Len(born)

vars == <<clock, rulesDb, born, edits, cache, loading, evals, invalidated>>

(* `raced` is history: an invalidation fell into the load. *)
EmptyLoad == [rules |-> None, kinds |-> None, began |-> clock, raced |-> FALSE]

Init ==
    /\ clock = 0
    /\ rulesDb = 0 /\ born = << >>
    /\ edits = [w \in Edits |-> "idle"]
    /\ cache = None
    /\ loading = None
    /\ evals = [e \in Evals |-> [pc |-> "idle", need |-> 0, used |-> None]]
    /\ invalidated = 0

Use(rec, c) == [rec EXCEPT !.pc = "used", !.used = [data |-> c, at |-> clock]]

-----------------------------------------------------------------------------
(* Slips a change of the code could make, one per property that catches it.  *)

(* The age of the cache is never looked at. *)
FreshForEver == cache # None

(* An API handler forgets to invalidate. *)
NotInvalidated(w) ==
    /\ edits[w] = "committed"
    /\ edits' = [edits EXCEPT ![w] = "done"]
    /\ invalidated' = rulesDb
    /\ UNCHANGED <<clock, rulesDb, born, cache, loading, evals>>

-----------------------------------------------------------------------------
(* A cache younger than the TTL. *)
Fresh == cache # None /\ clock - cache.loadedAt < TTL

(* evaluate(): a fresh cache is used at once, otherwise the load in progress *)
(* is joined or a new one begun.                                             *)
Evaluate(e) ==
    /\ evals[e].pc = "idle"
    /\ \/ /\ Fresh
          /\ evals' = [evals EXCEPT ![e] = Use([evals[e] EXCEPT !.need = invalidated], cache)]
          /\ UNCHANGED loading
       \/ /\ ~Fresh
          /\ evals' = [evals EXCEPT ![e].pc = "waiting", ![e].need = invalidated]
          /\ loading' = IF loading = None THEN EmptyLoad ELSE loading
    /\ UNCHANGED <<clock, rulesDb, born, edits, cache, invalidated>>

(* loadRules and loadDeviceKinds run side by side on two connections. *)
ReadRules ==
    /\ loading # None /\ loading.rules = None
    /\ loading' = [loading EXCEPT !.rules = rulesDb]
    /\ UNCHANGED <<clock, rulesDb, born, edits, cache, evals, invalidated>>

ReadKinds ==
    /\ loading # None /\ loading.kinds = None
    /\ loading' = [loading EXCEPT !.kinds = kindsDb]
    /\ UNCHANGED <<clock, rulesDb, born, edits, cache, evals, invalidated>>

(* Both answered: the cache is written, `loading` reset, the waiters go on. *)
LoadReturns ==
    /\ loading # None /\ loading.rules # None /\ loading.kinds # None
    /\ cache' = [rules |-> loading.rules, kinds |-> loading.kinds, loadedAt |-> clock,
                 began |-> loading.began, raced |-> loading.raced]
    /\ loading' = None
    /\ evals' = [e \in Evals |-> IF evals[e].pc = "waiting"
                                   THEN Use(evals[e], cache') ELSE evals[e]]
    /\ UNCHANGED <<clock, rulesDb, born, edits, invalidated>>

(* A query rejects: the evaluations that awaited the load reject with it. *)
LoadFails ==
    /\ loading # None
    /\ loading' = None
    /\ evals' = [e \in Evals |-> IF evals[e].pc = "waiting"
                                   THEN [evals[e] EXCEPT !.pc = "failed"] ELSE evals[e]]
    /\ UNCHANGED <<clock, rulesDb, born, edits, cache, invalidated>>

(* A rule is created, changed or deleted: the statement commits ... *)
CommitEdit(w) ==
    /\ edits[w] = "idle"
    /\ edits' = [edits EXCEPT ![w] = "committed"]
    /\ rulesDb' = rulesDb + 1
    /\ UNCHANGED <<clock, born, cache, loading, evals, invalidated>>

(* ... and when its answer arrives the handler calls invalidateRulesCache(). *)
Invalidate(w) ==
    /\ edits[w] = "committed"
    /\ edits' = [edits EXCEPT ![w] = "done"]
    /\ cache' = None
    /\ invalidated' = rulesDb
    /\ loading' = IF loading = None THEN None ELSE [loading EXCEPT !.raced = TRUE]
    /\ UNCHANGED <<clock, rulesDb, born, evals>>

(* POST /api/devices: a device, and so a kind, is added. *)
Provision ==
    /\ kindsDb < MaxKinds
    /\ born' = Append(born, clock)
    /\ UNCHANGED <<clock, rulesDb, edits, cache, loading, evals, invalidated>>

Tick ==
    /\ clock < MaxClock
    /\ clock' = clock + 1
    /\ UNCHANGED <<rulesDb, born, edits, cache, loading, evals, invalidated>>

Next ==
    \/ \E e \in Evals : Evaluate(e)
    \/ ReadRules \/ ReadKinds \/ LoadReturns \/ LoadFails
    \/ \E w \in Edits : CommitEdit(w) \/ Invalidate(w)
    \/ Provision
    \/ Tick

Spec == Init /\ [][Next]_vars

-----------------------------------------------------------------------------
Cached == [rules : Nat, kinds : Nat, loadedAt : Nat, began : Nat, raced : BOOLEAN]

CacheTypeOK ==
    /\ clock \in 0 .. MaxClock
    /\ rulesDb \in Nat /\ born \in Seq(Nat)
    /\ edits \in [Edits -> {"idle", "committed", "done"}]
    /\ cache \in Cached \cup {None}
    /\ loading \in [rules : Nat \cup {None}, kinds : Nat \cup {None}, began : Nat,
                    raced : BOOLEAN] \cup {None}
    /\ evals \in [Evals -> [pc : {"idle", "waiting", "used", "failed"}, need : Nat,
                            used : [data : Cached, at : Nat] \cup {None}]]
    /\ invalidated \in Nat

(* An edit takes effect: an evaluation that starts after a handler           *)
(* invalidated the cache sees that handler's write, unless a load was        *)
(* already running when it did.                                              *)
Used == {evals[e] : e \in {f \in Evals : evals[f].pc = "used"}}

EditTakesEffect == \A u \in Used : u.used.data.raced \/ u.used.data.rules >= u.need

(* A new device's kind, for which nothing is invalidated, is seen by every   *)
(* evaluation a TTL later, unless the load it uses was under way when the    *)
(* device was added.                                                         *)
KindsCatchUp ==
    \A u \in Used, k \in 1 .. kindsDb :
        born[k] + TTL <= u.used.at =>
            \/ k <= u.used.data.kinds
            \/ u.used.data.began <= born[k] /\ born[k] < u.used.data.loadedAt

(* What alerts.engine.test.ts:202 says: "invalidateRulesCache forces the     *)
(* next evaluate() to reload rules".                                         *)
InvalidateForcesReload == \A u \in Used : u.used.data.rules >= u.need
==============================================================================
