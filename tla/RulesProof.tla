----------------------------- MODULE RulesProof ------------------------------
(***************************************************************************)
(* Proofs about the engine's cache of rules and device kinds, for any       *)
(* number of evaluations, edits and devices and every TTL: when an edit and *)
(* when a new device are seen.                                              *)
(***************************************************************************)
EXTENDS RulesCache, SequenceTheorems, TLAPS

-----------------------------------------------------------------------------
(* The inductive invariant. *)

(* The load in progress, whose queries have answered or not. *)
Loads == [rules : Nat \cup {None}, kinds : Nat \cup {None}, began : Nat, raced : BOOLEAN]
Results == [data : Cached, at : Nat]
Stages == {"idle", "waiting", "used", "failed"}

(* An evaluation that goes on has a cache to go on with. *)
UsedHasCache == \A e \in Evals : evals[e].pc = "used" => evals[e].used \in Results

(* Nobody knows more than the database holds. *)
InvalidatedBefore == invalidated <= rulesDb

(* What is cached, or read for it, is not older than the last invalidation,  *)
(* unless that fell into the load; so who waits for the load, or has used    *)
(* it, sees what was committed before he started.                            *)
CacheIsRecent == cache # None => cache.raced \/ cache.rules >= invalidated
LoadIsRecent ==
    loading # None /\ loading.rules # None => loading.raced \/ loading.rules >= invalidated
NeedsKept ==
    \A e \in Evals :
        /\ evals[e].pc = "waiting" => evals[e].need <= invalidated
        /\ evals[e].pc = "used" =>
              evals[e].used.data.raced \/ evals[e].used.data.rules >= evals[e].need

(* A kind that was not read was born after the load began ... *)
Since(kinds, began) == \A k \in 1 .. kindsDb : k <= kinds \/ began <= born[k]
KindsRead ==
    /\ cache # None => /\ Since(cache.kinds, cache.began)
                       /\ cache.began <= clock /\ cache.loadedAt <= clock
    /\ loading # None =>
          loading.began <= clock /\ (loading.kinds # None => Since(loading.kinds, loading.began))
    /\ \A e \in Evals : evals[e].pc = "used" =>
          /\ Since(evals[e].used.data.kinds, evals[e].used.data.began)
          /\ evals[e].used.data.began <= clock

(* ... and a cache is used within the TTL of its load. *)
UsedInTime ==
    \A e \in Evals : evals[e].pc = "used" =>
        evals[e].used.at < evals[e].used.data.loadedAt + TTL

CacheInv ==
    /\ CacheTypeOK /\ UsedHasCache
    /\ InvalidatedBefore /\ CacheIsRecent /\ LoadIsRecent /\ NeedsKept
    /\ KindsRead /\ UsedInTime

-----------------------------------------------------------------------------
(* The two ways an evaluation gets its cache. *)

EvalRecords == [pc : Stages, need : Nat, used : Results \cup {None}]

LEMMA Using ==
    ASSUME NEW rec \in EvalRecords, NEW c \in Cached, clock \in Nat
    PROVE  /\ Use(rec, c) \in EvalRecords
           /\ Use(rec, c).pc = "used" /\ Use(rec, c).need = rec.need
           /\ Use(rec, c).used \in Results
           /\ Use(rec, c).used.data = c /\ Use(rec, c).used.at = clock
<1>1. [data |-> c, at |-> clock] \in Results
  BY DEF Results
<1> QED BY <1>1 DEF Use, EvalRecords, Stages

LEMMA Types ==
    ASSUME CacheTypeOK
    PROVE  /\ clock \in Nat /\ rulesDb \in Nat /\ invalidated \in Nat
           /\ born \in Seq(Nat) /\ kindsDb \in Nat /\ \A k \in 1 .. kindsDb : born[k] \in Nat
           /\ \A e \in Evals : evals[e] \in EvalRecords
           /\ cache # None => cache \in Cached
           /\ loading # None => loading \in Loads
  BY CacheAssumption, ElementOfSeq DEF CacheTypeOK, EvalRecords, Stages, Results, Loads, kindsDb

LEMMA InitCache == Init => CacheInv
<1> SUFFICES ASSUME Init PROVE CacheInv
  OBVIOUS
<1>1. CacheTypeOK
  <2>1. clock \in 0 .. MaxClock
    BY CacheAssumption DEF Init
  <2> QED BY <2>1 DEF Init, CacheTypeOK
<1> QED BY <1>1 DEF Init, CacheInv, UsedHasCache, InvalidatedBefore, CacheIsRecent, LoadIsRecent,
               NeedsKept, KindsRead, UsedInTime

-----------------------------------------------------------------------------
(* One lemma for each kind of step. *)

(* evaluate(): one evaluation uses a fresh cache, or waits for a load. *)
LEMMA EvaluateStep == ASSUME CacheInv, NEW e \in Evals, Evaluate(e) PROVE CacheInv'
<1>1. /\ clock \in Nat /\ invalidated \in Nat
      /\ \A f \in Evals : evals[f] \in EvalRecords
      /\ cache # None => cache \in Cached
      /\ loading # None => loading \in Loads
      /\ evals \in [Evals -> EvalRecords]
  BY Types DEF CacheInv, CacheTypeOK, EvalRecords, Stages, Results
<1>2. /\ \A f \in Evals : f # e => evals'[f] = evals[f]
      /\ UNCHANGED <<clock, rulesDb, born, edits, cache, invalidated>>
  BY <1>1 DEF Evaluate
<1>3. CASE Fresh /\ UNCHANGED loading
           /\ evals' = [evals EXCEPT ![e] = Use([evals[e] EXCEPT !.need = invalidated], cache)]
  <2> DEFINE rec == [evals[e] EXCEPT !.need = invalidated]
  <2>1. rec \in EvalRecords /\ rec.need = invalidated
    BY <1>1 DEF EvalRecords
  <2>2. cache \in Cached /\ cache # None /\ clock < cache.loadedAt + TTL
    BY <1>1, <1>3, CacheAssumption DEF Fresh, Cached
  <2>3. evals'[e] = Use(rec, cache)
    BY <1>1, <1>3
  <2> HIDE DEF rec
  <2>4. /\ evals'[e] \in EvalRecords
        /\ evals'[e].pc = "used" /\ evals'[e].need = invalidated
        /\ evals'[e].used \in Results
        /\ evals'[e].used.data = cache /\ evals'[e].used.at = clock
    BY <1>1, <2>1, <2>2, <2>3, Using
  <2>5. evals' \in [Evals -> EvalRecords]
    BY <1>1, <1>3, <2>3, <2>4
  <2>6. CacheTypeOK'
    BY <1>2, <1>3, <2>5 DEF CacheInv, CacheTypeOK, EvalRecords, Stages, Results
  <2>7. UsedHasCache' /\ InvalidatedBefore' /\ CacheIsRecent' /\ LoadIsRecent'
    BY <1>2, <1>3, <2>4 DEF CacheInv, UsedHasCache, InvalidatedBefore, CacheIsRecent, LoadIsRecent
  <2>8. NeedsKept'
    BY <1>2, <2>2, <2>4 DEF CacheInv, NeedsKept, CacheIsRecent
  <2>9. KindsRead' /\ UsedInTime'
    BY <1>2, <1>3, <2>2, <2>4 DEF CacheInv, KindsRead, UsedInTime, Since, kindsDb
  <2> QED BY <2>6, <2>7, <2>8, <2>9 DEF CacheInv
<1>4. CASE ~Fresh /\ evals' = [evals EXCEPT ![e].pc = "waiting", ![e].need = invalidated]
           /\ loading' = IF loading = None THEN EmptyLoad ELSE loading
  <2>1. /\ evals' \in [Evals -> EvalRecords]
        /\ evals'[e].pc = "waiting" /\ evals'[e].need = invalidated
    BY <1>1, <1>4 DEF EvalRecords, Stages
  <2>2. /\ EmptyLoad \in Loads /\ EmptyLoad.rules = None /\ EmptyLoad.kinds = None
        /\ EmptyLoad.began = clock
    BY <1>1 DEF EmptyLoad, Loads
  <2>3. CacheTypeOK'
    BY <1>1, <1>2, <1>4, <2>1, <2>2 DEF CacheInv, CacheTypeOK, EvalRecords, Stages, Results, Loads
  <2>4. UsedHasCache' /\ InvalidatedBefore' /\ CacheIsRecent' /\ NeedsKept' /\ UsedInTime'
    BY <1>1, <1>2, <2>1 DEF CacheInv, UsedHasCache, InvalidatedBefore, CacheIsRecent, NeedsKept,
                       UsedInTime
  <2>5. LoadIsRecent'
    BY <1>2, <1>4, <2>2 DEF CacheInv, LoadIsRecent
  <2>6. KindsRead'
    BY <1>1, <1>2, <1>4, <2>1, <2>2 DEF CacheInv, KindsRead, Since, kindsDb
  <2> QED BY <2>3, <2>4, <2>5, <2>6 DEF CacheInv
<1> QED BY <1>3, <1>4 DEF Evaluate

(* One of the two queries answers. *)
LEMMA ReadStep == ASSUME CacheInv, ReadRules \/ ReadKinds PROVE CacheInv'
<1>1. /\ rulesDb \in Nat /\ kindsDb \in Nat /\ loading \in Loads /\ loading # None
      /\ UNCHANGED <<clock, rulesDb, born, edits, cache, evals, invalidated>>
  BY Types DEF CacheInv, ReadRules, ReadKinds
<1>2. /\ loading' \in Loads
      /\ loading'.began = loading.began /\ loading'.raced = loading.raced
  BY <1>1 DEF ReadRules, ReadKinds, Loads
<1>3. CacheTypeOK'
  BY <1>1, <1>2 DEF CacheInv, CacheTypeOK, Loads
<1>4. UsedHasCache' /\ InvalidatedBefore' /\ CacheIsRecent' /\ NeedsKept' /\ UsedInTime'
  BY <1>1 DEF CacheInv, UsedHasCache, InvalidatedBefore, CacheIsRecent, NeedsKept, UsedInTime
<1>5. LoadIsRecent'
  <2>1. CASE ReadRules
    BY <1>1, <2>1 DEF ReadRules, Loads, CacheInv, LoadIsRecent, InvalidatedBefore, CacheTypeOK
  <2>2. CASE ReadKinds
    BY <1>1, <1>2, <2>2 DEF ReadKinds, Loads, CacheInv, LoadIsRecent
  <2> QED BY <2>1, <2>2
<1>6. KindsRead'
  <2>1. CASE ReadRules
    <3>1. loading'.kinds = loading.kinds
      BY <1>1, <2>1 DEF ReadRules, Loads
    <3> QED BY <1>1, <1>2, <3>1 DEF CacheInv, KindsRead, Since, kindsDb
  <2>2. CASE ReadKinds
    <3>1. loading'.kinds = kindsDb
      BY <1>1, <2>2 DEF ReadKinds, Loads
    <3>2. Since(kindsDb, loading.began)'
      BY <1>1 DEF Since, kindsDb
    <3> QED BY <1>1, <1>2, <3>1, <3>2 DEF CacheInv, KindsRead, Since, kindsDb
  <2> QED BY <2>1, <2>2
<1> QED BY <1>3, <1>4, <1>5, <1>6 DEF CacheInv

(* Both have answered, or one rejects: everybody who waits goes on. *)
LEMMA LoadReturnsStep == ASSUME CacheInv, LoadReturns PROVE CacheInv'
<1>1. /\ clock \in Nat /\ invalidated \in Nat /\ rulesDb \in Nat
      /\ evals \in [Evals -> EvalRecords]
      /\ loading \in Loads /\ loading # None /\ loading.rules \in Nat /\ loading.kinds \in Nat
      /\ loading.rules # None /\ loading.kinds # None
      /\ UNCHANGED <<clock, rulesDb, born, edits, invalidated>> /\ loading' = None
  BY Types DEF CacheInv, CacheTypeOK, LoadReturns, Loads, EvalRecords, Stages, Results
<1>2. /\ cache' \in Cached
      /\ cache'.rules = loading.rules /\ cache'.kinds = loading.kinds
      /\ cache'.loadedAt = clock /\ cache'.began = loading.began
      /\ cache'.raced = loading.raced
  BY <1>1 DEF LoadReturns, Cached, Loads
<1>3. \A e \in Evals :
         /\ evals[e].pc # "waiting" => evals'[e] = evals[e]
         /\ evals[e].pc = "waiting" =>
               /\ evals'[e] \in EvalRecords
               /\ evals'[e].pc = "used" /\ evals'[e].need = evals[e].need
               /\ evals'[e].used \in Results
               /\ evals'[e].used.data = cache' /\ evals'[e].used.at = clock
  <2> SUFFICES ASSUME NEW e \in Evals
               PROVE  /\ evals[e].pc # "waiting" => evals'[e] = evals[e]
                      /\ evals[e].pc = "waiting" =>
                            /\ evals'[e] \in EvalRecords
                            /\ evals'[e].pc = "used" /\ evals'[e].need = evals[e].need
                            /\ evals'[e].used \in Results
                            /\ evals'[e].used.data = cache' /\ evals'[e].used.at = clock
    OBVIOUS
  <2>1. evals'[e] = IF evals[e].pc = "waiting" THEN Use(evals[e], cache') ELSE evals[e]
    BY DEF LoadReturns
  <2> QED BY <1>1, <1>2, <2>1, Using
<1>4. evals' \in [Evals -> EvalRecords]
  <2>1. \A e \in Evals : evals'[e] \in EvalRecords
    BY <1>1, <1>3
  <2>2. evals' = [e \in Evals |-> evals'[e]]
    BY DEF LoadReturns
  <2> QED BY <2>1, <2>2
<1>5. CacheTypeOK'
  BY <1>1, <1>2, <1>4 DEF CacheInv, CacheTypeOK, EvalRecords, Stages, Results
<1>6. cache'.raced \/ cache'.rules >= invalidated
  BY <1>1, <1>2 DEF CacheInv, LoadIsRecent
<1>7. UsedHasCache' /\ InvalidatedBefore' /\ CacheIsRecent' /\ LoadIsRecent'
  BY <1>1, <1>3, <1>6 DEF CacheInv, UsedHasCache, InvalidatedBefore, CacheIsRecent, LoadIsRecent
<1>8. NeedsKept'
  <2>1. \A e \in Evals : evals[e].need \in Nat
    BY <1>1 DEF EvalRecords
  <2>2. cache'.rules \in Nat
    BY <1>1, <1>2
  <2> QED BY <1>1, <1>3, <1>6, <2>1, <2>2 DEF CacheInv, NeedsKept
<1>9. KindsRead' /\ UsedInTime'
  <2>1. /\ \A k \in 1 .. Len(born') : k <= loading.kinds \/ loading.began <= born'[k]
        /\ loading.began <= clock
    BY <1>1 DEF CacheInv, KindsRead, Since, kindsDb
  <2>2. clock < clock + TTL
    BY <1>1, CacheAssumption
  <2> QED BY <1>1, <1>2, <1>3, <2>1, <2>2 DEF CacheInv, KindsRead, UsedInTime, Since, kindsDb
<1> QED BY <1>5, <1>7, <1>8, <1>9 DEF CacheInv

LEMMA LoadFailsStep == ASSUME CacheInv, LoadFails PROVE CacheInv'
<1>1. /\ evals \in [Evals -> EvalRecords] /\ loading' = None
      /\ UNCHANGED <<clock, rulesDb, born, edits, cache, invalidated>>
  BY DEF CacheInv, CacheTypeOK, LoadFails, EvalRecords, Stages, Results
<1>2. \A e \in Evals : /\ evals'[e] = evals[e] \/ evals'[e].pc = "failed"
                       /\ evals'[e] \in EvalRecords
  BY <1>1 DEF LoadFails, EvalRecords, Stages
<1>3. evals' \in [Evals -> EvalRecords]
  <2>1. evals' = [e \in Evals |-> evals'[e]]
    BY DEF LoadFails
  <2> QED BY <1>2, <2>1
<1>4. CacheTypeOK'
  BY <1>1, <1>3 DEF CacheInv, CacheTypeOK, EvalRecords, Stages, Results
<1> QED BY <1>1, <1>2, <1>4 DEF CacheInv, UsedHasCache, InvalidatedBefore, CacheIsRecent,
           LoadIsRecent, NeedsKept, KindsRead, UsedInTime, Since, kindsDb

(* The rules API commits, and invalidates. *)
LEMMA EditStep == ASSUME CacheInv, NEW w \in Edits, CommitEdit(w) \/ Invalidate(w) PROVE CacheInv'
<1>1. /\ rulesDb \in Nat /\ invalidated \in Nat
      /\ loading # None => loading \in Loads
      /\ \A e \in Evals : evals[e] \in EvalRecords
  BY Types DEF CacheInv
<1>2. UNCHANGED <<clock, born, evals>>
  BY DEF CommitEdit, Invalidate
<1>3. CASE CommitEdit(w)
  <2>1. rulesDb' = rulesDb + 1 /\ UNCHANGED <<cache, loading, invalidated>>
    BY <1>3 DEF CommitEdit
  <2>2. CacheTypeOK'
    BY <1>1, <1>2, <1>3, <2>1 DEF CommitEdit, CacheInv, CacheTypeOK
  <2>3. InvalidatedBefore'
    BY <1>1, <2>1 DEF CacheInv, InvalidatedBefore
  <2> QED BY <1>2, <2>1, <2>2, <2>3 DEF CacheInv, UsedHasCache, CacheIsRecent, LoadIsRecent,
             NeedsKept, KindsRead, UsedInTime, Since, kindsDb
<1>4. CASE Invalidate(w)
  <2>1. cache' = None /\ invalidated' = rulesDb /\ rulesDb' = rulesDb
    BY <1>4 DEF Invalidate
  <2>2. CASE loading = None
    <3>1. loading' = None
      BY <1>4, <2>2 DEF Invalidate
    <3>2. CacheTypeOK'
      BY <1>1, <1>2, <1>4, <2>1, <3>1 DEF Invalidate, CacheInv, CacheTypeOK
    <3>3. NeedsKept'
      BY <1>1, <1>2, <2>1 DEF CacheInv, NeedsKept, InvalidatedBefore, EvalRecords
    <3> QED BY <1>1, <1>2, <2>1, <3>1, <3>2, <3>3 DEF CacheInv, UsedHasCache, InvalidatedBefore,
               CacheIsRecent, LoadIsRecent, KindsRead, UsedInTime, Since, kindsDb
  <2>3. CASE loading # None
    <3>1. /\ loading' \in Loads /\ loading'.raced
          /\ loading'.kinds = loading.kinds /\ loading'.began = loading.began
      BY <1>1, <1>4, <2>3 DEF Invalidate, Loads
    <3>2. CacheTypeOK'
      BY <1>1, <1>2, <1>4, <2>1, <3>1 DEF Invalidate, CacheInv, CacheTypeOK, Loads
    <3>3. NeedsKept'
      BY <1>1, <1>2, <2>1 DEF CacheInv, NeedsKept, InvalidatedBefore, EvalRecords
    <3> QED BY <1>1, <1>2, <2>1, <2>3, <3>1, <3>2, <3>3 DEF CacheInv, UsedHasCache,
               InvalidatedBefore, CacheIsRecent, LoadIsRecent, KindsRead, UsedInTime, Since, kindsDb
  <2> QED BY <2>2, <2>3
<1> QED BY <1>3, <1>4

(* A device is added: it is younger than every load. *)
LEMMA ProvisionStep == ASSUME CacheInv, Provision PROVE CacheInv'
<1>1. /\ clock \in Nat /\ born \in Seq(Nat)
      /\ UNCHANGED <<clock, rulesDb, edits, cache, loading, evals, invalidated>>
  BY Types DEF CacheInv, Provision
<1>2. /\ born' \in Seq(Nat) /\ Len(born') = Len(born) + 1
      /\ born'[Len(born) + 1] = clock /\ \A k \in 1 .. Len(born) : born'[k] = born[k]
  BY <1>1 DEF Provision
<1>3. \A kinds, began : Since(kinds, began) /\ began <= clock => Since(kinds, began)'
  <2> SUFFICES ASSUME NEW kinds, NEW began, Since(kinds, began), began <= clock,
                      NEW k \in 1 .. Len(born')
               PROVE  k <= kinds \/ began <= born'[k]
    BY DEF Since, kindsDb
  <2>1. CASE k \in 1 .. Len(born)
    BY <1>2, <2>1 DEF Since, kindsDb
  <2>2. CASE k = Len(born) + 1
    BY <1>2, <2>2
  <2> QED BY <1>1, <1>2, <2>1, <2>2
<1>4. CacheTypeOK'
  BY <1>1, <1>2 DEF CacheInv, CacheTypeOK
<1>5. KindsRead'
  BY <1>1, <1>3 DEF CacheInv, KindsRead, Since, kindsDb
<1> QED BY <1>1, <1>4, <1>5 DEF CacheInv, UsedHasCache, InvalidatedBefore, CacheIsRecent,
           LoadIsRecent, NeedsKept, UsedInTime

LEMMA TickStep == ASSUME CacheInv, Tick PROVE CacheInv'
<1>1. /\ clock \in Nat /\ clock' = clock + 1 /\ clock' \in 0 .. MaxClock
      /\ UNCHANGED <<rulesDb, born, edits, cache, loading, evals, invalidated>>
  BY Types, CacheAssumption DEF CacheInv, CacheTypeOK, Tick
<1>2. CacheTypeOK'
  BY <1>1 DEF CacheInv, CacheTypeOK
<1>3. \A t \in Nat : t <= clock => t <= clock'
  BY <1>1
<1>4. KindsRead'
  <2>1. /\ cache # None => cache.began \in Nat /\ cache.loadedAt \in Nat
        /\ loading # None => loading.began \in Nat
        /\ \A e \in Evals : evals[e].pc = "used" => evals[e].used.data.began \in Nat
    BY Types DEF CacheInv, UsedHasCache, Results, Cached, Loads
  <2> QED BY <1>1, <1>3, <2>1 DEF CacheInv, KindsRead, Since, kindsDb
<1> QED BY <1>1, <1>2, <1>4 DEF CacheInv, UsedHasCache, InvalidatedBefore, CacheIsRecent,
           LoadIsRecent, NeedsKept, UsedInTime

LEMMA CacheStep == CacheInv /\ [Next]_vars => CacheInv'
<1> SUFFICES ASSUME CacheInv, [Next]_vars PROVE CacheInv'
  OBVIOUS
<1>1. CASE UNCHANGED vars
  BY <1>1 DEF vars, CacheInv, CacheTypeOK, UsedHasCache, InvalidatedBefore, CacheIsRecent,
     LoadIsRecent, NeedsKept, KindsRead, UsedInTime, Since, kindsDb
<1> QED BY <1>1, EvaluateStep, ReadStep, LoadReturnsStep, LoadFailsStep, EditStep, ProvisionStep,
           TickStep DEF Next

-----------------------------------------------------------------------------
(* The inductive invariant of the rules cache. *)
THEOREM CacheSafety == Spec => []CacheInv
  BY InitCache, CacheStep, PTL DEF Spec

(* The types of the cache, the load in progress and the evaluations. *)
THEOREM CacheTypes == Spec => []CacheTypeOK
<1>1. CacheInv => CacheTypeOK
  BY DEF CacheInv
<1> QED BY <1>1, CacheSafety, PTL

(* An evaluation that starts after invalidateRulesCache() sees the write     *)
(* that was invalidated for, unless a load was running at the time.          *)
THEOREM EditsAreSeen == Spec => []EditTakesEffect
<1>1. CacheInv => EditTakesEffect
  BY DEF CacheInv, NeedsKept, EditTakesEffect, Used
<1> QED BY <1>1, CacheSafety, PTL

(* A kind that was added is seen a TTL later, though nothing is invalidated  *)
(* for it, unless the load in use was under way when it was added.           *)
THEOREM KindsAreSeen == Spec => []KindsCatchUp
<1>1. CacheInv => KindsCatchUp
  <2> SUFFICES ASSUME CacheInv, NEW e \in Evals, evals[e].pc = "used", NEW k \in 1 .. kindsDb,
                      born[k] + TTL <= evals[e].used.at
               PROVE  \/ k <= evals[e].used.data.kinds
                      \/ /\ evals[e].used.data.began <= born[k]
                         /\ born[k] < evals[e].used.data.loadedAt
    BY DEF KindsCatchUp, Used
  <2>1. /\ evals[e].used.at \in Nat /\ evals[e].used.data.loadedAt \in Nat /\ born[k] \in Nat
        /\ TTL \in Nat
    BY Types, CacheAssumption DEF CacheInv, UsedHasCache, Results, Cached
  <2>2. evals[e].used.at < evals[e].used.data.loadedAt + TTL
    BY DEF CacheInv, UsedInTime
  <2>3. k <= evals[e].used.data.kinds \/ evals[e].used.data.began <= born[k]
    BY DEF CacheInv, KindsRead, Since
  <2> QED BY <2>1, <2>2, <2>3
<1> QED BY <1>1, CacheSafety, PTL
==============================================================================
