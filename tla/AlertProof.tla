------------------------------ MODULE AlertProof ------------------------------
(***************************************************************************)
(* The safety of the alert engine for any rules, devices, durations and     *)
(* cooldowns, and any number of points, restarts and clock readings.        *)
(*                                                                          *)
(* Three things make it inductive.  An object belongs to one key for good,  *)
(* the one of the evaluation and the rule it was made for, and so does a    *)
(* row.  A row is called active by one object at most, and a pending UPDATE *)
(* of it was started from that object: its return finds the object, or an   *)
(* object that has moved on.  And while the evaluations of a device do not  *)
(* overlap, the one in progress holds what `states` refers to.              *)
(***************************************************************************)
EXTENDS AlertEngine, TLAPS

Owner(o) == Key(o[1], o[2])

(* An object or a row can exist once its evaluation took its rule. *)
Used(o) == evals[o[1]].pc # "idle" /\ o[2] \notin evals[o[1]].todo

Awaits(e) == evals[e].pc \in {"firing", "resolving"}

(* How an evaluation looks in each place it can be. *)
EvalOK(e) ==
    LET v == evals[e] IN
    /\ v.pc = "idle" => v = NotStarted /\ e \notin earlier
    /\ v.pc # "idle" /\ e \notin earlier => v.device \in Devices
    /\ e \in earlier => v = Ended(NotStarted)
    /\ ~Awaits(e) => v.rule = None
    /\ Awaits(e) => /\ v.rule \in Rules \ v.todo /\ v.now \in Time
                    /\ v.obj \in Ids /\ Used(v.obj) /\ Owner(v.obj) = Key(e, v.rule)
    /\ v.pc = "firing" => v.rule \in v.hot /\ alerts[<<e, v.rule>>].st = "none"
    /\ v.pc = "resolving" => /\ v.rule \notin v.hot /\ v.alert \in Ids
                             /\ alerts[v.alert].st # "none"

EvalsOK == \A e \in Evals : EvalOK(e)

(* Points are evaluated in the order they came. *)
InOrder == \A e, f \in Evals : evals[e].pc = "idle" /\ e < f => evals[f].pc = "idle"

(* The latest evaluation of a device that is not overlapped is the only one  *)
(* that can be in progress.                                                  *)
OneAtATime ==
    \A e, f \in Evals :
        InProgress(e) /\ evals[e].device \notin overlapped /\ e < f
            => evals[f].device # evals[e].device

RowsUsed == \A a \in Ids : alerts[a].st # "none" => Used(a) /\ alerts[a].at \in Time

StatesOwned ==
    \A k \in Keys : states[k] # None =>
        states[k] \in Ids /\ Used(states[k]) /\ Owner(states[k]) = k

(* What an object calls active is a row of its key, open unless a statement  *)
(* of the key failed; and no two objects call the same row active.           *)
ActiveOwned(o) ==
    /\ ~Used(o) => heap[o] = Undefined
    /\ heap[o].active # None =>
          /\ heap[o].pendingSince = None
          /\ Owner(heap[o].active) = Owner(o)
          /\ alerts[heap[o].active].st # "none"
          /\ alerts[heap[o].active].st = "open" \/ Owner(o) \in faulted

ActiveOnce ==
    \A o, p \in Ids : heap[o].active # None /\ heap[o].active = heap[p].active => o = p

(* An UPDATE that is awaited is of a row no other object calls active. *)
ResolvesOwn(e) ==
    evals[e].pc = "resolving" =>
        \A o \in Ids : heap[o].active = evals[e].alert => o = evals[e].obj

(* What is awaited for a device that is not overlapped is for the object and *)
(* the alert that `states` still refers to.                                  *)
AwaitsCurrent(e) ==
    Awaits(e) /\ evals[e].device \notin overlapped =>
        LET k == Key(e, evals[e].rule) IN
        /\ states[k] = None => evals[e].pc = "firing"
        /\ states[k] # None => states[k] = evals[e].obj
        /\ evals[e].pc = "firing" => ActiveOf(k) = None
        /\ evals[e].pc = "resolving" => ActiveOf(k) = evals[e].alert

(* A run of violations began no later than the wait it started. *)
PendingIsHot(k) ==
    /\ hotSince[k] # None => hotSince[k] <= clock
    /\ states[k] # None /\ heap[states[k]].pendingSince # None =>
          hotSince[k] # None /\ hotSince[k] <= heap[states[k]].pendingSince

(* lastFiredAt remembers the latest row of a key, ... *)
Remembered(a) ==
    alerts[a].st # "none" /\ a[1] \notin earlier /\ Sequential(Owner(a)) =>
        /\ states[Owner(a)] # None
        /\ heap[states[Owner(a)]].lastFiredAt # None
        /\ alerts[a].at <= heap[states[Owner(a)]].lastFiredAt

(* ... and an INSERT that is awaited comes a cooldown after each of them. *)
FiresCooled(e) ==
    \A a \in Ids :
        /\ alerts[a].st # "none" /\ a[1] \notin earlier /\ evals[e].pc = "firing"
        /\ Owner(a) = Key(e, evals[e].rule) /\ Sequential(Owner(a))
        => alerts[a].at + Cooldown[a[2]] <= evals[e].now

AInv ==
    /\ AlertTypeOK /\ EvalsOK /\ InOrder /\ OneAtATime /\ RowsUsed /\ StatesOwned
    /\ (\A o \in Ids : ActiveOwned(o)) /\ ActiveOnce
    /\ \A e \in Evals : ResolvesOwn(e) /\ AwaitsCurrent(e) /\ FiresCooled(e)
    /\ (\A k \in Keys : PendingIsHot(k)) /\ (\A a \in Ids : Remembered(a))
    /\ OpenIsActive /\ CooldownKept

-----------------------------------------------------------------------------
(* A step of evaluation e, which was in progress and stays on its device. *)
Moves(e) ==
    /\ InProgress(e)
    /\ evals' \in [Evals -> Evaluation]
    /\ \A f \in Evals \ {e} : evals'[f] = evals[f]
    /\ evals'[e].pc # "idle" /\ evals'[e].device = evals[e].device
    /\ evals'[e].todo \subseteq evals[e].todo
    /\ earlier' = earlier /\ overlapped' = overlapped

(* What is in progress was started by this process. *)
LEMMA InProgressFacts ==
    ASSUME AInv, NEW e \in Evals, InProgress(e)
    PROVE  /\ e \notin earlier /\ evals[e].device \in Devices
           /\ \A r \in Rules : Key(e, r) \in Keys
<1>1. evals[e] \in Evaluation
  BY DEF AInv, AlertTypeOK
<1>2. e \notin earlier
  BY DEF AInv, EvalsOK, EvalOK, InProgress, Ended, NotStarted
<1> QED
  BY <1>2 DEF AInv, EvalsOK, EvalOK, InProgress, Keys, Key

LEMMA ContinueMoves ==
    ASSUME AInv, NEW e \in Evals, NEW r \in Rules, InProgress(e), Continue(e, r),
           UNCHANGED <<earlier, overlapped>>
    PROVE  /\ Moves(e)
           /\ evals'[e].pc \in {"between", "done"} /\ evals'[e].rule = None
           /\ evals'[e].todo = evals[e].todo \ {r} /\ evals'[e].hot = evals[e].hot \ {r}
<1>1. evals \in [Evals -> Evaluation]
  BY DEF AInv, AlertTypeOK
<1>2. evals'[e] = [NotStarted EXCEPT !.pc = IF evals[e].todo \ {r} = {} THEN "done" ELSE "between",
                                    !.device = evals[e].device,
                                    !.todo = evals[e].todo \ {r},
                                    !.hot = evals[e].hot \ {r}]
  BY <1>1 DEF Continue
<1>3. /\ evals'[e].pc \in {"between", "done"} /\ evals'[e].rule = None
      /\ evals'[e].device = evals[e].device
      /\ evals'[e].todo = evals[e].todo \ {r} /\ evals'[e].hot = evals[e].hot \ {r}
  BY <1>2 DEF NotStarted
<1>4. evals'[e] \in Evaluation
  <2>1. evals[e].todo \ {r} \subseteq Rules /\ evals[e].hot \ {r} \subseteq Rules
    BY <1>1 DEF Evaluation
  <2>2. evals[e].device \in Devices \cup {None}
    BY <1>1 DEF Evaluation
  <2> QED
    BY <1>2, <2>1, <2>2 DEF NotStarted, Evaluation
<1>5. evals' \in [Evals -> Evaluation] /\ \A f \in Evals \ {e} : evals'[f] = evals[f]
  BY <1>1, <1>4 DEF Continue
<1> QED
  BY <1>3, <1>5 DEF Moves

LEMMA AwaitMoves ==
    ASSUME AInv, NEW e \in Evals, NEW r \in Rules, evals[e].pc = "between",
           NEW pc \in {"firing", "resolving"}, NEW alert \in Ids \cup {None},
           Await(e, r, pc, alert), UNCHANGED <<earlier, overlapped>>
    PROVE  /\ Moves(e)
           /\ evals'[e].pc = pc /\ evals'[e].rule = r /\ evals'[e].now = clock
           /\ evals'[e].obj = ObjectFor(e, r) /\ evals'[e].alert = alert
           /\ evals'[e].todo = evals[e].todo \ {r} /\ evals'[e].hot = evals[e].hot
<1>1. evals \in [Evals -> Evaluation] /\ clock \in Time
  BY DEF AInv, AlertTypeOK
<1>2. evals'[e] = [evals[e] EXCEPT !.pc = pc, !.todo = @ \ {r}, !.rule = r, !.now = clock,
                                  !.obj = ObjectFor(e, r), !.alert = alert]
  BY <1>1 DEF Await
<1>3. /\ evals'[e].pc = pc /\ evals'[e].rule = r /\ evals'[e].now = clock
      /\ evals'[e].obj = ObjectFor(e, r) /\ evals'[e].alert = alert
      /\ evals'[e].todo = evals[e].todo \ {r} /\ evals'[e].hot = evals[e].hot
      /\ evals'[e].device = evals[e].device
  <2>1. evals[e] \in Evaluation
    BY <1>1
  <2> QED
    BY <1>2, <2>1, SMTT(30) DEF Evaluation
<1>4. ObjectFor(e, r) \in Ids
  <2>1. Key(e, r) \in Keys
    BY InProgressFacts DEF InProgress
  <2> QED
    BY <2>1 DEF AInv, AlertTypeOK, ObjectFor, Ids
<1>5. evals'[e] \in Evaluation
  <2>1. evals[e] \in Evaluation /\ evals[e].todo \ {r} \in SUBSET Rules
    BY <1>1 DEF Evaluation
  <2> QED
    <3> DEFINE v == evals[e]
    <3>1. evals'[e] = [pc |-> pc, device |-> v.device, todo |-> v.todo \ {r}, hot |-> v.hot,
                      rule |-> r, now |-> clock, obj |-> ObjectFor(e, r), alert |-> alert]
      BY <1>2, <2>1 DEF Evaluation
    <3>2. v.device \in Devices \cup {None} /\ v.hot \in SUBSET Rules
      BY <2>1 DEF Evaluation
    <3> QED
      BY <1>1, <1>4, <2>1, <3>1, <3>2 DEF Evaluation
<1>6. evals' \in [Evals -> Evaluation] /\ \A f \in Evals \ {e} : evals'[f] = evals[f]
  BY <1>1, <1>5 DEF Await
<1>7. InProgress(e)
  BY DEF InProgress
<1> QED
  BY <1>3, <1>6, <1>7 DEF Moves

(* What a step of one evaluation leaves alone. *)
LEMMA MovesFacts ==
    ASSUME AInv, NEW e \in Evals, Moves(e)
    PROVE  /\ \A f \in Evals, r \in Rules : Key(f, r)' = Key(f, r)
           /\ \A o \in Ids : Owner(o)' = Owner(o) /\ (Used(o) => Used(o)')
           /\ InOrder' /\ OneAtATime'
<1>1. /\ evals \in [Evals -> Evaluation]
      /\ \A f \in Evals : evals'[f].device = evals[f].device
  BY DEF AInv, AlertTypeOK, Moves
<1>2. \A f \in Evals, r \in Rules : Key(f, r)' = Key(f, r)
  BY <1>1 DEF Key
<1>3. \A o \in Ids : Owner(o)' = Owner(o) /\ (Used(o) => Used(o)')
  BY <1>1 DEF Owner, Key, Used, Moves, Ids
<1>4. \A f \in Evals : (evals'[f].pc = "idle" <=> evals[f].pc = "idle") /\ (InProgress(f)' => InProgress(f))
  BY DEF Moves, InProgress
<1>5. InOrder'
  BY <1>4 DEF AInv, InOrder
<1>6. OneAtATime'
  BY <1>1, <1>4 DEF AInv, OneAtATime, Moves
<1> QED
  BY <1>2, <1>3, <1>5, <1>6
(* Two evaluations in progress for a device that is not overlapped are one. *)
LEMMA Alone ==
    ASSUME AInv, NEW e \in Evals, NEW f \in Evals, InProgress(e), InProgress(f),
           evals[e].device = evals[f].device, evals[e].device \notin overlapped
    PROVE  e = f
<1>1. e \in Nat /\ f \in Nat
  BY AlertAssumption DEF Evals
<1> QED
  BY <1>1 DEF AInv, OneAtATime

(* What is in the other evaluations stays true while rows only come and go   *)
(* for e.                                                                    *)
LEMMA OtherEvals ==
    ASSUME AInv, NEW e \in Evals, Moves(e), EvalOK(e)',
           \A a \in Ids : alerts[a].st # "none" => alerts'[a].st # "none",
           \A a \in Ids : alerts[a].st = "none" /\ alerts'[a].st # "none" => a[1] = e
    PROVE  EvalsOK'
<1> SUFFICES ASSUME NEW f \in Evals, f # e PROVE EvalOK(f)'
  BY DEF EvalsOK
<1>1. EvalOK(f) /\ evals'[f] = evals[f] /\ earlier' = earlier
  BY DEF AInv, EvalsOK, Moves
<1>2. \A o \in Ids : Owner(o)' = Owner(o) /\ (Used(o) => Used(o)')
  BY MovesFacts
<1>3. \A r \in Rules : Key(f, r)' = Key(f, r)
  BY MovesFacts
<1>4. \A r \in Rules : alerts[<<f, r>>].st = "none" => alerts'[<<f, r>>].st = "none"
  BY DEF Ids
<1> QED
  BY <1>1, <1>2, <1>3, <1>4 DEF EvalOK, Awaits

(* The rows of a key stay as they are when the table does. *)
LEMMA RowsKept ==
    ASSUME AInv, NEW e \in Evals, Moves(e), UNCHANGED alerts, NEW k \in Keys
    PROVE  RowsOfKey(k)' = RowsOfKey(k) /\ OpenRows(k)' = OpenRows(k)
<1>1. \A f \in Evals : evals'[f].device = evals[f].device
  BY DEF Moves
<1>2. RowsOfKey(k)' = RowsOfKey(k)
  BY <1>1 DEF RowsOfKey, Ids, Moves
<1> QED
  BY <1>2 DEF OpenRows

(* A step that runs no statement and rewrites no object but for pendingSince *)
(* keeps whatever does not depend on it.                                     *)
LEMMA QuietStep ==
    ASSUME AInv, NEW e \in Evals, Moves(e), UNCHANGED <<alerts, faulted, clock, restarts>>,
           heap' \in [Ids -> StateObject], states' \in [Keys -> Ids \cup {None}],
           \A o \in Ids : /\ heap'[o].active = heap[o].active
                          /\ heap'[o].lastFiredAt = heap[o].lastFiredAt,
           \A o \in Ids : heap'[o] = heap[o] \/ (Used(o)' /\ heap'[o].active = None),
           \A k \in Keys :
               \/ states'[k] = states[k]
               \/ /\ states[k] = None /\ k[2] = evals[e].device
                  /\ \E o \in Ids : /\ states'[k] = o /\ Used(o)' /\ Owner(o) = k
                                   /\ heap[o].active = None,
           EvalOK(e)', ResolvesOwn(e)', AwaitsCurrent(e)', FiresCooled(e)', \A k \in Keys : PendingIsHot(k)',
           hotSince' \in [Keys -> Time \cup {None}]
    PROVE  AInv'
<1> USE AlertAssumption
<1>1. AlertTypeOK'
  BY DEF AInv, AlertTypeOK, Moves
<1>2. EvalsOK' /\ InOrder' /\ OneAtATime'
  BY OtherEvals, MovesFacts
<1>3. \A o \in Ids : Owner(o)' = Owner(o) /\ (Used(o) => Used(o)')
  BY MovesFacts
<1>4. RowsUsed'
  BY <1>3 DEF AInv, RowsUsed
<1>5. StatesOwned'
  <2> SUFFICES ASSUME NEW k \in Keys, states'[k] # None
               PROVE  \E o \in Ids : states'[k] = o /\ Used(o)' /\ Owner(o)' = k
    BY DEF StatesOwned
  <2> QED
    BY <1>3 DEF AInv, StatesOwned
<1>6. \A o \in Ids : heap[o] \in StateObject
  BY DEF AInv, AlertTypeOK
<1>7. ASSUME NEW o \in Ids PROVE ActiveOwned(o)'
  <2>1. ActiveOwned(o) /\ heap[o].active \in Ids \cup {None}
    BY <1>6 DEF AInv, StateObject
  <2>2. heap[o].active # None => Owner(heap[o].active)' = Owner(heap[o].active)
    BY <1>3, <2>1
  <2> QED
    BY <1>3, <2>1, <2>2 DEF ActiveOwned
<1>8. ActiveOnce'
  BY DEF AInv, ActiveOnce
<1>9. \A k \in Keys : ActiveOf(k)' = ActiveOf(k)
  BY DEF AInv, StatesOwned, ActiveOf, AlertTypeOK
<1>10. ASSUME NEW f \in Evals, f # e
       PROVE  ResolvesOwn(f)' /\ AwaitsCurrent(f)' /\ FiresCooled(f)'
  <2>1. evals'[f] = evals[f] /\ ResolvesOwn(f) /\ AwaitsCurrent(f) /\ FiresCooled(f) /\ EvalOK(f)
    BY <1>10 DEF AInv, Moves, EvalsOK
  <2>2. ResolvesOwn(f)'
    BY <2>1 DEF ResolvesOwn
  <2>3. Awaits(f) => /\ evals[f].rule \in Rules /\ Key(f, evals[f].rule)' = Key(f, evals[f].rule)
                     /\ InProgress(f) /\ Key(f, evals[f].rule) \in Keys
    BY <2>1, MovesFacts, InProgressFacts DEF EvalOK, InProgress, Awaits
  <2>4. FiresCooled(f)'
    BY <1>3, <2>1, <2>3 DEF FiresCooled, Sequential, Moves, Awaits
  <2>5. AwaitsCurrent(f)'
    <3> SUFFICES ASSUME Awaits(f), evals[f].device \notin overlapped PROVE AwaitsCurrent(f)'
      BY <2>1 DEF AwaitsCurrent, Awaits, Moves
    <3> DEFINE k == Key(f, evals[f].rule)
    <3>1. evals[f].device # evals[e].device
      BY <1>10, <2>3, Alone DEF Moves
    <3>2. states'[k] = states[k] /\ ActiveOf(k)' = ActiveOf(k)
      BY <1>9, <2>3, <3>1 DEF Key
    <3> QED
      BY <2>1, <2>3, <3>2 DEF AwaitsCurrent, Awaits, Moves
  <2> QED
    BY <2>2, <2>4, <2>5
<1>11. ASSUME NEW a \in Ids PROVE Remembered(a)'
  <2> SUFFICES ASSUME alerts[a].st # "none", a[1] \notin earlier, Sequential(Owner(a))
               PROVE  /\ states'[Owner(a)] # None
                      /\ heap'[states'[Owner(a)]].lastFiredAt # None
                      /\ alerts[a].at <= heap'[states'[Owner(a)]].lastFiredAt
    BY <1>3 DEF Remembered, Sequential, Moves
  <2>1. /\ states[Owner(a)] # None
        /\ heap[states[Owner(a)]].lastFiredAt # None
        /\ alerts[a].at <= heap[states[Owner(a)]].lastFiredAt
    BY DEF AInv, Remembered
  <2>2. Owner(a) \in Keys
    BY DEF AInv, EvalsOK, EvalOK, RowsUsed, Used, Owner, Key, Ids, Keys
  <2>3. states'[Owner(a)] = states[Owner(a)] /\ states[Owner(a)] \in Ids
    BY <2>1, <2>2 DEF AInv, StatesOwned
  <2> QED
    BY <2>1, <2>3
<1>12. OpenIsActive' /\ CooldownKept'
  <2>1. \A k \in Keys : RowsOfKey(k)' = RowsOfKey(k) /\ OpenRows(k)' = OpenRows(k)
    BY RowsKept
  <2> QED
    BY <1>9, <2>1 DEF AInv, OpenIsActive, CooldownKept, Sequential, Moves
<1> QED
  BY <1>1, <1>2, <1>4, <1>5, <1>7, <1>8, <1>10, <1>11, <1>12 DEF AInv

(* The key and the object an evaluation takes for a rule, found or made. *)
Takes(e, r, k, o) ==
    /\ k = Key(e, r) /\ o = ObjectFor(e, r) /\ Owner(o) = k
    /\ StateFor(e, r) = heap[o] /\ heap[o] \in StateObject
    /\ states[k] = None => heap[o] = Undefined /\ o = <<e, r>>
    /\ states[k] # None => o = states[k] /\ Used(o)

LEMMA TakenObject ==
    ASSUME AInv, NEW e \in Evals, NEW r \in Rules, evals[e].pc = "between", r \in evals[e].todo
    PROVE  InProgress(e) /\ \E k \in Keys, o \in Ids : Takes(e, r, k, o)
<1>1. InProgress(e) /\ Key(e, r) \in Keys
  BY InProgressFacts DEF InProgress
<1>2. <<e, r>> \in Ids /\ heap[<<e, r>>] = Undefined /\ Owner(<<e, r>>) = Key(e, r)
  BY DEF AInv, ActiveOwned, Used, Ids, Owner
<1>3. heap \in [Ids -> StateObject]
  BY DEF AInv, AlertTypeOK
<1>4. ObjectFor(e, r) \in Ids
  BY <1>1, <1>2 DEF AInv, StatesOwned, ObjectFor
<1>5. Takes(e, r, Key(e, r), ObjectFor(e, r))
  BY <1>1, <1>2, <1>3 DEF AInv, StatesOwned, ObjectFor, StateFor, Takes
<1> QED
  BY <1>1, <1>4, <1>5

(* An evaluation that goes on awaits nothing. *)
LEMMA ContinueKeeps ==
    ASSUME AInv, NEW e \in Evals, NEW r \in Rules, InProgress(e), Continue(e, r),
           UNCHANGED <<earlier, overlapped>>
    PROVE  EvalOK(e)' /\ ResolvesOwn(e)' /\ AwaitsCurrent(e)' /\ FiresCooled(e)'
<1>1. /\ Moves(e) /\ evals'[e].pc \in {"between", "done"} /\ evals'[e].rule = None
  BY ContinueMoves
<1>2. e \notin earlier /\ evals'[e].device \in Devices
  BY <1>1, InProgressFacts DEF Moves
<1> QED
  BY <1>1, <1>2 DEF EvalOK, ResolvesOwn, AwaitsCurrent, FiresCooled, Awaits, Moves

(* A step that touches one key and one object of it leaves the waits of the  *)
(* other keys alone.                                                         *)
LEMMA OtherWaits ==
    ASSUME AInv, NEW k \in Keys, NEW o \in Ids, Owner(o) = k, UNCHANGED clock,
           \A j \in Keys \ {k} : hotSince'[j] = hotSince[j] /\ states'[j] = states[j],
           \A p \in Ids \ {o} : heap'[p] = heap[p],
           PendingIsHot(k)'
    PROVE  \A j \in Keys : PendingIsHot(j)'
<1> SUFFICES ASSUME NEW j \in Keys \ {k} PROVE PendingIsHot(j)'
  OBVIOUS
<1>1. states[j] # None => states[j] \in Ids \ {o}
  BY DEF AInv, StatesOwned
<1> QED
  BY <1>1 DEF AInv, PendingIsHot

LEMMA InRangeStep ==
    ASSUME AInv, NEW e \in Evals, NEW r \in Rules, InRange(e, r)
    PROVE  AInv'
<1>1. PICK k \in Keys, o \in Ids : Takes(e, r, k, o)
  BY TakenObject DEF InRange, InRangeOf
<1>2. InProgress(e) /\ Moves(e) /\ EvalOK(e)' /\ ResolvesOwn(e)' /\ AwaitsCurrent(e)' /\ FiresCooled(e)'
  <2>1. InProgress(e)
    BY TakenObject DEF InRange, InRangeOf
  <2> QED
    BY <2>1, ContinueMoves, ContinueKeeps DEF InRange, process, histories
<1>3. heap \in [Ids -> StateObject] /\ hotSince \in [Keys -> Time \cup {None}]
  BY DEF AInv, AlertTypeOK
<1>4. states' = states /\ hotSince' = [hotSince EXCEPT ![k] = None]
  BY <1>1 DEF InRange, Takes
<1>5. \/ heap' = heap /\ heap[o].pendingSince = None
      \/ heap' = [heap EXCEPT ![o].pendingSince = None] /\ states[k] = o
  <2>1. CASE StateFor(e, r).pendingSince = None
    BY <1>1, <2>1 DEF InRange, Takes
  <2>2. CASE StateFor(e, r).pendingSince # None
    <3>1. states[k] = o
      BY <1>1, <2>2 DEF Takes, Undefined
    <3> QED
      BY <1>1, <2>2, <3>1 DEF InRange, Takes
  <2> QED
    BY <2>1, <2>2
<1>6. /\ heap' \in [Ids -> StateObject]
      /\ \A p \in Ids : p # o => heap'[p] = heap[p]
      /\ heap'[o].active = heap[o].active /\ heap'[o].lastFiredAt = heap[o].lastFiredAt
      /\ heap'[o].pendingSince = None
  BY <1>1, <1>3, <1>5 DEF StateObject
<1>7. heap'[o] = heap[o] \/ (Used(o)' /\ heap'[o].active = None)
  <2>1. Used(o) => Used(o)'
    BY <1>1, <1>2, MovesFacts
  <2> QED
    BY <1>1, <1>5, <1>6, <2>1, AlertAssumption DEF InRange, Takes
<1>8. \A j \in Keys : PendingIsHot(j)'
  <2>1. PendingIsHot(k)'
    BY <1>1, <1>3, <1>4, <1>6 DEF PendingIsHot, Takes
  <2>2. /\ \A j \in Keys \ {k} : hotSince'[j] = hotSince[j] /\ states'[j] = states[j]
        /\ \A p \in Ids \ {o} : heap'[p] = heap[p]
        /\ UNCHANGED clock
    BY <1>3, <1>4, <1>6 DEF InRange
  <2> QED
    BY <1>1, <2>1, <2>2, OtherWaits DEF Takes
<1>9. hotSince' \in [Keys -> Time \cup {None}] /\ states' \in [Keys -> Ids \cup {None}]
  BY <1>3, <1>4 DEF AInv, AlertTypeOK
<1>10. UNCHANGED <<alerts, faulted, clock, restarts>>
  BY DEF InRange, process, histories
<1> QED
  BY <1>2, <1>4, <1>6, <1>7, <1>8, <1>9, <1>10, QuietStep

LEMMA StartPendingStep ==
    ASSUME AInv, NEW e \in Evals, NEW r \in Rules, StartPending(e, r)
    PROVE  AInv'
<1>1. PICK k \in Keys, o \in Ids : Takes(e, r, k, o)
  BY TakenObject DEF StartPending, Violated, OutOfRangeOf
<1>2. InProgress(e) /\ Moves(e) /\ EvalOK(e)' /\ ResolvesOwn(e)' /\ AwaitsCurrent(e)' /\ FiresCooled(e)'
  <2>1. InProgress(e)
    BY TakenObject DEF StartPending, Violated, OutOfRangeOf
  <2> QED
    BY <2>1, ContinueMoves, ContinueKeeps DEF StartPending, Violated, process, histories
<1>3. /\ heap \in [Ids -> StateObject] /\ hotSince \in [Keys -> Time \cup {None}]
      /\ states \in [Keys -> Ids \cup {None}] /\ clock \in Time
  BY DEF AInv, AlertTypeOK
<1>4. /\ states' = [states EXCEPT ![k] = o] /\ heap' = [heap EXCEPT ![o].pendingSince = clock]
      /\ hotSince' = [hotSince EXCEPT ![k] = IF hotSince[k] = None THEN clock ELSE hotSince[k]]
      /\ heap[o].active = None
  BY <1>1 DEF StartPending, Violated, Takes
<1>5. /\ heap' \in [Ids -> StateObject]
      /\ \A p \in Ids \ {o} : heap'[p] = heap[p]
      /\ heap'[o].active = heap[o].active /\ heap'[o].lastFiredAt = heap[o].lastFiredAt
      /\ heap'[o].pendingSince = clock
  BY <1>3, <1>4 DEF StateObject
<1>6. Used(o)'
  <2>1. CASE states[k] = None
    BY <1>1, <1>2, <2>1, ContinueMoves DEF Takes, Used, Moves, StartPending, Violated, process, histories
  <2>2. CASE states[k] # None
    BY <1>1, <1>2, <2>2, MovesFacts DEF Takes
  <2> QED
    BY <2>1, <2>2
<1>7. \A j \in Keys : PendingIsHot(j)'
  <2>1. PendingIsHot(k)'
    <3>1. hotSince[k] # None => hotSince[k] \in Time /\ hotSince[k] <= clock
      BY <1>3 DEF AInv, PendingIsHot
    <3>2. hotSince'[k] \in Time /\ hotSince'[k] <= clock
      BY <1>3, <1>4, <3>1 DEF Time
    <3>3. clock' = clock /\ states'[k] = o /\ hotSince'[k] # None
      BY <1>3, <1>4, <3>2, AlertAssumption DEF StartPending, Violated, Time
    <3> QED
      BY <1>5, <3>2, <3>3 DEF PendingIsHot
  <2>2. /\ \A j \in Keys \ {k} : hotSince'[j] = hotSince[j] /\ states'[j] = states[j]
        /\ UNCHANGED clock
    BY <1>3, <1>4 DEF StartPending, Violated
  <2> QED
    BY <1>1, <1>5, <2>1, <2>2, OtherWaits DEF Takes
<1>8. hotSince' \in [Keys -> Time \cup {None}] /\ states' \in [Keys -> Ids \cup {None}]
  BY <1>3, <1>4
<1>9. UNCHANGED <<alerts, faulted, clock, restarts>>
  BY DEF StartPending, Violated, process, histories
<1>10. \A j \in Keys :
          \/ states'[j] = states[j]
          \/ /\ states[j] = None /\ j[2] = evals[e].device
             /\ \E p \in Ids : states'[j] = p /\ Used(p)' /\ Owner(p) = j /\ heap[p].active = None
  BY <1>1, <1>3, <1>4, <1>6 DEF Takes, Key
<1>11. \A p \in Ids : /\ heap'[p].active = heap[p].active /\ heap'[p].lastFiredAt = heap[p].lastFiredAt
                      /\ heap'[p] = heap[p] \/ (Used(p)' /\ heap'[p].active = None)
  BY <1>4, <1>5, <1>6
<1> QED
  BY <1>2, <1>5, <1>7, <1>8, <1>9, <1>10, <1>11, QuietStep

(* A violating value that is neither waited for nor written leaves the waits. *)
LEMMA RunGoesOn ==
    ASSUME AInv, NEW e, NEW r, NEW k \in Keys, NEW o \in Ids, Takes(e, r, k, o),
           UNCHANGED <<heap, states, clock>>,
           hotSince' = [hotSince EXCEPT ![k] = IF hotSince[k] = None THEN clock ELSE hotSince[k]]
    PROVE  /\ (\A j \in Keys : PendingIsHot(j)') /\ hotSince' \in [Keys -> Time \cup {None}]
           /\ states \in [Keys -> Ids \cup {None}] /\ heap \in [Ids -> StateObject]
<1>1. /\ heap \in [Ids -> StateObject] /\ hotSince \in [Keys -> Time \cup {None}]
      /\ states \in [Keys -> Ids \cup {None}] /\ clock \in Time
  BY DEF AInv, AlertTypeOK
<1>2. hotSince' \in [Keys -> Time \cup {None}]
  BY <1>1
<1>3. ASSUME NEW j \in Keys PROVE PendingIsHot(j)'
  <2>1. PendingIsHot(j) /\ clock <= clock
    BY <1>1 DEF AInv, Time
  <2>2. hotSince'[j] = hotSince[j] \/ (hotSince[j] = None /\ hotSince'[j] = clock)
    BY <1>1
  <2> QED
    BY <2>1, <2>2 DEF PendingIsHot
<1> QED
  BY <1>1, <1>2, <1>3

LEMMA SuppressedStep ==
    ASSUME AInv, NEW e \in Evals, NEW r \in Rules, Suppressed(e, r)
    PROVE  AInv'
<1>1. PICK k \in Keys, o \in Ids : Takes(e, r, k, o)
  BY TakenObject DEF Suppressed, Violated, OutOfRangeOf
<1>2. InProgress(e) /\ Moves(e) /\ EvalOK(e)' /\ ResolvesOwn(e)' /\ AwaitsCurrent(e)' /\ FiresCooled(e)'
  <2>1. InProgress(e)
    BY TakenObject DEF Suppressed, Violated, OutOfRangeOf
  <2> QED
    BY <2>1, ContinueMoves, ContinueKeeps DEF Suppressed, Violated, process, histories
<1>3. /\ heap' = heap /\ states' = states /\ UNCHANGED <<alerts, faulted, clock, restarts>>
      /\ hotSince' = [hotSince EXCEPT ![k] = IF hotSince[k] = None THEN clock ELSE hotSince[k]]
  BY <1>1 DEF Suppressed, Violated, Takes, engineVars, process, histories
<1>4. /\ (\A j \in Keys : PendingIsHot(j)') /\ hotSince' \in [Keys -> Time \cup {None}]
      /\ states \in [Keys -> Ids \cup {None}] /\ heap \in [Ids -> StateObject]
  BY <1>1, <1>3, RunGoesOn
<1> QED
  BY <1>2, <1>3, <1>4, QuietStep

LEMMA StartFireStep ==
    ASSUME AInv, NEW e \in Evals, NEW r \in Rules, StartFire(e, r)
    PROVE  AInv'
<1>1. PICK k \in Keys, o \in Ids : Takes(e, r, k, o)
  BY TakenObject DEF StartFire, Violated, OutOfRangeOf
<1>2. /\ evals[e].pc = "between" /\ r \in evals[e].todo /\ r \in evals[e].hot
      /\ InProgress(e) /\ e \notin earlier /\ evals[e].device \in Devices
  BY InProgressFacts DEF StartFire, Violated, OutOfRangeOf, InProgress
<1>3. /\ Moves(e)
      /\ evals'[e].pc = "firing" /\ evals'[e].rule = r /\ evals'[e].now = clock
      /\ evals'[e].obj = o /\ evals'[e].alert = None
      /\ evals'[e].todo = evals[e].todo \ {r} /\ evals'[e].hot = evals[e].hot
  BY <1>1, <1>2, AwaitMoves DEF StartFire, Violated, Takes, process, histories
<1>4. /\ heap' = heap /\ states' = states /\ UNCHANGED <<alerts, faulted, clock, restarts>>
      /\ hotSince' = [hotSince EXCEPT ![k] = IF hotSince[k] = None THEN clock ELSE hotSince[k]]
      /\ earlier' = earlier /\ overlapped' = overlapped
  BY <1>1 DEF StartFire, Violated, Takes, engineVars, process, histories
<1>5. /\ (\A j \in Keys : PendingIsHot(j)') /\ hotSince' \in [Keys -> Time \cup {None}]
      /\ states \in [Keys -> Ids \cup {None}] /\ heap \in [Ids -> StateObject]
  BY <1>1, <1>4, RunGoesOn
<1>6. Used(o)' /\ Owner(o)' = k /\ Key(e, r)' = k /\ <<e, r>> \in Ids
  <2>1. Owner(o)' = k /\ Key(e, r)' = k
    BY <1>1, <1>3, MovesFacts DEF Takes
  <2>2. CASE states[k] = None
    BY <1>1, <1>3, <2>1, <2>2 DEF Takes, Used, Ids
  <2>3. CASE states[k] # None
    BY <1>1, <1>3, <2>1, <2>3, MovesFacts DEF Takes, Ids
  <2> QED
    BY <2>2, <2>1, <2>3
<1>7. EvalOK(e)'
  <2>1. alerts[<<e, r>>].st = "none"
    BY <1>2, <1>6 DEF AInv, RowsUsed, Used
  <2> QED
    BY <1>2, <1>3, <1>4, <1>6, <2>1 DEF EvalOK, Awaits, AInv, AlertTypeOK, Used, Owner, Key, Moves
<1>8. ResolvesOwn(e)' /\ AwaitsCurrent(e)'
  <2>1. heap[o].active = None
    BY <1>1 DEF StartFire, Takes
  <2> QED
    BY <1>1, <1>3, <1>4, <1>6, <2>1 DEF ResolvesOwn, AwaitsCurrent, ActiveOf, Takes
<1>9. FiresCooled(e)'
  <2> SUFFICES ASSUME NEW a \in Ids, alerts[a].st # "none", a[1] \notin earlier, Owner(a)' = k,
                      Sequential(k)'
               PROVE  alerts[a].at + Cooldown[a[2]] <= clock
    BY <1>3, <1>4, <1>6 DEF FiresCooled
  <2>1. Owner(a) = k /\ Sequential(k) /\ a[2] = r
    BY <1>1, <1>3, <1>4, MovesFacts DEF Sequential, Owner, Key, Takes
  <2>2. /\ states[k] # None /\ heap[states[k]].lastFiredAt # None
        /\ alerts[a].at <= heap[states[k]].lastFiredAt
    BY <2>1 DEF AInv, Remembered
  <2>3. /\ StateFor(e, r).lastFiredAt = heap[states[k]].lastFiredAt
        /\ heap[states[k]].lastFiredAt \in Time
    BY <1>1, <2>2 DEF Takes, StateObject
  <2>4. ~(clock - heap[states[k]].lastFiredAt < Cooldown[r])
    BY <2>2, <2>3 DEF StartFire, CoolingDown
  <2>5. alerts[a].at \in Nat /\ heap[states[k]].lastFiredAt \in Nat /\ clock \in Nat /\ Cooldown[r] \in Nat
    BY <2>3, AlertAssumption DEF AInv, AlertTypeOK, RowsUsed, Time
  <2> QED
    BY <2>1, <2>2, <2>4, <2>5
<1> QED
  BY <1>3, <1>4, <1>5, <1>7, <1>8, <1>9, QuietStep

LEMMA StartResolveStep ==
    ASSUME AInv, NEW e \in Evals, NEW r \in Rules, StartResolve(e, r)
    PROVE  AInv'
<1>1. PICK k \in Keys, o \in Ids : Takes(e, r, k, o)
  BY TakenObject DEF StartResolve, InRangeOf
<1>2. /\ evals[e].pc = "between" /\ r \in evals[e].todo /\ r \notin evals[e].hot
      /\ InProgress(e) /\ e \notin earlier /\ evals[e].device \in Devices
  BY InProgressFacts DEF StartResolve, InRangeOf, InProgress
<1>3. PICK x \in Ids : x = heap[o].active
  BY <1>1 DEF StartResolve, Takes, StateObject
<1>4. x # None /\ states[k] = o /\ Used(o)
  BY <1>1, <1>3, AlertAssumption DEF Takes, Undefined
<1>5. /\ Moves(e)
      /\ evals'[e].pc = "resolving" /\ evals'[e].rule = r /\ evals'[e].now = clock
      /\ evals'[e].obj = o /\ evals'[e].alert = x
      /\ evals'[e].todo = evals[e].todo \ {r} /\ evals'[e].hot = evals[e].hot
  BY <1>1, <1>2, <1>3, AwaitMoves DEF StartResolve, Takes, process, histories
<1>6. /\ heap' = heap /\ states' = states /\ UNCHANGED <<alerts, faulted, clock, restarts>>
      /\ hotSince' = [hotSince EXCEPT ![k] = None]
      /\ earlier' = earlier /\ overlapped' = overlapped
  BY <1>1 DEF StartResolve, Takes, engineVars, process, histories
<1>7. /\ heap \in [Ids -> StateObject] /\ hotSince \in [Keys -> Time \cup {None}]
      /\ states \in [Keys -> Ids \cup {None}] /\ clock \in Time
  BY DEF AInv, AlertTypeOK
<1>8. \A j \in Keys : PendingIsHot(j)'
  <2>1. heap[o].pendingSince = None
    BY <1>3, <1>4 DEF AInv, ActiveOwned
  <2>2. PendingIsHot(k)'
    BY <1>4, <1>6, <1>7, <2>1 DEF PendingIsHot
  <2>3. \A j \in Keys \ {k} : hotSince'[j] = hotSince[j] /\ states'[j] = states[j]
    BY <1>6, <1>7
  <2> QED
    BY <1>1, <1>6, <2>2, <2>3, OtherWaits DEF Takes
<1>9. EvalOK(e)'
  <2>1. alerts[x].st # "none"
    BY <1>3, <1>4 DEF AInv, ActiveOwned
  <2>2. Used(o)' /\ Owner(o)' = k /\ Key(e, r)' = k
    BY <1>1, <1>4, <1>5, MovesFacts DEF Takes
  <2> QED
    BY <1>2, <1>5, <1>6, <1>7, <2>1, <2>2 DEF EvalOK, Awaits, Used, Owner, Key, Moves
<1>10. ResolvesOwn(e)'
  BY <1>3, <1>4, <1>5, <1>6 DEF ResolvesOwn, AInv, ActiveOnce
<1>11. AwaitsCurrent(e)' /\ FiresCooled(e)'
  <2>1. Key(e, r)' = k
    BY <1>1, <1>5, MovesFacts DEF Takes
  <2> QED
    BY <1>3, <1>4, <1>5, <1>6, <2>1, AlertAssumption DEF AwaitsCurrent, FiresCooled, ActiveOf
<1>12. hotSince' \in [Keys -> Time \cup {None}]
  BY <1>6, <1>7
<1> QED
  BY <1>5, <1>6, <1>7, <1>8, <1>9, <1>10, <1>11, <1>12, QuietStep

-----------------------------------------------------------------------------
(* The steps in which a statement returns, or fails, for the key k and the   *)
(* object o of the evaluation e.                                             *)

(* What the step changes is of the key k. *)
OnlyKey(k, o) ==
    /\ \A j \in Keys \ {k} : states'[j] = states[j]
    /\ \A p \in Ids \ {o} : heap'[p] = heap[p]
    /\ \A a \in Ids : Owner(a) # k /\ alerts'[a].st # "none" =>
          /\ alerts[a].st # "none" /\ alerts'[a].at = alerts[a].at
          /\ alerts'[a].st = "open" => alerts[a].st = "open"
    /\ faulted \subseteq faulted'

LEMMA AwaitedFacts ==
    ASSUME AInv, NEW e \in Evals, Awaits(e)
    PROVE  /\ InProgress(e) /\ evals[e].rule \in Rules /\ evals[e].now \in Time
           /\ evals[e].obj \in Ids /\ Used(evals[e].obj)
           /\ Owner(evals[e].obj) = Key(e, evals[e].rule) /\ Key(e, evals[e].rule) \in Keys
           /\ <<e, evals[e].rule>> \in Ids /\ Owner(<<e, evals[e].rule>>) = Key(e, evals[e].rule)
           /\ Used(<<e, evals[e].rule>>)
<1>1. EvalOK(e) /\ InProgress(e)
  BY DEF AInv, EvalsOK, Awaits, InProgress
<1> QED
  BY <1>1, InProgressFacts DEF EvalOK, Ids, Owner, Used, InProgress, Awaits

(* What the others await is kept. *)
LEMMA OtherAwaits ==
    ASSUME AInv, NEW e \in Evals, Moves(e), NEW k \in Keys, k[2] = evals[e].device,
           NEW o \in Ids, Owner(o) = k, OnlyKey(k, o), NEW f \in Evals, f # e
    PROVE  AwaitsCurrent(f)' /\ FiresCooled(f)'
<1>1. evals'[f] = evals[f] /\ AwaitsCurrent(f) /\ FiresCooled(f) /\ overlapped' = overlapped
  BY DEF AInv, Moves
<1> SUFFICES ASSUME Awaits(f), evals[f].device \notin overlapped
             PROVE  AwaitsCurrent(f)' /\ FiresCooled(f)'
  <2>1. ~Awaits(f) => AwaitsCurrent(f)' /\ FiresCooled(f)'
    BY <1>1 DEF AwaitsCurrent, FiresCooled, Awaits
  <2>2. evals[f].device \in overlapped => AwaitsCurrent(f)' /\ FiresCooled(f)'
    BY <1>1 DEF AwaitsCurrent, FiresCooled, Awaits, Sequential, Key
  <2> QED
    BY <2>1, <2>2
<1>2. PICK j \in Keys : j = Key(f, evals[f].rule)
  BY AwaitedFacts
<1>3. j # k /\ Key(f, evals[f].rule)' = j
  <2>1. evals[f].device # evals[e].device
    BY Alone, AwaitedFacts DEF Moves
  <2> QED
    BY <1>1, <1>2, <2>1 DEF Key
<1>4. states'[j] = states[j] /\ ActiveOf(j)' = ActiveOf(j)
  <2>1. states[j] # None => states[j] \in Ids \ {o}
    BY <1>3 DEF AInv, StatesOwned
  <2> QED
    BY <1>3, <2>1 DEF OnlyKey, ActiveOf
<1>5. AwaitsCurrent(f)'
  BY <1>1, <1>2, <1>3, <1>4 DEF AwaitsCurrent, Awaits
<1>6. FiresCooled(f)'
  <2>1. \A a \in Ids : Owner(a)' = Owner(a)
    BY MovesFacts
  <2>2. \A a \in Ids : Owner(a) = j /\ alerts'[a].st # "none" =>
           alerts[a].st # "none" /\ alerts'[a].at = alerts[a].at
    BY <1>3 DEF OnlyKey
  <2> QED
    BY <1>1, <1>2, <1>3, <2>1, <2>2 DEF FiresCooled, Sequential, OnlyKey, Moves
<1> QED
  BY <1>5, <1>6

(* What is true of the other keys is kept. *)
LEMMA OtherKeys ==
    ASSUME AInv, NEW e \in Evals, Moves(e), NEW k \in Keys,
           NEW o \in Ids, Owner(o) = k, OnlyKey(k, o), NEW j \in Keys, j # k
    PROVE  /\ \A a \in Ids : Owner(a) = j => Remembered(a)'
           /\ Sequential(j)' => OpenRows(j)' \subseteq {ActiveOf(j)'}
           /\ Sequential(j)' => \A a, b \in RowsOfKey(j)' : a[1] < b[1] =>
                                   alerts'[a].at + Cooldown[j[1]] <= alerts'[b].at
<1>1. Sequential(j)' => Sequential(j)
  BY DEF Sequential, OnlyKey, Moves
<1>2. states'[j] = states[j] /\ (states[j] # None => states[j] \in Ids \ {o})
  BY DEF AInv, StatesOwned, OnlyKey
<1>3. ActiveOf(j)' = ActiveOf(j)
  BY <1>2 DEF OnlyKey, ActiveOf
<1>4. \A a \in Ids : Owner(a)' = Owner(a)
  BY MovesFacts
<1>5. \A a \in Ids : Owner(a) = j => (Remembered(a) => Remembered(a)')
  BY <1>1, <1>2, <1>4 DEF Remembered, OnlyKey, Moves
<1>6. \A a \in Ids : Owner(a) = <<a[2], evals[a[1]].device>>
  BY DEF Owner, Key
<1>7. ASSUME NEW a \in RowsOfKey(j)'
      PROVE  /\ a \in Ids /\ a \in RowsOfKey(j) /\ alerts'[a].at = alerts[a].at
             /\ alerts'[a].st = "open" => alerts[a].st = "open"
  <2>1. /\ a \in Ids /\ a[1] \notin earlier /\ a[2] = j[1] /\ evals[a[1]].device = j[2]
        /\ alerts'[a].st # "none"
    BY <1>7 DEF RowsOfKey, Moves, Ids
  <2>2. Owner(a) = j
    BY <2>1 DEF Owner, Key, Keys
  <2> QED
    BY <2>1, <2>2 DEF OnlyKey, RowsOfKey
<1>8. Sequential(j)' => OpenRows(j)' \subseteq {ActiveOf(j)'}
  BY <1>1, <1>3, <1>7 DEF OpenRows, AInv, OpenIsActive
<1>9. Sequential(j)' => \A a, b \in RowsOfKey(j)' : a[1] < b[1] =>
                                   alerts'[a].at + Cooldown[j[1]] <= alerts'[b].at
  BY <1>1, <1>7 DEF AInv, CooldownKept
<1> QED
  BY <1>5, <1>8, <1>9 DEF AInv

(* What remains to be shown of such a step is what it does to its own key. *)
LEMMA KeyStep ==
    ASSUME AInv, NEW e \in Evals, Awaits(e), NEW k \in Keys, k = Key(e, evals[e].rule),
           NEW o \in Ids, o = evals[e].obj, Moves(e), OnlyKey(k, o),
           ~Awaits(e)', EvalOK(e)', AlertTypeOK', UNCHANGED <<clock, hotSince>>,
           \A a \in Ids : alerts[a].st # "none" => alerts'[a].st # "none",
           \A a \in Ids : alerts[a].st = "none" /\ alerts'[a].st # "none" =>
                             a = <<e, evals[e].rule>> /\ alerts'[a].at \in Time,
           \A a \in Ids : alerts[a].st # "none" => alerts'[a].at = alerts[a].at,
           states'[k] = o \/ states'[k] = states[k],
           \A p \in Ids : ActiveOwned(p)', ActiveOnce', \A f \in Evals : ResolvesOwn(f)',
           PendingIsHot(k)',
           Sequential(k)' => /\ \A a \in Ids : Owner(a) = k => Remembered(a)'
                             /\ OpenRows(k)' \subseteq {ActiveOf(k)'}
                             /\ \A a, b \in RowsOfKey(k)' : a[1] < b[1] =>
                                   alerts'[a].at + Cooldown[k[1]] <= alerts'[b].at
    PROVE  AInv'
<1>1. Owner(o) = k /\ k[2] = evals[e].device /\ Used(o) /\ Used(<<e, evals[e].rule>>)
  BY AwaitedFacts DEF Key
<1>2. EvalsOK' /\ InOrder' /\ OneAtATime'
  <2>1. \A a \in Ids : alerts[a].st = "none" /\ alerts'[a].st # "none" => a[1] = e
    OBVIOUS
  <2> QED
    BY <2>1, OtherEvals, MovesFacts
<1>3. \A p \in Ids : Owner(p)' = Owner(p) /\ (Used(p) => Used(p)')
  BY MovesFacts
<1>4. RowsUsed'
  BY <1>1, <1>3 DEF AInv, RowsUsed
<1>5. StatesOwned'
  <2> SUFFICES ASSUME NEW j \in Keys, states'[j] # None
               PROVE  \E p \in Ids : states'[j] = p /\ Used(p)' /\ Owner(p)' = j
    BY DEF StatesOwned
  <2> QED
    BY <1>1, <1>3 DEF AInv, StatesOwned, OnlyKey
<1>6. \A f \in Evals : AwaitsCurrent(f)' /\ FiresCooled(f)'
  <2>1. \A f \in Evals : f # e => AwaitsCurrent(f)' /\ FiresCooled(f)'
    BY <1>1, OtherAwaits
  <2>2. AwaitsCurrent(e)' /\ FiresCooled(e)'
    BY DEF AwaitsCurrent, FiresCooled, Awaits
  <2> QED
    BY <2>1, <2>2
<1>7. \A j \in Keys : PendingIsHot(j)'
  BY <1>1, OtherWaits DEF OnlyKey
<1>8. ASSUME NEW a \in Ids PROVE Remembered(a)'
  <2>1. CASE Owner(a) = k
    BY <1>3, <2>1 DEF Remembered
  <2>2. CASE Owner(a) \in Keys \ {k}
    BY <1>1, <2>2, OtherKeys
  <2>3. CASE Owner(a) \notin Keys
    <3>1. a[1] \in Evals /\ a[2] \in Rules /\ EvalOK(a[1])'
      BY <1>2 DEF EvalsOK, Ids
    <3>2. Owner(a)' \notin Keys
      BY <1>3, <2>3
    <3>3. alerts'[a].st # "none" => evals'[a[1]].pc # "idle"
      BY <1>4 DEF RowsUsed, Used
    <3>4. a[1] \notin earlier' => alerts'[a].st = "none"
      BY <3>1, <3>2, <3>3 DEF EvalOK, Owner, Key, Keys
    <3> QED
      BY <3>4 DEF Remembered
  <2> QED
    BY <2>1, <2>2, <2>3
<1>9. \A j \in Keys : Sequential(j)' =>
         /\ OpenRows(j)' \subseteq {ActiveOf(j)'}
         /\ \A a, b \in RowsOfKey(j)' : a[1] < b[1] =>
               alerts'[a].at + Cooldown[j[1]] <= alerts'[b].at
  <2>1. \A j \in Keys \ {k} : Sequential(j)' =>
         /\ OpenRows(j)' \subseteq {ActiveOf(j)'}
         /\ \A a, b \in RowsOfKey(j)' : a[1] < b[1] =>
               alerts'[a].at + Cooldown[j[1]] <= alerts'[b].at
    BY <1>1, OtherKeys
  <2> QED
    BY <2>1
<1>10. OpenIsActive' /\ CooldownKept'
  BY <1>9 DEF OpenIsActive, CooldownKept
<1> QED
  BY <1>2, <1>4, <1>5, <1>6, <1>7, <1>8, <1>10 DEF AInv

(* The table after one statement. *)
LEMMA Inserts ==
    ASSUME AInv, NEW e \in Evals, evals[e].pc = "firing"
    PROVE  Executed({e}) = [a \in Ids |-> IF a = <<e, evals[e].rule>>
                                         THEN [st |-> "open", at |-> evals[e].now] ELSE alerts[a]]
<1>1. Inserted({e}) = {<<e, evals[e].rule>>} /\ Resolved({e}) = {}
  BY DEF Inserted, Resolved
<1> QED
  BY <1>1 DEF Executed

LEMMA Resolves ==
    ASSUME AInv, NEW e \in Evals, evals[e].pc = "resolving"
    PROVE  Executed({e}) = [a \in Ids |-> IF a = evals[e].alert
                                         THEN [alerts[a] EXCEPT !.st = "resolved"] ELSE alerts[a]]
<1>1. Inserted({e}) = {} /\ Resolved({e}) = {evals[e].alert}
  BY DEF Inserted, Resolved
<1> QED
  BY <1>1 DEF Executed

LEMMA FireReturnsStep ==
    ASSUME AInv, NEW e \in Evals, FireReturns(e)
    PROVE  AInv'
<1>1. Awaits(e) /\ evals[e].pc = "firing" /\ EvalOK(e)
  BY DEF FireReturns, Awaits, AInv, EvalsOK
<1>2. PICK k \in Keys, o \in Ids, r \in Rules : k = Key(e, r) /\ o = evals[e].obj /\ r = evals[e].rule
  BY <1>1, AwaitedFacts
<1>3. /\ InProgress(e) /\ Owner(o) = k /\ Used(o) /\ evals[e].now \in Time
      /\ <<e, r>> \in Ids /\ Owner(<<e, r>>) = k /\ Used(<<e, r>>) /\ alerts[<<e, r>>].st = "none"
      /\ k = <<r, evals[e].device>>
  BY <1>1, <1>2, AwaitedFacts DEF EvalOK, Key
<1>4. /\ Moves(e) /\ EvalOK(e)' /\ evals'[e].pc \in {"between", "done"}
  BY <1>2, <1>3, ContinueMoves, ContinueKeeps DEF FireReturns, process, histories
<1>5. /\ heap \in [Ids -> StateObject] /\ alerts \in [Ids -> AlertRow]
      /\ states \in [Keys -> Ids \cup {None}]
  BY DEF AInv, AlertTypeOK
<1>6. PICK now \in Time : now = evals[e].now
  BY <1>3
<1>7. /\ states' = [states EXCEPT ![k] = o]
      /\ heap' = [heap EXCEPT ![o] = [pendingSince |-> None, active |-> <<e, r>>, lastFiredAt |-> now]]
      /\ alerts' = [a \in Ids |-> IF a = <<e, r>> THEN [st |-> "open", at |-> now] ELSE alerts[a]]
      /\ UNCHANGED <<clock, restarts, earlier, overlapped, faulted, hotSince>>
  BY <1>1, <1>2, <1>6, Inserts DEF FireReturns, process, histories
<1>8. /\ heap' \in [Ids -> StateObject] /\ \A p \in Ids \ {o} : heap'[p] = heap[p]
      /\ heap'[o].pendingSince = None /\ heap'[o].active = <<e, r>> /\ heap'[o].lastFiredAt = now
      /\ alerts' \in [Ids -> AlertRow] /\ \A a \in Ids \ {<<e, r>>} : alerts'[a] = alerts[a]
      /\ alerts'[<<e, r>>].st = "open" /\ alerts'[<<e, r>>].at = now
      /\ states' \in [Keys -> Ids \cup {None}] /\ states'[k] = o
      /\ \A j \in Keys \ {k} : states'[j] = states[j]
  BY <1>3, <1>5, <1>7 DEF StateObject, AlertRow
<1>9. AlertTypeOK'
  BY <1>4, <1>7, <1>8 DEF AInv, AlertTypeOK, Moves
<1>10. OnlyKey(k, o)
  BY <1>3, <1>7, <1>8 DEF OnlyKey
<1>11. \A p \in Ids : Owner(p)' = Owner(p) /\ (Used(p) => Used(p)')
  BY <1>4, MovesFacts
<1>12. ASSUME NEW p \in Ids PROVE ActiveOwned(p)'
  <2>1. CASE p = o
    BY <1>3, <1>8, <1>11, <2>1 DEF ActiveOwned
  <2>2. CASE p # o
    <3>1. ActiveOwned(p) /\ heap'[p] = heap[p] /\ heap[p].active \in Ids \cup {None}
      BY <1>5, <1>8, <2>2 DEF AInv, StateObject
    <3>2. CASE heap[p].active = None
      BY <1>11, <3>1, <3>2 DEF ActiveOwned
    <3>3. CASE heap[p].active # None
      <4>1. PICK x \in Ids : x = heap[p].active
        BY <3>1, <3>3
      <4>2. alerts'[x] = alerts[x]
        BY <1>3, <1>8, <3>1, <3>3, <4>1 DEF ActiveOwned
      <4> QED
        BY <1>7, <1>11, <3>1, <3>3, <4>1, <4>2 DEF ActiveOwned
    <3> QED
      BY <3>2, <3>3
  <2> QED
    BY <2>1, <2>2
<1>13. \A p \in Ids \ {o} : heap[p].active # <<e, r>>
  BY <1>3, AlertAssumption DEF AInv, ActiveOwned
<1>14. ActiveOnce'
  BY <1>8, <1>13 DEF AInv, ActiveOnce
<1>15. ASSUME NEW f \in Evals PROVE ResolvesOwn(f)'
  <2>1. CASE f = e
    BY <1>4, <2>1 DEF ResolvesOwn
  <2>2. CASE f # e
    <3>1. evals'[f] = evals[f] /\ ResolvesOwn(f) /\ EvalOK(f)
      BY <1>4, <2>2 DEF AInv, Moves, EvalsOK
    <3> QED
      BY <1>3, <1>8, <3>1 DEF ResolvesOwn, EvalOK
  <2> QED
    BY <2>1, <2>2
<1>16. PendingIsHot(k)'
  BY <1>2, <1>7, <1>8 DEF PendingIsHot, AInv
<1>17. ASSUME Sequential(k)'
       PROVE  /\ \A a \in Ids : Owner(a) = k => Remembered(a)'
              /\ OpenRows(k)' \subseteq {ActiveOf(k)'}
              /\ \A a, b \in RowsOfKey(k)' : a[1] < b[1] =>
                    alerts'[a].at + Cooldown[k[1]] <= alerts'[b].at
  <2>1. Sequential(k) /\ evals[e].device \notin overlapped
    BY <1>3, <1>7, <1>17 DEF Sequential
  <2>2. ActiveOf(k) = None /\ OpenRows(k) = {}
    <3>1. ActiveOf(k) = None
      BY <1>1, <1>2, <2>1 DEF AInv, AwaitsCurrent
    <3>2. \A a \in OpenRows(k) : a \in Ids /\ a = None
      BY <2>1, <3>1 DEF AInv, OpenIsActive, OpenRows, RowsOfKey
    <3> QED
      BY <3>1, <3>2, AlertAssumption
  <2>3. ActiveOf(k)' = <<e, r>>
    BY <1>3, <1>8, AlertAssumption DEF ActiveOf
  <2>4. \A a \in RowsOfKey(k)' : a \in Ids /\ Owner(a) = k /\ (a # <<e, r>> => a \in RowsOfKey(k))
    <3> TAKE a \in RowsOfKey(k)'
    <3>1. /\ a \in Ids /\ a[1] \notin earlier /\ a[2] = k[1] /\ evals[a[1]].device = k[2]
          /\ alerts'[a].st # "none"
      BY <1>4 DEF RowsOfKey, Moves, Ids
    <3> QED
      BY <1>8, <3>1 DEF RowsOfKey, Owner, Key, Keys
  <2>5. OpenRows(k)' \subseteq {ActiveOf(k)'}
    BY <1>8, <2>2, <2>3, <2>4 DEF OpenRows
  <2>6. \A a \in RowsOfKey(k) : alerts[a].at \in Time /\ alerts[a].at + Cooldown[r] <= now
    BY <1>1, <1>2, <1>3, <1>6, <2>1 DEF AInv, FiresCooled, RowsOfKey, RowsUsed, Owner, Key
  <2>7. ASSUME NEW a \in Ids, Owner(a) = k PROVE Remembered(a)'
    <3> SUFFICES ASSUME alerts'[a].st # "none", a[1] \notin earlier
                 PROVE  alerts'[a].at <= now /\ now # None /\ o # None
      BY <1>7, <1>8, <1>11, <2>7 DEF Remembered
    <3>1. now \in Nat /\ now # None /\ o # None /\ Cooldown[r] \in Nat
      BY AlertAssumption DEF Time, Ids
    <3>2. CASE a = <<e, r>>
      BY <1>8, <3>1, <3>2
    <3>3. CASE a # <<e, r>>
      <4>1. a \in RowsOfKey(k) /\ alerts'[a] = alerts[a]
        BY <1>8, <2>7, <3>3 DEF RowsOfKey, Owner, Key
      <4>2. alerts[a].at \in Nat /\ alerts[a].at + Cooldown[r] <= now
        BY <2>6, <4>1 DEF Time
      <4>3. alerts[a].at <= now
        BY <3>1, <4>2
      <4> QED
        BY <3>1, <4>1, <4>3
    <3> QED
      BY <3>2, <3>3
  <2>8. ASSUME NEW a \in RowsOfKey(k)', NEW b \in RowsOfKey(k)', a[1] < b[1]
        PROVE  alerts'[a].at + Cooldown[k[1]] <= alerts'[b].at
    <3>1. a \in Ids /\ b \in Ids /\ a[1] \in Evals /\ b[1] \in Evals /\ e \in Nat
      BY <2>4, AlertAssumption DEF Ids, Evals
    <3>2. \A i \in Evals : i \in Nat
      BY AlertAssumption DEF Evals
    <3>3. a # <<e, r>>
      <4> SUFFICES ASSUME a = <<e, r>> PROVE FALSE
        OBVIOUS
      <4>1. b # <<e, r>> /\ evals[b[1]].device = evals[e].device
        BY <1>3, <2>4, <2>8, <3>1, <3>2 DEF Owner, Key
      <4>2. e < b[1]
        BY <2>8
      <4> QED
        BY <1>3, <2>1, <3>1, <4>1, <4>2 DEF AInv, OneAtATime
    <3>4. alerts'[a] = alerts[a] /\ a \in RowsOfKey(k)
      BY <1>8, <2>4, <3>1, <3>3
    <3>5. CASE b = <<e, r>>
      BY <1>3, <1>8, <2>6, <3>4, <3>5
    <3>6. CASE b # <<e, r>>
      BY <1>8, <2>1, <2>4, <2>8, <3>1, <3>4, <3>6 DEF AInv, CooldownKept
    <3> QED
      BY <3>5, <3>6
  <2> QED
    BY <2>5, <2>7, <2>8
<1>18. /\ \A a \in Ids : alerts[a].st # "none" => alerts'[a].st # "none" /\ alerts'[a].at = alerts[a].at
       /\ \A a \in Ids : alerts[a].st = "none" /\ alerts'[a].st # "none" =>
                          a = <<e, evals[e].rule>> /\ alerts'[a].at \in Time
  BY <1>2, <1>3, <1>8
<1> QED
  BY <1>1, <1>2, <1>4, <1>7, <1>8, <1>9, <1>10, <1>12, <1>14, <1>15, <1>16, <1>17, <1>18, KeyStep,
     SMTT(30) DEF Awaits

LEMMA ResolveReturnsStep ==
    ASSUME AInv, NEW e \in Evals, ResolveReturns(e)
    PROVE  AInv'
<1>1. Awaits(e) /\ evals[e].pc = "resolving" /\ EvalOK(e)
  BY DEF ResolveReturns, Awaits, AInv, EvalsOK
<1>2. PICK k \in Keys, o \in Ids, r \in Rules, x \in Ids :
         k = Key(e, r) /\ o = evals[e].obj /\ r = evals[e].rule /\ x = evals[e].alert
  BY <1>1, AwaitedFacts DEF EvalOK
<1>3. /\ InProgress(e) /\ Owner(o) = k /\ Used(o) /\ alerts[x].st # "none"
      /\ k = <<r, evals[e].device>>
  BY <1>1, <1>2, AwaitedFacts DEF EvalOK, Key
<1>4. /\ Moves(e) /\ EvalOK(e)' /\ evals'[e].pc \in {"between", "done"}
  BY <1>2, <1>3, ContinueMoves, ContinueKeeps DEF ResolveReturns, process, histories
<1>5. /\ heap \in [Ids -> StateObject] /\ alerts \in [Ids -> AlertRow]
      /\ states \in [Keys -> Ids \cup {None}]
  BY DEF AInv, AlertTypeOK
<1>6. /\ states' = [states EXCEPT ![k] = o]
      /\ heap' = [heap EXCEPT ![o].active = None, ![o].pendingSince = None]
      /\ alerts' = [a \in Ids |-> IF a = x THEN [alerts[a] EXCEPT !.st = "resolved"] ELSE alerts[a]]
      /\ UNCHANGED <<clock, restarts, earlier, overlapped, faulted, hotSince>>
  BY <1>1, <1>2, Resolves DEF ResolveReturns, process, histories
<1>7. /\ heap' \in [Ids -> StateObject] /\ \A p \in Ids \ {o} : heap'[p] = heap[p]
      /\ heap'[o].pendingSince = None /\ heap'[o].active = None
      /\ heap'[o].lastFiredAt = heap[o].lastFiredAt
  BY <1>5, <1>6 DEF StateObject
<1>8. /\ alerts' \in [Ids -> AlertRow] /\ \A a \in Ids \ {x} : alerts'[a] = alerts[a]
      /\ alerts'[x].st = "resolved" /\ alerts'[x].at = alerts[x].at
  BY <1>5, <1>6 DEF AlertRow
<1>9. /\ states' \in [Keys -> Ids \cup {None}] /\ states'[k] = o
      /\ \A j \in Keys \ {k} : states'[j] = states[j]
  BY <1>5, <1>6
<1>10. AlertTypeOK'
  BY <1>4, <1>6, <1>7, <1>8, <1>9 DEF AInv, AlertTypeOK, Moves
<1>11. OnlyKey(k, o)
  BY <1>3, <1>6, <1>7, <1>8, <1>9 DEF OnlyKey
<1>12. \A p \in Ids : Owner(p)' = Owner(p) /\ (Used(p) => Used(p)')
  BY <1>4, MovesFacts
<1>13. \A p \in Ids \ {o} : heap[p].active # x
  BY <1>1, <1>2 DEF AInv, ResolvesOwn
<1>14. ASSUME NEW p \in Ids PROVE ActiveOwned(p)'
  <2>1. CASE p = o
    BY <1>3, <1>7, <1>12, <2>1 DEF ActiveOwned
  <2>2. CASE p # o
    <3>1. ActiveOwned(p) /\ heap'[p] = heap[p] /\ heap[p].active \in Ids \cup {None}
      BY <1>5, <1>7, <2>2 DEF AInv, StateObject
    <3>2. CASE heap[p].active = None
      BY <1>12, <3>1, <3>2 DEF ActiveOwned
    <3>3. CASE heap[p].active # None
      <4>1. PICK y \in Ids : y = heap[p].active
        BY <3>1, <3>3
      <4>2. alerts'[y] = alerts[y]
        BY <1>8, <1>13, <2>2, <4>1
      <4> QED
        BY <1>6, <1>12, <3>1, <3>3, <4>1, <4>2 DEF ActiveOwned
    <3> QED
      BY <3>2, <3>3
  <2> QED
    BY <2>1, <2>2
<1>15. ActiveOnce'
  BY <1>7, AlertAssumption DEF AInv, ActiveOnce
<1>16. ASSUME NEW f \in Evals PROVE ResolvesOwn(f)'
  <2>1. CASE f = e
    BY <1>4, <2>1 DEF ResolvesOwn
  <2>2. CASE f # e
    <3>1. evals'[f] = evals[f] /\ ResolvesOwn(f) /\ EvalOK(f)
      BY <1>4, <2>2 DEF AInv, Moves, EvalsOK
    <3> QED
      BY <1>7, <3>1, AlertAssumption DEF ResolvesOwn, EvalOK
  <2> QED
    BY <2>1, <2>2
<1>17. PendingIsHot(k)'
  BY <1>2, <1>6, <1>7, <1>9 DEF PendingIsHot, AInv
<1>18. /\ \A a \in Ids : alerts[a].st # "none" => alerts'[a].st # "none" /\ alerts'[a].at = alerts[a].at
       /\ \A a \in Ids : alerts'[a].st # "none" => alerts[a].st # "none"
       /\ \A a \in Ids : alerts'[a].st = "open" => alerts[a].st = "open" /\ a # x
  BY <1>3, <1>8
<1>19. ASSUME Sequential(k)'
       PROVE  /\ \A a \in Ids : Owner(a) = k => Remembered(a)'
              /\ OpenRows(k)' \subseteq {ActiveOf(k)'}
              /\ \A a, b \in RowsOfKey(k)' : a[1] < b[1] =>
                    alerts'[a].at + Cooldown[k[1]] <= alerts'[b].at
  <2>1. Sequential(k) /\ evals[e].device \notin overlapped
    BY <1>3, <1>6, <1>19 DEF Sequential
  <2>2. states[k] = o /\ ActiveOf(k) = x
    BY <1>1, <1>2, <2>1 DEF AInv, AwaitsCurrent
  <2>3. \A a \in RowsOfKey(k)' : a \in RowsOfKey(k) /\ a \in Ids
    BY <1>4, <1>18 DEF RowsOfKey, Moves, Ids
  <2>4. OpenRows(k)' = {}
    <3> SUFFICES ASSUME NEW a \in RowsOfKey(k)', alerts'[a].st = "open" PROVE FALSE
      BY DEF OpenRows
    <3>1. a \in OpenRows(k) /\ a # x
      BY <1>18, <2>3 DEF OpenRows
    <3> QED
      BY <2>1, <2>2, <3>1 DEF AInv, OpenIsActive
  <2>5. ASSUME NEW a \in Ids, Owner(a) = k PROVE Remembered(a)'
    <3>1. Remembered(a) /\ Owner(a)' = k /\ states'[k] = o /\ states[k] = o
      BY <1>9, <1>12, <2>2, <2>5 DEF AInv
    <3> QED
      BY <1>6, <1>7, <1>18, <2>1, <2>5, <3>1 DEF Remembered
  <2>6. \A a, b \in RowsOfKey(k)' : a[1] < b[1] =>
                    alerts'[a].at + Cooldown[k[1]] <= alerts'[b].at
    <3>1. \A a \in RowsOfKey(k)' : a \in RowsOfKey(k) /\ alerts'[a].at = alerts[a].at
      BY <1>18, <2>3 DEF RowsOfKey
    <3> QED
      BY <2>1, <3>1 DEF AInv, CooldownKept
  <2> QED
    BY <2>4, <2>5, <2>6
<1>20. \A a \in Ids : alerts[a].st = "none" /\ alerts'[a].st # "none" =>
                          a = <<e, evals[e].rule>> /\ alerts'[a].at \in Time
  BY <1>18
<1> QED
  BY <1>1, <1>2, <1>4, <1>6, <1>9, <1>10, <1>11, <1>14, <1>15, <1>16, <1>17, <1>18, <1>19, <1>20, KeyStep
     DEF Awaits

LEMMA StatementFailsStep ==
    ASSUME AInv, NEW e \in Evals, StatementFails(e)
    PROVE  AInv'
<1>1. Awaits(e) /\ EvalOK(e)
  BY DEF StatementFails, Awaits, AInv, EvalsOK
<1>2. PICK k \in Keys, o \in Ids, r \in Rules :
         k = Key(e, r) /\ o = evals[e].obj /\ r = evals[e].rule
  BY <1>1, AwaitedFacts
<1>3. /\ InProgress(e) /\ Owner(o) = k /\ Used(o) /\ evals[e].now \in Time
      /\ <<e, r>> \in Ids /\ Owner(<<e, r>>) = k /\ k[2] = evals[e].device
      /\ e \notin earlier /\ evals[e].device \in Devices
  BY <1>1, <1>2, AwaitedFacts, InProgressFacts DEF Key
<1>4. /\ heap \in [Ids -> StateObject] /\ alerts \in [Ids -> AlertRow]
      /\ states \in [Keys -> Ids \cup {None}] /\ evals \in [Evals -> Evaluation]
  BY DEF AInv, AlertTypeOK
<1>5. /\ heap' = heap /\ states' = states /\ faulted' = faulted \cup {k}
      /\ UNCHANGED <<clock, restarts, earlier, overlapped, hotSince>>
  BY <1>2 DEF StatementFails, engineVars, process
<1>6. evals'[e] = [pc |-> "done", device |-> evals[e].device, todo |-> evals[e].todo, hot |-> {},
                  rule |-> None, now |-> None, obj |-> None, alert |-> None]
  BY <1>4 DEF StatementFails, Ended, NotStarted
<1>7. Moves(e) /\ EvalOK(e)' /\ ~Awaits(e)'
  <2>1. evals[e].device \in Devices \cup {None} /\ evals[e].todo \in SUBSET Rules
    BY <1>4 DEF Evaluation
  <2>2. evals'[e] \in Evaluation
    BY <1>6, <2>1 DEF Evaluation
  <2>3. evals' \in [Evals -> Evaluation] /\ \A f \in Evals \ {e} : evals'[f] = evals[f]
    BY <1>4, <2>2 DEF StatementFails
  <2> QED
    BY <1>3, <1>5, <1>6, <2>3 DEF Moves, EvalOK, Awaits
<1>8. /\ alerts' \in [Ids -> AlertRow]
      /\ \A a \in Ids : alerts[a].st # "none" => alerts'[a].st # "none" /\ alerts'[a].at = alerts[a].at
      /\ \A a \in Ids : alerts[a].st = "none" /\ alerts'[a].st # "none" =>
                        a = <<e, r>> /\ alerts'[a].at \in Time
      /\ \A a \in Ids : alerts'[a].st = "open" => alerts[a].st = "open" \/ a = <<e, r>>
      /\ \A a \in Ids : alerts[a].st = "open" /\ alerts'[a].st # "open" =>
                        evals[e].pc = "resolving" /\ a = evals[e].alert
  <2>1. CASE alerts' = Executed({})
    <3>1. Inserted({}) = {} /\ Resolved({}) = {}
      BY DEF Inserted, Resolved
    <3>2. alerts' = alerts
      BY <1>4, <2>1, <3>1 DEF Executed
    <3> QED
      BY <1>4, <3>2
  <2>2. CASE alerts' = Executed({e}) /\ evals[e].pc = "firing"
    <3>1. alerts' = [a \in Ids |-> IF a = <<e, r>> THEN [st |-> "open", at |-> evals[e].now]
                                  ELSE alerts[a]]
      BY <1>2, <2>2, Inserts
    <3>2. alerts[<<e, r>>].st = "none"
      BY <1>1, <1>2, <2>2 DEF EvalOK
    <3>3. /\ alerts'[<<e, r>>] \in AlertRow /\ alerts'[<<e, r>>].st = "open"
          /\ alerts'[<<e, r>>].at \in Time
          /\ \A a \in Ids \ {<<e, r>>} : alerts'[a] = alerts[a]
      BY <1>3, <3>1 DEF AlertRow
    <3>4. alerts' \in [Ids -> AlertRow]
      BY <1>4, <3>1, <3>3
    <3> QED
      BY <3>2, <3>3, <3>4
  <2>3. CASE alerts' = Executed({e}) /\ evals[e].pc = "resolving"
    <3>1. PICK x \in Ids : x = evals[e].alert
      BY <1>1, <2>3 DEF EvalOK
    <3>2. alerts' = [a \in Ids |-> IF a = x THEN [alerts[a] EXCEPT !.st = "resolved"] ELSE alerts[a]]
      BY <2>3, <3>1, Resolves
    <3>3. alerts[x].st # "none"
      BY <1>1, <2>3, <3>1 DEF EvalOK
    <3>4. /\ alerts'[x] \in AlertRow /\ alerts'[x].st = "resolved" /\ alerts'[x].at = alerts[x].at
          /\ \A a \in Ids \ {x} : alerts'[a] = alerts[a]
      BY <1>4, <3>2 DEF AlertRow
    <3>5. alerts' \in [Ids -> AlertRow]
      BY <1>4, <3>2, <3>4
    <3> QED
      BY <2>3, <3>1, <3>3, <3>4, <3>5
  <2> QED
    BY <2>1, <2>2, <2>3 DEF StatementFails
<1>9. AlertTypeOK'
  BY <1>4, <1>5, <1>7, <1>8 DEF AInv, AlertTypeOK, Moves
<1>10. OnlyKey(k, o)
  BY <1>3, <1>5, <1>8 DEF OnlyKey
<1>11. \A p \in Ids : Owner(p)' = Owner(p) /\ (Used(p) => Used(p)')
  BY <1>7, MovesFacts
<1>12. ASSUME NEW p \in Ids PROVE ActiveOwned(p)'
  <2>1. ActiveOwned(p) /\ heap[p].active \in Ids \cup {None}
    BY <1>4 DEF AInv, StateObject
  <2>2. CASE heap[p].active = None
    BY <1>5, <1>11, <2>1, <2>2 DEF ActiveOwned
  <2>3. CASE heap[p].active # None
    <3>1. PICK x \in Ids : x = heap[p].active
      BY <2>1, <2>3
    <3>2. alerts'[x].st = "open" \/ alerts[x].st # "open" \/ p = o
      BY <1>2, <1>8, <3>1 DEF AInv, ResolvesOwn
    <3>3. alerts'[x].st # "none"
      BY <1>8, <2>1, <2>3, <3>1 DEF ActiveOwned
    <3> QED
      BY <1>3, <1>5, <1>11, <2>1, <2>3, <3>1, <3>2, <3>3 DEF ActiveOwned
  <2> QED
    BY <2>2, <2>3
<1>13. ActiveOnce' /\ \A f \in Evals : ResolvesOwn(f)'
  BY <1>5, <1>7 DEF AInv, ActiveOnce, ResolvesOwn, Moves, Awaits
<1>14. PendingIsHot(k)'
  BY <1>5 DEF PendingIsHot, AInv
<1>15. ~Sequential(k)'
  BY <1>5 DEF Sequential
<1>16. states'[k] = states[k]
  BY <1>5
<1> QED
  BY <1>1, <1>2, <1>5, <1>7, <1>8, <1>9, <1>10, <1>12, <1>13, <1>14, <1>15, <1>16, KeyStep

-----------------------------------------------------------------------------
(* A point arrives, the server restarts, time passes. *)

LEMMA EvaluateStep ==
    ASSUME AInv, NEW e \in Evals, NEW d \in Devices, NEW rules \in SUBSET Rules,
           NEW hot \in SUBSET rules, Evaluate(e, d, rules, hot)
    PROVE  AInv'
<1>1. /\ heap \in [Ids -> StateObject] /\ evals \in [Evals -> Evaluation] /\ overlapped \subseteq Devices
  BY DEF AInv, AlertTypeOK
<1>2. /\ evals[e].pc = "idle" /\ e \notin earlier /\ \A f \in Evals : f < e => evals[f].pc # "idle"
      /\ evals[e].device = None
  <2>1. evals[e].pc = "idle" /\ \A f \in Evals : f < e => evals[f].pc # "idle"
    BY DEF Evaluate
  <2>2. evals[e] = NotStarted /\ e \notin earlier
    BY <2>1 DEF AInv, EvalsOK, EvalOK
  <2>3. NotStarted.device = None
    BY DEF NotStarted
  <2> QED
    BY <2>1, <2>2, <2>3
<1>3. /\ UNCHANGED <<clock, states, heap, alerts, restarts, earlier, faulted, hotSince>>
      /\ overlapped \subseteq overlapped' /\ overlapped' \subseteq Devices
      /\ (\E f \in Evals : InProgress(f) /\ evals[f].device = d) => d \in overlapped'
  BY <1>1 DEF Evaluate, engineVars, process
<1>4. evals'[e] = [pc |-> "between", device |-> d, todo |-> rules, hot |-> hot, rule |-> None,
                  now |-> None, obj |-> None, alert |-> None]
  BY <1>1 DEF Evaluate, NotStarted
<1>5. evals' \in [Evals -> Evaluation] /\ \A f \in Evals \ {e} : evals'[f] = evals[f]
  <2>1. evals'[e] \in Evaluation
    BY <1>4 DEF Evaluation
  <2> QED
    BY <1>1, <2>1 DEF Evaluate
<1>6. \A o \in Ids : ~Used(o) \/ o[1] # e
  BY <1>2 DEF Used, Ids
<1>7. \A o \in Ids : Used(o) => Used(o)' /\ Owner(o)' = Owner(o)
  BY <1>5, <1>6 DEF Used, Owner, Key, Ids
<1>8. \A o \in Ids : Used(o)' /\ o[1] # e => Used(o)
  BY <1>5 DEF Used, Ids
<1>9. \A o \in Ids : alerts[o].st # "none" => Used(o)
  BY DEF AInv, RowsUsed
<1>10. \A o \in Ids : heap[o].active # None => Used(o) /\ Used(heap[o].active) /\ heap[o].active \in Ids
  <2> TAKE o \in Ids
  <2> HAVE heap[o].active # None
  <2>1. heap[o].active \in Ids
    BY <1>1 DEF StateObject
  <2>2. Used(o)
    BY DEF AInv, ActiveOwned, Undefined
  <2>3. alerts[heap[o].active].st # "none"
    BY DEF AInv, ActiveOwned
  <2> QED
    BY <1>9, <2>1, <2>2, <2>3
<1>11. AlertTypeOK'
  BY <1>3, <1>5 DEF AInv, AlertTypeOK
<1>12. ASSUME NEW f \in Evals
       PROVE  EvalOK(f)' /\ ResolvesOwn(f)' /\ AwaitsCurrent(f)' /\ FiresCooled(f)'
  <2>1. CASE f = e
    BY <1>2, <1>3, <1>4, <2>1 DEF EvalOK, Awaits, ResolvesOwn, AwaitsCurrent, FiresCooled
  <2>2. CASE f # e
    <3>1. /\ evals'[f] = evals[f] /\ EvalOK(f) /\ ResolvesOwn(f) /\ AwaitsCurrent(f) /\ FiresCooled(f)
          /\ \A r : Key(f, r)' = Key(f, r)
      BY <1>5, <2>2 DEF AInv, EvalsOK, Key
    <3>2. EvalOK(f)' /\ ResolvesOwn(f)' /\ AwaitsCurrent(f)'
      BY <1>3, <1>7, <3>1 DEF EvalOK, Awaits, ResolvesOwn, AwaitsCurrent, ActiveOf
    <3>3. FiresCooled(f)'
      BY <1>3, <1>7, <1>9, <3>1 DEF FiresCooled, Sequential
    <3> QED
      BY <3>1, <3>2, <3>3
  <2> QED
    BY <2>1, <2>2
<1>13. EvalsOK'
  BY <1>12 DEF EvalsOK
<1>14. InOrder'
  <2>1. \A f, g \in Evals : f \in Nat /\ g \in Nat
    BY AlertAssumption DEF Evals
  <2>2. \A f \in Evals : evals'[f].pc = "idle" => evals[f].pc = "idle" /\ f # e
    BY <1>4, <1>5
  <2>3. \A f \in Evals : evals[f].pc = "idle" /\ f # e => ~(f < e)
    BY <1>2
  <2> QED
    BY <1>5, <2>1, <2>2, <2>3 DEF AInv, InOrder
<1>15. OneAtATime'
  <2> SUFFICES ASSUME NEW f \in Evals, NEW g \in Evals, InProgress(f)', evals'[f].device \notin overlapped',
                      f < g, evals'[g].device = evals'[f].device
               PROVE  FALSE
    BY DEF OneAtATime
  <2>1. f \in Nat /\ g \in Nat /\ e \in Nat
    BY AlertAssumption DEF Evals
  <2>2. CASE f = e
    <3>1. evals'[g] = evals[g] /\ evals'[g].device = d /\ evals[g].pc = "idle"
      BY <1>2, <1>4, <1>5, <2>1, <2>2 DEF AInv, InOrder
    <3>2. evals[g] = NotStarted
      BY <3>1 DEF AInv, EvalsOK, EvalOK
    <3>3. NotStarted.device = None
      BY DEF NotStarted
    <3> QED
      BY <3>1, <3>2, <3>3, AlertAssumption
  <2>3. CASE f # e /\ g = e
    <3>1. InProgress(f) /\ evals[f].device = d
      BY <1>4, <1>5, <2>3 DEF InProgress
    <3> QED
      BY <1>3, <1>4, <2>3, <3>1
  <2>4. CASE f # e /\ g # e
    BY <1>3, <1>5, <2>4 DEF AInv, OneAtATime, InProgress
  <2> QED
    BY <2>2, <2>3, <2>4
<1>16. RowsUsed' /\ \A a \in Ids : Remembered(a)'
  BY <1>3, <1>7, <1>9 DEF AInv, RowsUsed, Remembered, Sequential
<1>17. StatesOwned'
  BY <1>3, <1>7 DEF AInv, StatesOwned
<1>18. ASSUME NEW o \in Ids PROVE ActiveOwned(o)'
  <2>1. ActiveOwned(o)
    BY DEF AInv
  <2>2. heap[o].active # None => Owner(heap[o].active)' = Owner(heap[o].active)
    <3> HAVE heap[o].active # None
    <3>1. PICK x \in Ids : x = heap[o].active
      BY <1>10
    <3> QED
      BY <1>3, <1>7, <1>10, <3>1
  <2>3. Used(o) => Used(o)' /\ Owner(o)' = Owner(o)
    BY <1>7
  <2> QED
    BY <1>3, <1>10, <2>1, <2>2, <2>3 DEF ActiveOwned
<1>19. ActiveOnce' /\ \A k \in Keys : PendingIsHot(k)'
  BY <1>3 DEF AInv, ActiveOnce, PendingIsHot
<1>20. OpenIsActive' /\ CooldownKept'
  <2>1. \A k \in Keys : ActiveOf(k)' = ActiveOf(k) /\ (Sequential(k)' => Sequential(k))
    BY <1>3 DEF ActiveOf, Sequential
  <2>2. \A k \in Keys : RowsOfKey(k)' = RowsOfKey(k) /\ OpenRows(k)' = OpenRows(k)
    <3> TAKE k \in Keys
    <3>1. \A a \in Ids : alerts[a].st # "none" => a[1] # e
      BY <1>6, <1>9
    <3>2. RowsOfKey(k)' = RowsOfKey(k)
      BY <1>3, <1>5, <3>1 DEF RowsOfKey, Ids
    <3> QED
      BY <1>3, <3>2 DEF OpenRows
  <2> QED
    BY <1>3, <2>1, <2>2 DEF AInv, OpenIsActive, CooldownKept
<1> QED
  BY <1>11, <1>12, <1>13, <1>14, <1>15, <1>16, <1>17, <1>18, <1>19, <1>20 DEF AInv

(* A restart forgets every object, and what the process had started is of    *)
(* an earlier one.                                                           *)
LEMMA RestartStep ==
    ASSUME AInv, ServerRestarts
    PROVE  AInv'
<1>1. /\ clock \in Time /\ alerts \in [Ids -> AlertRow] /\ evals \in [Evals -> Evaluation]
      /\ restarts \in 0 .. MaxRestarts
  BY DEF AInv, AlertTypeOK
<1>2. /\ states' = [k \in Keys |-> None] /\ heap' = [o \in Ids |-> Undefined]
      /\ overlapped' = {} /\ faulted' = {} /\ hotSince' = [k \in Keys |-> None] /\ clock' = clock
      /\ earlier' = {e \in Evals : evals[e].pc # "idle"} /\ restarts' = restarts + 1
      /\ restarts < MaxRestarts
  BY DEF ServerRestarts
<1>3. \A e \in Evals : /\ e \in earlier' => evals'[e] = Ended(NotStarted)
                       /\ e \notin earlier' => evals'[e] = NotStarted
  BY <1>2 DEF ServerRestarts, AInv, EvalsOK, EvalOK
<1>4. Ended(NotStarted) = [pc |-> "done", device |-> None, todo |-> {}, hot |-> {}, rule |-> None,
                          now |-> None, obj |-> None, alert |-> None]
  <2>1. NotStarted.device = None /\ NotStarted.todo = {}
    BY DEF NotStarted
  <2>2. Ended(NotStarted) = [NotStarted EXCEPT !.pc = "done", !.device = None, !.todo = {}]
    BY <2>1 DEF Ended
  <2> QED
    BY <2>2 DEF NotStarted
<1>5. evals' \in [Evals -> Evaluation]
  <2>1. NotStarted \in Evaluation /\ Ended(NotStarted) \in Evaluation
    BY <1>4 DEF NotStarted, Evaluation
  <2> QED
    BY <1>3, <2>1 DEF ServerRestarts
<1>6. alerts' \in [Ids -> AlertRow] /\ \A a \in Ids : alerts'[a].st # "none" =>
                                              evals[a[1]].pc # "idle" /\ alerts'[a].at \in Time
  <2>1. PICK S \in SUBSET {e \in Evals : InProgress(e)} : alerts' = Executed(S)
    BY DEF ServerRestarts
  <2>2. ASSUME NEW a \in Ids
        PROVE  alerts'[a] \in AlertRow /\ (alerts'[a].st # "none" => evals[a[1]].pc # "idle" /\ alerts'[a].at \in Time)
    <3>1. CASE a \in Inserted(S)
      <4>1. PICK e \in S : evals[e].pc = "firing" /\ a = <<e, evals[e].rule>>
        BY <3>1 DEF Inserted
      <4>2. e \in Evals /\ Awaits(e) /\ alerts'[a] = [st |-> "open", at |-> evals[e].now]
        BY <2>1, <3>1, <4>1 DEF Executed, Awaits
      <4>3. evals[e].now \in Time
        BY <4>2, AwaitedFacts
      <4> QED
        BY <4>1, <4>2, <4>3 DEF AlertRow
    <3>2. CASE a \notin Inserted(S) /\ a \in Resolved(S)
      <4>1. PICK e \in S : evals[e].pc = "resolving" /\ a = evals[e].alert
        BY <3>2 DEF Resolved
      <4>2. alerts[a].st # "none" /\ alerts[a] \in AlertRow
        BY <1>1, <4>1 DEF AInv, EvalsOK, EvalOK
      <4>3. evals[a[1]].pc # "idle" /\ alerts[a].at \in Time
        BY <4>2 DEF AInv, RowsUsed, Used
      <4>4. alerts'[a] = [alerts[a] EXCEPT !.st = "resolved"]
        BY <2>1, <3>2 DEF Executed
      <4> QED
        BY <4>2, <4>3, <4>4 DEF AlertRow
    <3>3. CASE a \notin Inserted(S) /\ a \notin Resolved(S)
      BY <1>1, <2>1, <3>3 DEF Executed, AInv, RowsUsed, Used
    <3> QED
      BY <3>1, <3>2, <3>3
  <2>3. alerts' = [a \in Ids |-> alerts'[a]]
    BY <2>1 DEF Executed
  <2> QED
    BY <2>2, <2>3
<1>7. AlertTypeOK'
  BY <1>1, <1>2, <1>5, <1>6, AlertAssumption DEF AlertTypeOK, StateObject, Undefined
<1>8. \A e \in Evals : EvalOK(e)' /\ ~Awaits(e)' /\ ~InProgress(e)' /\ evals'[e].device = None
  BY <1>2, <1>3, <1>4 DEF EvalOK, Awaits, InProgress, NotStarted
<1>9. InOrder'
  BY <1>2, <1>3, <1>4 DEF InOrder, AInv, NotStarted
<1>10. RowsUsed' /\ OneAtATime'
  BY <1>2, <1>3, <1>4, <1>6, <1>8 DEF RowsUsed, OneAtATime, Used, Ids
<1>11. StatesOwned' /\ ActiveOnce' /\ \A k \in Keys : PendingIsHot(k)'
  BY <1>2 DEF StatesOwned, ActiveOnce, PendingIsHot, Undefined
<1>12. \A o \in Ids : ActiveOwned(o)'
  BY <1>2 DEF ActiveOwned, Undefined
<1>13. \A e \in Evals : ResolvesOwn(e)' /\ AwaitsCurrent(e)' /\ FiresCooled(e)'
  BY <1>8 DEF ResolvesOwn, AwaitsCurrent, FiresCooled, Awaits
<1>14. \A a \in Ids : alerts'[a].st # "none" => a[1] \in earlier'
  BY <1>2, <1>6 DEF Ids
<1>15. \A a \in Ids : Remembered(a)'
  BY <1>14 DEF Remembered
<1>16. OpenIsActive' /\ CooldownKept'
  <2>1. \A k \in Keys : RowsOfKey(k)' = {}
    BY <1>14 DEF RowsOfKey
  <2> QED
    BY <2>1 DEF OpenIsActive, CooldownKept, OpenRows
<1> QED
  BY <1>7, <1>8, <1>9, <1>10, <1>11, <1>12, <1>13, <1>15, <1>16 DEF AInv, EvalsOK

-----------------------------------------------------------------------------
(* Nothing is evaluated, remembered or stored when the server first starts. *)
LEMMA InitAInv == Init => AInv
<1> SUFFICES ASSUME Init PROVE AInv
  OBVIOUS
<1> USE AlertAssumption
<1>1. /\ clock = 0 /\ states = [k \in Keys |-> None] /\ heap = [o \in Ids |-> Undefined]
      /\ evals = [e \in Evals |-> NotStarted] /\ alerts = [a \in Ids |-> NoRow] /\ restarts = 0
      /\ earlier = {} /\ overlapped = {} /\ faulted = {} /\ hotSince = [k \in Keys |-> None]
  BY DEF Init
<1>2. NotStarted.pc = "idle" /\ NotStarted.rule = None /\ NotStarted.device = None /\ NoRow.st = "none"
  BY DEF NotStarted, NoRow
<1>3. AlertTypeOK
  <2>1. NotStarted \in Evaluation /\ Undefined \in StateObject /\ NoRow \in AlertRow
    BY DEF NotStarted, Undefined, NoRow, Evaluation, StateObject, AlertRow
  <2>2. 0 \in Time /\ 0 \in 0 .. MaxRestarts
    BY DEF Time
  <2> QED
    BY <1>1, <2>1, <2>2 DEF AlertTypeOK
<1>4. EvalsOK /\ InOrder /\ OneAtATime
  BY <1>1, <1>2 DEF EvalsOK, EvalOK, Awaits, InOrder, OneAtATime, InProgress
<1>5. RowsUsed /\ StatesOwned /\ ActiveOnce /\ \A o \in Ids : ActiveOwned(o)
  BY <1>1, <1>2 DEF RowsUsed, StatesOwned, ActiveOnce, ActiveOwned, Undefined
<1>6. \A e \in Evals : ResolvesOwn(e) /\ AwaitsCurrent(e) /\ FiresCooled(e)
  BY <1>1, <1>2 DEF ResolvesOwn, AwaitsCurrent, FiresCooled, Awaits
<1>7. (\A k \in Keys : PendingIsHot(k)) /\ \A a \in Ids : Remembered(a)
  BY <1>1, <1>2 DEF PendingIsHot, Remembered
<1>8. OpenIsActive /\ CooldownKept
  BY <1>1, <1>2 DEF OpenIsActive, CooldownKept, OpenRows, RowsOfKey
<1> QED
  BY <1>3, <1>4, <1>5, <1>6, <1>7, <1>8 DEF AInv

LEMMA TickStep ==
    ASSUME AInv, Tick
    PROVE  AInv'
<1>1. /\ clock' \in Time /\ clock <= clock' /\ clock \in Nat
      /\ UNCHANGED <<states, heap, evals, alerts, restarts, earlier, overlapped, faulted, hotSince>>
  BY AlertAssumption DEF Tick, engineVars, process, histories, AInv, AlertTypeOK, Time
<1>2. AlertTypeOK'
  BY <1>1 DEF AInv, AlertTypeOK
<1>3. EvalsOK' /\ InOrder' /\ OneAtATime' /\ RowsUsed' /\ StatesOwned'
  BY <1>1 DEF AInv, EvalsOK, EvalOK, Awaits, InOrder, OneAtATime, InProgress, RowsUsed, StatesOwned,
              Used, Owner, Key
<1>4. ActiveOnce' /\ \A o \in Ids : ActiveOwned(o)'
  BY <1>1 DEF AInv, ActiveOnce, ActiveOwned, Used, Owner, Key
<1>5. \A e \in Evals : ResolvesOwn(e)' /\ AwaitsCurrent(e)' /\ FiresCooled(e)'
  BY <1>1 DEF AInv, ResolvesOwn, AwaitsCurrent, FiresCooled, Awaits, Owner, Key, ActiveOf, Sequential
<1>6. ASSUME NEW k \in Keys PROVE PendingIsHot(k)'
  <2>1. hotSince[k] # None => hotSince[k] \in Nat
    BY DEF AInv, AlertTypeOK, Time
  <2> QED
    BY <1>1, <2>1, AlertAssumption DEF AInv, AlertTypeOK, PendingIsHot, Time
<1>7. \A a \in Ids : Remembered(a)'
  BY <1>1 DEF AInv, Remembered, Owner, Key, Sequential
<1>8. OpenIsActive' /\ CooldownKept'
  BY <1>1 DEF AInv, OpenIsActive, CooldownKept, OpenRows, RowsOfKey, ActiveOf, Sequential
<1> QED
  BY <1>2, <1>3, <1>4, <1>5, <1>6, <1>7, <1>8 DEF AInv

LEMMA StutterStep ==
    ASSUME AInv, UNCHANGED vars
    PROVE  AInv'
<1>1. UNCHANGED <<clock, states, heap, evals, alerts, restarts, earlier, overlapped, faulted, hotSince>>
  BY DEF vars, engineVars, process, histories
<1>2. AlertTypeOK'
  BY <1>1 DEF AInv, AlertTypeOK
<1>3. EvalsOK' /\ InOrder' /\ OneAtATime' /\ RowsUsed' /\ StatesOwned'
  BY <1>1 DEF AInv, EvalsOK, EvalOK, Awaits, InOrder, OneAtATime, InProgress, RowsUsed, StatesOwned,
              Used, Owner, Key
<1>4. ActiveOnce' /\ \A o \in Ids : ActiveOwned(o)'
  BY <1>1 DEF AInv, ActiveOnce, ActiveOwned, Used, Owner, Key
<1>5. \A e \in Evals : ResolvesOwn(e)' /\ AwaitsCurrent(e)' /\ FiresCooled(e)'
  BY <1>1 DEF AInv, ResolvesOwn, AwaitsCurrent, FiresCooled, Awaits, Owner, Key, ActiveOf, Sequential
<1>6. (\A k \in Keys : PendingIsHot(k)') /\ \A a \in Ids : Remembered(a)'
  BY <1>1 DEF AInv, PendingIsHot, Remembered, Owner, Key, Sequential
<1>7. OpenIsActive' /\ CooldownKept'
  BY <1>1 DEF AInv, OpenIsActive, CooldownKept, OpenRows, RowsOfKey, ActiveOf, Sequential
<1> QED
  BY <1>2, <1>3, <1>4, <1>5, <1>6, <1>7 DEF AInv

LEMMA NextAInv == AInv /\ [Next]_vars => AInv'
<1> SUFFICES ASSUME AInv, [Next]_vars PROVE AInv'
  OBVIOUS
<1>1. ASSUME NEW e \in Evals, NEW d \in Devices, NEW rules \in SUBSET Rules, NEW hot \in SUBSET rules,
             Evaluate(e, d, rules, hot)
      PROVE  AInv'
  BY <1>1, EvaluateStep
<1>2. ASSUME NEW e \in Evals, NEW r \in Rules,
             InRange(e, r) \/ StartResolve(e, r) \/ StartPending(e, r) \/ Suppressed(e, r) \/ StartFire(e, r)
      PROVE  AInv'
  BY <1>2, InRangeStep, StartResolveStep, StartPendingStep, SuppressedStep, StartFireStep
<1>3. ASSUME NEW e \in Evals, FireReturns(e) \/ ResolveReturns(e) \/ StatementFails(e)
      PROVE  AInv'
  BY <1>3, FireReturnsStep, ResolveReturnsStep, StatementFailsStep
<1>4. CASE ServerRestarts
  BY <1>4, RestartStep
<1>5. CASE Tick
  BY <1>5, TickStep
<1>6. CASE UNCHANGED vars
  BY <1>6, StutterStep
<1> QED
  BY <1>1, <1>2, <1>3, <1>4, <1>5, <1>6 DEF Next

(* Everything above holds in every state the engine reaches. *)
THEOREM AlertSafety == Spec => []AInv
<1> QED
  BY InitAInv, NextAInv, PTL DEF Spec

(* The type invariant of the engine. *)
THEOREM AlertTypes == Spec => []AlertTypeOK
<1>1. AInv => AlertTypeOK
  BY DEF AInv
<1> QED
  BY <1>1, AlertSafety, PTL

(* What the engine calls active is an open row (resolveActive and fire write  *)
(* the object they read before the await), however evaluations overlap and    *)
(* restarts fall, unless a statement of the key failed.                       *)
THEOREM NeverSilenced == Spec => []ActiveIsOpen
<1>1. AInv => ActiveIsOpen
  <2> SUFFICES ASSUME AInv, NEW k \in Keys, ActiveOf(k) # None
               PROVE  alerts[ActiveOf(k)].st = "open" \/ k \in faulted
    BY DEF ActiveIsOpen
  <2>1. states[k] # None /\ ActiveOf(k) = heap[states[k]].active
    BY DEF ActiveOf
  <2>2. states[k] \in Ids /\ Owner(states[k]) = k
    BY <2>1 DEF AInv, StatesOwned
  <2> QED
    BY <2>1, <2>2 DEF AInv, ActiveOwned
<1> QED
  BY <1>1, AlertSafety, PTL

(* While a device's evaluations do not overlap, its open alert is the one     *)
(* the engine will resolve, ...                                               *)
THEOREM OneOpenRow == Spec => []OpenIsActive
<1>1. AInv => OpenIsActive
  BY DEF AInv
<1> QED
  BY <1>1, AlertSafety, PTL

(* ... and two alerts of a rule are cooldownSec apart. *)
THEOREM CooldownSpaces == Spec => []CooldownKept
<1>1. AInv => CooldownKept
  BY DEF AInv
<1> QED
  BY <1>1, AlertSafety, PTL

(* Only StartFire takes an evaluation from between two rules to an INSERT. *)
LEMMA FiringStarts ==
    ASSUME AInv, Next, NEW e \in Evals, evals[e].pc = "between", evals'[e].pc = "firing"
    PROVE  \E r \in Rules : StartFire(e, r)
<1>1. evals \in [Evals -> Evaluation]
  BY DEF AInv, AlertTypeOK
<1>2. ASSUME NEW f \in Evals, NEW d \in Devices, NEW rules \in SUBSET Rules, NEW hot \in SUBSET rules,
             Evaluate(f, d, rules, hot)
      PROVE  FALSE
  BY <1>1, <1>2 DEF Evaluate, NotStarted
<1>3. ASSUME NEW f \in Evals, NEW r \in Rules, InProgress(f), Continue(f, r), UNCHANGED <<earlier, overlapped>>
      PROVE  FALSE
  BY <1>3, ContinueMoves DEF Moves
<1>4. ASSUME NEW f \in Evals, NEW r \in Rules,
             InRange(f, r) \/ StartPending(f, r) \/ Suppressed(f, r)
      PROVE  FALSE
  BY <1>3, <1>4 DEF InRange, StartPending, Suppressed, Violated, InRangeOf, OutOfRangeOf, InProgress,
                    process, histories
<1>5. ASSUME NEW f \in Evals, NEW r \in Rules, StartResolve(f, r)
      PROVE  FALSE
  <2>1. PICK k \in Keys, o \in Ids : Takes(f, r, k, o)
    BY <1>5, TakenObject DEF StartResolve, InRangeOf
  <2>2. StateFor(f, r).active \in Ids \cup {None}
    BY <2>1 DEF Takes, StateObject
  <2>3. Moves(f) /\ evals'[f].pc = "resolving"
    BY <1>5, <2>2, AwaitMoves DEF StartResolve, InRangeOf, process, histories
  <2> QED
    BY <2>3 DEF Moves
<1>6. ASSUME NEW f \in Evals, NEW r \in Rules, StartFire(f, r)
      PROVE  f = e
  <2>1. Moves(f)
    BY <1>6, AwaitMoves DEF StartFire, Violated, OutOfRangeOf, process, histories
  <2> QED
    BY <2>1 DEF Moves
<1>7. ASSUME NEW f \in Evals, FireReturns(f) \/ ResolveReturns(f)
      PROVE  FALSE
  <2>1. Awaits(f)
    BY <1>7 DEF FireReturns, ResolveReturns, Awaits
  <2> QED
    BY <1>3, <1>7, <2>1, AwaitedFacts DEF FireReturns, ResolveReturns, process, histories
<1>8. ASSUME NEW f \in Evals, StatementFails(f)
      PROVE  FALSE
  <2>1. evals'[f].pc = "done" /\ \A g \in Evals \ {f} : evals'[g] = evals[g]
    BY <1>1, <1>8 DEF StatementFails, Ended, NotStarted
  <2> QED
    BY <2>1
<1>9. CASE ServerRestarts
  <2>1. evals'[e] = Ended(NotStarted) \/ evals'[e] = evals[e]
    BY <1>9 DEF ServerRestarts
  <2>2. Ended(NotStarted).pc = "done"
    BY DEF Ended, NotStarted
  <2> QED
    BY <2>1, <2>2
<1>10. CASE Tick
  BY <1>10 DEF Tick
<1> QED
  BY <1>2, <1>4, <1>5, <1>6, <1>7, <1>8, <1>9, <1>10 DEF Next

(* An alert is raised only after durationSec of nothing but violating points. *)
THEOREM FiresAfterDuration == Spec => FiresOnlySustained
<1> DEFINE Sustains == \A e \in Evals : evals[e].pc = "between" /\ evals'[e].pc = "firing" =>
                          LET r == evals'[e].rule
                          IN clock - hotSince'[Key(e, r)] >= Duration[r]
<1>1. AInv /\ [Next]_vars => [Sustains]_vars
  <2> SUFFICES ASSUME AInv, Next, NEW e \in Evals, evals[e].pc = "between", evals'[e].pc = "firing"
               PROVE  LET r == evals'[e].rule IN clock - hotSince'[Key(e, r)] >= Duration[r]
    OBVIOUS
  <2>1. PICK r \in Rules : StartFire(e, r)
    BY FiringStarts
  <2>2. PICK k \in Keys, o \in Ids : Takes(e, r, k, o)
    BY <2>1, TakenObject DEF StartFire, Violated, OutOfRangeOf
  <2>3. evals'[e].rule = r
    BY <2>1, <2>2, AwaitMoves DEF StartFire, Violated, Takes, process, histories
  <2>4. /\ hotSince' = [hotSince EXCEPT ![k] = IF hotSince[k] = None THEN clock ELSE hotSince[k]]
        /\ hotSince \in [Keys -> Time \cup {None}] /\ clock \in Time
    BY <2>1, <2>2 DEF StartFire, Violated, Takes, AInv, AlertTypeOK
  <2>5. /\ hotSince'[k] \in Nat /\ clock \in Nat /\ hotSince'[k] <= clock
        /\ hotSince[k] # None => hotSince'[k] = hotSince[k]
    <3>1. hotSince[k] # None => hotSince[k] <= clock
      BY DEF AInv, PendingIsHot
    <3> QED
      BY <2>4, <3>1 DEF Time
  <2>6. Duration[r] \in Nat
    BY AlertAssumption
  <2>7. CASE Duration[r] = 0
    BY <2>2, <2>3, <2>5, <2>7 DEF Takes
  <2>8. CASE Duration[r] # 0
    <3>1. heap[o].pendingSince # None /\ clock - heap[o].pendingSince >= Duration[r]
      BY <2>1, <2>2, <2>8 DEF StartFire, Sustained, Takes
    <3>2. states[k] = o /\ heap[o].pendingSince \in Nat
      BY <2>2, <3>1 DEF Takes, Undefined, StateObject, Time
    <3>3. hotSince[k] # None /\ hotSince[k] <= heap[o].pendingSince
      BY <3>1, <3>2, AlertAssumption DEF AInv, PendingIsHot
    <3> QED
      BY <2>2, <2>3, <2>5, <2>6, <3>1, <3>2, <3>3 DEF Takes
  <2> QED
    BY <2>7, <2>8
<1>2. FiresOnlySustained <=> [][Sustains]_vars
  BY DEF FiresOnlySustained
<1> QED
  BY <1>1, <1>2, AlertSafety, PTL DEF Spec

(* A key whose state calls nothing active has no open row. *)
LEMMA NothingOpen ==
    ASSUME AInv', NEW k \in Keys, Sequential(k)', ActiveOf(k)' = None
    PROVE  OpenRows(k)' = {}
<1>1. OpenRows(k)' \subseteq {None}
  BY DEF AInv, OpenIsActive
<1>2. \A a \in OpenRows(k)' : a \in Ids
  BY DEF OpenRows, RowsOfKey
<1> QED
  BY <1>1, <1>2, AlertAssumption

(* Once evalOne has returned for a value in range, no alert is open. *)
LEMMA ClosesWhenHandled ==
    ASSUME AInv, AInv', Next, NEW e \in Evals, NEW r \in Rules,
           r \in Unhandled(e), r \notin Unhandled(e)', r \notin evals[e].hot, Sequential(Key(e, r))'
    PROVE  OpenRows(Key(e, r))' = {}
<1>1. evals \in [Evals -> Evaluation] /\ heap \in [Ids -> StateObject] /\ states \in [Keys -> Ids \cup {None}]
  BY DEF AInv, AlertTypeOK
<1>2. ASSUME NEW f \in Evals, Moves(f)
      PROVE  f = e /\ Key(e, r)' = Key(e, r)
  BY <1>2, MovesFacts DEF Moves, Unhandled
<1>3. ASSUME NEW f \in Evals, NEW d \in Devices, NEW rules \in SUBSET Rules, NEW hot \in SUBSET rules,
             Evaluate(f, d, rules, hot)
      PROVE  FALSE
  <2>1. CASE f # e
    BY <1>1, <1>3, <2>1 DEF Evaluate, Unhandled
  <2>2. CASE f = e
    <3>1. evals[e] = NotStarted
      BY <1>3, <2>2 DEF Evaluate, AInv, EvalsOK, EvalOK
    <3>2. Unhandled(e) = {None}
      BY <3>1 DEF NotStarted, Unhandled
    <3> QED
      BY <3>2, AlertAssumption
  <2> QED
    BY <2>1, <2>2
<1>4. ASSUME NEW f \in Evals, NEW q \in Rules, evals[f].pc = "between", Continue(f, q),
             UNCHANGED <<earlier, overlapped>>
      PROVE  f = e /\ q = r /\ Key(e, r)' = Key(e, r)
  <2>1. Moves(f) /\ evals'[f].todo = evals[f].todo \ {q} /\ InProgress(f)
    BY <1>4, ContinueMoves DEF InProgress
  <2>2. f = e /\ Key(e, r)' = Key(e, r)
    BY <1>2, <2>1
  <2>3. evals[e].rule = None
    BY <1>4, <2>2 DEF AInv, EvalsOK, EvalOK, Awaits
  <2> QED
    BY <2>1, <2>2, <2>3, AlertAssumption DEF Unhandled
<1>5. ASSUME NEW f \in Evals, NEW q \in Rules, InRange(f, q)
      PROVE  OpenRows(Key(e, r))' = {}
  <2>1. f = e /\ q = r /\ Key(e, r)' = Key(e, r)
    BY <1>4, <1>5 DEF InRange, InRangeOf, process, histories
  <2>2. PICK k \in Keys, o \in Ids : Takes(e, r, k, o)
    BY <1>5, <2>1, TakenObject DEF InRange, InRangeOf
  <2>3. ActiveOf(k)' = None
    <3>1. heap[o].active = None /\ states' = states
      BY <1>5, <2>1, <2>2 DEF InRange, Takes
    <3>2. states[k] # None => states[k] = o
      BY <2>2 DEF Takes
    <3>3. states[k] # None => heap'[o].active = None
      BY <1>1, <1>5, <2>1, <2>2, <3>1, <3>2 DEF InRange, Takes, StateObject
    <3> QED
      BY <3>1, <3>2, <3>3 DEF ActiveOf
  <2>4. Key(e, r)' = k
    BY <2>1, <2>2 DEF Takes
  <2> QED
    BY <2>3, <2>4, NothingOpen
<1>6. ASSUME NEW f \in Evals, NEW q \in Rules, StartPending(f, q) \/ Suppressed(f, q)
      PROVE  FALSE
  <2>1. f = e /\ q = r
    BY <1>4, <1>6 DEF StartPending, Suppressed, Violated, OutOfRangeOf, process, histories
  <2> QED
    BY <1>6, <2>1 DEF StartPending, Suppressed, Violated, OutOfRangeOf
<1>7. ASSUME NEW f \in Evals, NEW q \in Rules, StartResolve(f, q) \/ StartFire(f, q)
      PROVE  FALSE
  <2>1. evals[f].pc = "between" /\ q \in evals[f].todo
    BY <1>7 DEF StartResolve, StartFire, Violated, InRangeOf, OutOfRangeOf
  <2>2. PICK k \in Keys, o \in Ids : Takes(f, q, k, o)
    BY <2>1, TakenObject
  <2>3. StateFor(f, q).active \in Ids \cup {None}
    BY <2>2 DEF Takes, StateObject
  <2>4. Moves(f) /\ evals'[f].rule = q /\ evals'[f].todo = evals[f].todo \ {q}
    BY <1>7, <2>1, <2>3, AwaitMoves DEF StartResolve, StartFire, Violated, process, histories
  <2>5. f = e /\ evals[e].rule = None
    BY <1>2, <2>1, <2>4 DEF AInv, EvalsOK, EvalOK, Awaits
  <2> QED
    BY <2>4, <2>5, AlertAssumption DEF Unhandled
<1>8. ASSUME NEW f \in Evals, Awaits(f), Moves(f), evals'[f].todo = evals[f].todo \ {evals[f].rule}
      PROVE  f = e /\ r = evals[e].rule /\ Key(e, r)' = Key(e, r)
  BY <1>2, <1>8 DEF Unhandled
<1>9. ASSUME NEW f \in Evals, FireReturns(f) \/ ResolveReturns(f)
      PROVE  Awaits(f) /\ Moves(f) /\ evals'[f].todo = evals[f].todo \ {evals[f].rule}
  <2>1. Awaits(f)
    BY <1>9 DEF FireReturns, ResolveReturns, Awaits
  <2> QED
    BY <1>9, <2>1, AwaitedFacts, ContinueMoves DEF FireReturns, ResolveReturns, process, histories
<1>10. ASSUME NEW f \in Evals, FireReturns(f)
       PROVE  FALSE
  <2>1. f = e /\ r = evals[e].rule
    BY <1>8, <1>9, <1>10
  <2> QED
    BY <1>10, <2>1 DEF FireReturns, AInv, EvalsOK, EvalOK
<1>11. ASSUME NEW f \in Evals, ResolveReturns(f)
       PROVE  OpenRows(Key(e, r))' = {}
  <2>1. f = e /\ r = evals[e].rule /\ Key(e, r)' = Key(e, r) /\ Awaits(e)
    BY <1>8, <1>9, <1>11
  <2>2. PICK k \in Keys, o \in Ids : k = Key(e, r) /\ o = evals[e].obj
    BY <2>1, AwaitedFacts
  <2>3. /\ states' = [states EXCEPT ![k] = o]
        /\ heap' = [heap EXCEPT ![o].active = None, ![o].pendingSince = None]
    BY <1>11, <2>1, <2>2 DEF ResolveReturns
  <2>4. ActiveOf(k)' = None
    BY <1>1, <2>3 DEF ActiveOf, StateObject
  <2>5. Key(e, r)' = k
    BY <2>1, <2>2
  <2> QED
    BY <2>4, <2>5, NothingOpen
<1>12. ASSUME NEW f \in Evals, StatementFails(f)
       PROVE  FALSE
  <2>1. /\ evals'[f] = Ended(evals[f]) /\ \A g \in Evals \ {f} : evals'[g] = evals[g]
        /\ faulted' = faulted \cup {Key(f, evals[f].rule)}
    BY <1>1, <1>12 DEF StatementFails
  <2>2. evals'[f].todo = evals[f].todo /\ evals'[f].device = evals[f].device
    BY <2>1 DEF Ended, NotStarted
  <2>3. f = e /\ r = evals[e].rule
    BY <2>1, <2>2 DEF Unhandled
  <2>4. Key(e, r)' = Key(e, r)
    BY <2>2, <2>3 DEF Key
  <2> QED
    BY <2>1, <2>3, <2>4 DEF Sequential
<1>13. CASE ServerRestarts
  <2>1. e \in earlier'
    BY <1>13 DEF ServerRestarts, Unhandled
  <2>2. evals'[e] = Ended(NotStarted)
    BY <1>13, <2>1 DEF ServerRestarts
  <2>3. Ended(NotStarted).device = None
    <3>1. NotStarted.device = None
      BY DEF NotStarted
    <3> QED
      BY <3>1 DEF Ended, NotStarted
  <2>4. Key(e, r)' = <<r, None>>
    BY <2>2, <2>3 DEF Key
  <2>5. ASSUME NEW a \in Ids, a[1] \notin earlier', alerts'[a].st # "none" PROVE evals'[a[1]].device # None
    <3>1. EvalOK(a[1])' /\ evals'[a[1]].pc # "idle"
      BY <2>5 DEF AInv, EvalsOK, RowsUsed, Used, Ids
    <3> QED
      BY <2>5, <3>1, AlertAssumption DEF EvalOK
  <2> QED
    BY <2>4, <2>5 DEF OpenRows, RowsOfKey
<1>14. CASE Tick
  BY <1>14 DEF Tick, Unhandled
<1> QED
  BY <1>3, <1>5, <1>6, <1>7, <1>10, <1>11, <1>12, <1>13, <1>14 DEF Next

(* A value in range closes the rule's alert before evalOne returns, whichever *)
(* points the rule did not apply to came in between.                          *)
THEOREM ClosesInRange == Spec => InRangeCloses
<1> DEFINE Closes == \A e \in Evals, r \in Rules :
                        (/\ r \in Unhandled(e) /\ r \notin Unhandled(e)' /\ r \notin evals[e].hot
                         /\ Sequential(Key(e, r))') => OpenRows(Key(e, r))' = {}
<1>1. AInv /\ AInv' /\ [Next]_vars => [Closes]_vars
  BY ClosesWhenHandled
<1>2. InRangeCloses <=> [][Closes]_vars
  BY DEF InRangeCloses
<1> QED
  BY <1>1, <1>2, AlertSafety, PTL DEF Spec
===============================================================================
