----------------------------- MODULE IdentityProof -----------------------------
(***************************************************************************)
(* What becomes of the simulated fleet's identities, and what its devices   *)
(* may say and hear, for any ids, fleet sizes and number of faults.         *)
(*                                                                          *)
(* No account is unaccounted for because what the simulator holds is what   *)
(* the file holds whenever it neither awaits an answer nor writes (or the   *)
(* file could not be read, and still has its records), and each POST that   *)
(* is adrift has been paid for by an answer that was lost before its        *)
(* account exists.  The devices that ran stay in the state because they are *)
(* in the file whenever it is not being written.                            *)
(***************************************************************************)
EXTENDS Access, FiniteSetTheorems, SequenceTheorems, TLAPS

(* What the simulator's steps leave of the state, the file and the POST. *)
Posts == {NoPost, [st |-> "asked", ids |-> {}]} \cup {[st |-> "created", ids |-> {id}] : id \in Ids}

Kept ==
    /\ accounts \subseteq Ids /\ state \subseteq accounts /\ file.devices \subseteq accounts
    /\ file \in [whole : BOOLEAN, devices : SUBSET Ids]
    /\ post \in Posts /\ post.ids \subseteq accounts
    /\ proc \in {"down", "provisioning", "saving", "running"}
    /\ count \in Counts
    /\ adrift \in Nat /\ faults \in Nat /\ lost \in Nat /\ wiped \in Nat
    /\ post # NoPost => proc = "provisioning" /\ Cardinality(state) < count
    /\ proc = "provisioning" => state \in {file.devices, {}}
    /\ proc = "running" => state = file.devices
    /\ proc = "down" => state = {}
    /\ proc = "saving" \/ ~file.whole => file.devices = {}

(* A POST adrift will cost an account, and its answer is lost already. *)
AdriftPaid == Cardinality(accounts \ Held) + adrift <= lost + wiped

FaultsBound == adrift <= faults /\ faults <= MaxFaults

(* Wherever the simulator is, the devices that ran are in the file, or in    *)
(* the state while that is written.                                          *)
RanKept ==
    /\ ran \subseteq accounts
    /\ wiped = 0 => ran \subseteq (IF proc = "saving" THEN state ELSE file.devices)

PInv == Kept /\ AdriftPaid /\ FaultsBound /\ RanKept

-----------------------------------------------------------------------------
(* Sets of accounts are finite, and adding a set adds at most its size. *)
LEMMA AccountsFinite == ASSUME NEW S \in SUBSET Ids PROVE IsFiniteSet(S) /\ Cardinality(S) \in Nat
  BY ProvisioningAssumption, FS_Subset, FS_CardinalityType

LEMMA SizeOfCover ==
    ASSUME NEW A \in SUBSET Ids, NEW B \in SUBSET Ids, NEW S, S \subseteq A \cup B
    PROVE  Cardinality(S) <= Cardinality(A) + Cardinality(B)
<1>1. IsFiniteSet(A) /\ IsFiniteSet(B) /\ IsFiniteSet(S) /\ IsFiniteSet(A \cap B) /\ IsFiniteSet(A \cup B)
  BY AccountsFinite
<1>2. Cardinality(A \cup B) = Cardinality(A) + Cardinality(B) - Cardinality(A \cap B)
  BY <1>1, FS_Union
<1>3. Cardinality(S) <= Cardinality(A \cup B)
  BY <1>1, FS_Subset
<1>4. /\ Cardinality(A) \in Nat /\ Cardinality(B) \in Nat /\ Cardinality(S) \in Nat
      /\ Cardinality(A \cap B) \in Nat /\ Cardinality(A \cup B) \in Nat
  BY <1>1, FS_CardinalityType
<1> QED
  BY <1>2, <1>3, <1>4

LEMMA SizeOfSubset ==
    ASSUME NEW A \in SUBSET Ids, NEW S, S \subseteq A
    PROVE  Cardinality(S) <= Cardinality(A) /\ Cardinality(S) \in Nat /\ Cardinality(A) \in Nat
  BY AccountsFinite, FS_Subset

(* A POST has at most one account to show for it. *)
LEMMA PostSize ==
    ASSUME NEW p \in Posts
    PROVE  /\ p.ids \subseteq Ids
           /\ Cardinality(p.ids) <= 1
           /\ p.st # "created" => p.ids = {}
           /\ p.st = "asked" => p # NoPost
           /\ p.st \in {"none", "asked", "created"} /\ (p.st = "none" => p = NoPost)
<1>1. CASE p = NoPost
  BY <1>1, FS_EmptySet DEF NoPost
<1>2. CASE p = [st |-> "asked", ids |-> {}]
  BY <1>2, FS_EmptySet DEF NoPost
<1>3. ASSUME NEW id \in Ids, p = [st |-> "created", ids |-> {id}] PROVE p.ids = {id} /\ p.st = "created"
  BY <1>3
<1> QED
  BY <1>1, <1>2, <1>3, FS_Singleton DEF Posts

LEMMA InitPInv == ProvisioningInit => PInv
<1> SUFFICES ASSUME ProvisioningInit PROVE PInv
  OBVIOUS
<1>1. Kept /\ FaultsBound /\ RanKept
  BY ProvisioningAssumption DEF ProvisioningInit, Kept, FaultsBound, RanKept, NoPost, Posts
<1>2. accounts \ Held = {}
  BY DEF ProvisioningInit
<1> QED
  BY <1>1, <1>2, FS_EmptySet DEF PInv, AdriftPaid, ProvisioningInit

-----------------------------------------------------------------------------
(* The steps that leave the same accounts unaccounted for. *)
LEMMA SameOrphans ==
    ASSUME PInv, Kept', accounts' \ Held' \subseteq accounts \ Held,
           adrift' = adrift, lost' = lost, wiped' = wiped
    PROVE  AdriftPaid'
<1>1. (accounts \ Held) \in SUBSET Ids
  BY DEF PInv, Kept
<1>2. Cardinality(accounts' \ Held') <= Cardinality(accounts \ Held)
      /\ Cardinality(accounts' \ Held') \in Nat /\ Cardinality(accounts \ Held) \in Nat
  BY <1>1, SizeOfSubset
<1> QED
  BY <1>2 DEF PInv, Kept, AdriftPaid

LEMMA BootPInv == PInv /\ Boot => PInv'
<1> SUFFICES ASSUME PInv, Boot PROVE PInv'
  OBVIOUS
<1>1. /\ state' \in {file.devices, {}}
      /\ faults' = faults \/ (faults < MaxFaults /\ faults' = faults + 1)
  BY DEF PInv, Kept, Boot, Fault
<1>2. Kept'
  BY <1>1 DEF PInv, Kept, Boot, NoPost
<1>3. accounts' \ Held' \subseteq accounts \ Held
  BY <1>1 DEF PInv, Kept, Boot, Held
<1>4. AdriftPaid'
  BY <1>2, <1>3, SameOrphans DEF Boot
<1>5. FaultsBound' /\ RanKept'
  BY <1>1, ProvisioningAssumption DEF PInv, Kept, Boot, FaultsBound, RanKept
<1> QED
  BY <1>2, <1>4, <1>5 DEF PInv

LEMMA PostPInv == PInv /\ Post => PInv'
<1> SUFFICES ASSUME PInv, Post PROVE PInv'
  OBVIOUS
<1>1. Kept'
  BY DEF PInv, Kept, Post, Posts
<1>2. accounts' \ Held' \subseteq accounts \ Held
  BY DEF PInv, Kept, Post, Held, NoPost
<1>3. AdriftPaid'
  BY <1>1, <1>2, SameOrphans DEF Post
<1>4. FaultsBound' /\ RanKept'
  BY DEF PInv, Post, FaultsBound, RanKept
<1> QED
  BY <1>1, <1>3, <1>4 DEF PInv

LEMMA ServerCreatesPInv == PInv /\ ServerCreates => PInv'
<1> SUFFICES ASSUME PInv, ServerCreates PROVE PInv'
  OBVIOUS
<1>1. NewId \in Ids /\ NewId \notin accounts /\ accounts' = accounts \cup {NewId}
  <2>1. \E id \in Ids : id \notin accounts
    BY DEF PInv, Kept, ServerCreates, Create
  <2> QED
    BY <2>1 DEF NewId, ServerCreates, Create
<1> HIDE DEF NewId
<1>2. /\ UNCHANGED <<proc, count, state, file, ran, faults, lost, wiped>>
      /\ \/ /\ post.st = "asked" /\ post' = [st |-> "created", ids |-> {NewId}] /\ adrift' = adrift
         \/ /\ adrift > 0 /\ adrift' = adrift - 1 /\ post' = post
  BY DEF ServerCreates
<1>3. post # NoPost => proc' = "provisioning" /\ Cardinality(state') < count'
  BY <1>2 DEF PInv, Kept
<1>4. Kept'
  <2>1. accounts' \subseteq Ids /\ accounts \subseteq accounts'
    BY <1>1 DEF PInv, Kept
  <2>2. post' \in Posts /\ post'.ids \subseteq accounts'
    BY <1>1, <1>2 DEF PInv, Kept, Posts
  <2>3. post' # NoPost => post # NoPost
    BY <1>2, PostSize DEF PInv, Kept
  <2>4. adrift' \in Nat
    BY <1>2 DEF PInv, Kept
  <2> QED
    BY <1>2, <1>3, <2>1, <2>2, <2>3, <2>4 DEF PInv, Kept
<1>5. FaultsBound' /\ RanKept'
  BY <1>1, <1>2 DEF PInv, Kept, FaultsBound, RanKept
<1>6. CASE post.st = "asked" /\ post' = [st |-> "created", ids |-> {NewId}] /\ adrift' = adrift
  <2>1. proc = "provisioning"
    BY <1>6, PostSize DEF PInv, Kept
  <2>2. accounts' \ Held' \subseteq accounts \ Held
    BY <1>1, <1>2, <1>6, <2>1, PostSize DEF PInv, Kept, Held
  <2> QED
    BY <1>2, <1>4, <1>5, <1>6, <2>2, SameOrphans DEF PInv
<1>7. CASE adrift > 0 /\ adrift' = adrift - 1 /\ post' = post
  <2>1. Held' = Held
    BY <1>2, <1>7 DEF Held
  <2>2. (accounts \ Held) \in SUBSET Ids /\ {NewId} \in SUBSET Ids
    BY <1>1 DEF PInv, Kept
  <2>3. accounts' \ Held' \subseteq (accounts \ Held) \cup {NewId}
    BY <1>1, <2>1
  <2>4. Cardinality(accounts' \ Held') <= Cardinality(accounts \ Held) + Cardinality({NewId})
    BY <2>2, <2>3, SizeOfCover
  <2>5. Cardinality({NewId}) = 1
    BY FS_Singleton
  <2>6. Cardinality(accounts' \ Held') \in Nat /\ Cardinality(accounts \ Held) \in Nat
    BY <1>1, <2>2, <2>3, AccountsFinite
  <2>7. AdriftPaid'
    BY <1>2, <1>7, <2>4, <2>5, <2>6 DEF PInv, Kept, AdriftPaid
  <2> QED
    BY <1>4, <1>5, <2>7 DEF PInv
<1> QED
  BY <1>2, <1>6, <1>7

(* The file is written over: what it had besides the state, since it was not *)
(* read, is wiped.                                                           *)
LEMMA PostAnsweredPInv == PInv /\ PostAnswered => PInv'
<1> SUFFICES ASSUME PInv, PostAnswered PROVE PInv'
  OBVIOUS
<1> DEFINE over == file.devices \ state
<1>1. /\ proc = "provisioning" /\ proc' = "saving" /\ post' = NoPost /\ state' = state \cup post.ids
      /\ file' = [whole |-> FALSE, devices |-> {}] /\ wiped' = wiped + Cardinality(over)
      /\ UNCHANGED <<accounts, adrift, count, ran, faults, lost>>
  BY DEF PInv, Kept, PostAnswered, NoPost
<1>2. /\ over \in SUBSET Ids /\ (accounts \ Held) \in SUBSET Ids
      /\ (accounts' \ Held') \in SUBSET Ids
  BY <1>1 DEF PInv, Kept
<1>3. /\ Cardinality(over) \in Nat /\ Cardinality(accounts \ Held) \in Nat
      /\ Cardinality(accounts' \ Held') \in Nat
  BY <1>2, AccountsFinite
<1>4. Kept'
  <2>1. post' \in Posts /\ post'.ids = {} /\ post' = NoPost
    BY <1>1 DEF Posts, NoPost
  <2>2. file' \in [whole : BOOLEAN, devices : SUBSET Ids] /\ file'.devices = {}
    BY <1>1
  <2>3. state' \subseteq accounts' /\ accounts' = accounts /\ wiped' \in Nat
    BY <1>1, <1>3 DEF PInv, Kept
  <2> QED
    BY <1>1, <2>1, <2>2, <2>3 DEF PInv, Kept
<1>5. accounts' \ Held' \subseteq (accounts \ Held) \cup over
  BY <1>1 DEF Held
<1> HIDE DEF over
<1>6. AdriftPaid'
  <2>1. Cardinality(accounts' \ Held') <= Cardinality(accounts \ Held) + Cardinality(over)
    BY <1>2, <1>5, SizeOfCover
  <2> QED
    BY <1>1, <1>3, <2>1 DEF PInv, Kept, AdriftPaid
<1>7. RanKept'
  <2>1. wiped' = 0 => wiped = 0 /\ Cardinality(over) = 0
    BY <1>1, <1>3 DEF PInv, Kept
  <2>2. Cardinality(over) = 0 => over = {}
    BY <1>2, AccountsFinite, FS_EmptySet
  <2> QED
    BY <1>1, <2>1, <2>2 DEF PInv, RanKept, over
<1>8. FaultsBound'
  BY <1>1 DEF PInv, FaultsBound
<1> QED
  BY <1>4, <1>6, <1>7, <1>8 DEF PInv

LEMMA SaveDonePInv == PInv /\ SaveDone => PInv'
<1> SUFFICES ASSUME PInv, SaveDone PROVE PInv'
  OBVIOUS
<1>1. Kept'
  BY DEF PInv, Kept, SaveDone
<1>2. accounts' \ Held' \subseteq accounts \ Held
  BY DEF PInv, Kept, SaveDone, Held
<1>3. AdriftPaid'
  BY <1>1, <1>2, SameOrphans DEF SaveDone
<1>4. FaultsBound' /\ RanKept'
  BY DEF PInv, SaveDone, FaultsBound, RanKept
<1> QED
  BY <1>1, <1>3, <1>4 DEF PInv

(* An answer is lost: its account is without an owner, or is adrift. *)
LEMMA PostFailsPInv == PInv /\ PostFails => PInv'
<1> SUFFICES ASSUME PInv, PostFails PROVE PInv'
  OBVIOUS
<1>1. /\ post # NoPost /\ post' = NoPost /\ lost' = lost + 1 /\ faults' = faults + 1 /\ faults < MaxFaults
      /\ (post.st = "asked" /\ adrift' = adrift + 1) \/ adrift' = adrift
      /\ UNCHANGED <<accounts, proc, count, state, file, ran, wiped>>
  BY DEF PostFails, Fault
<1>2. proc = "provisioning"
  BY <1>1 DEF PInv, Kept
<1>3. Kept'
  BY <1>1 DEF PInv, Kept, Posts, NoPost
<1>4. FaultsBound' /\ RanKept'
  BY <1>1, ProvisioningAssumption DEF PInv, Kept, FaultsBound, RanKept
<1>5. (accounts \ Held) \in SUBSET Ids /\ post.ids \in SUBSET Ids /\ (accounts' \ Held') \in SUBSET Ids
  BY <1>1, PostSize DEF PInv, Kept
<1>6. accounts' \ Held' \subseteq (accounts \ Held) \cup post.ids
  BY <1>1, <1>2 DEF Held
<1>7. Cardinality(accounts' \ Held') <= Cardinality(accounts \ Held) + Cardinality(post.ids)
  BY <1>5, <1>6, SizeOfCover
<1>8. /\ Cardinality(accounts \ Held) \in Nat /\ Cardinality(post.ids) \in Nat
      /\ Cardinality(accounts' \ Held') \in Nat
  BY <1>5, AccountsFinite
<1>9. Cardinality(post.ids) <= 1 /\ (post.st = "asked" => Cardinality(post.ids) = 0)
  BY PostSize, FS_EmptySet DEF PInv, Kept
<1>10. AdriftPaid'
  BY <1>1, <1>7, <1>8, <1>9 DEF PInv, Kept, AdriftPaid
<1> QED
  BY <1>3, <1>4, <1>10 DEF PInv

LEMMA PostRejectedPInv == PInv /\ PostRejected => PInv'
<1> SUFFICES ASSUME PInv, PostRejected PROVE PInv'
  OBVIOUS
<1>1. proc = "provisioning" /\ post.ids = {}
  BY PostSize DEF PInv, Kept, PostRejected
<1>2. Kept'
  BY DEF PInv, Kept, PostRejected, Posts, NoPost, Fault
<1>3. accounts' \ Held' \subseteq accounts \ Held
  BY <1>1 DEF PInv, Kept, PostRejected, Held
<1>4. AdriftPaid'
  BY <1>2, <1>3, SameOrphans DEF PostRejected
<1>5. FaultsBound' /\ RanKept'
  BY <1>1, ProvisioningAssumption DEF PInv, Kept, PostRejected, FaultsBound, RanKept, Fault
<1> QED
  BY <1>2, <1>4, <1>5 DEF PInv

LEMMA StartFleetPInv == PInv /\ StartFleet => PInv'
<1> SUFFICES ASSUME PInv, StartFleet PROVE PInv'
  OBVIOUS
<1>1. post = NoPost
  <2>1. Cardinality(state) \in Nat /\ count \in Nat
    BY ProvisioningAssumption, AccountsFinite DEF PInv, Kept
  <2> QED
    BY <2>1 DEF PInv, Kept, StartFleet
<1>2. Kept'
  <2>1. state # {}
    <3>1. Cardinality(state) >= count /\ count \in Nat \ {0}
      BY ProvisioningAssumption DEF PInv, Kept, StartFleet
    <3> QED
      BY <3>1, FS_EmptySet
  <2> QED
    BY <1>1, <2>1 DEF PInv, Kept, StartFleet
<1>3. accounts' \ Held' \subseteq accounts \ Held
  BY DEF StartFleet, Held
<1>4. AdriftPaid'
  BY <1>2, <1>3, SameOrphans DEF StartFleet
<1>5. FaultsBound' /\ RanKept'
  BY DEF PInv, Kept, StartFleet, FaultsBound, RanKept
<1> QED
  BY <1>2, <1>4, <1>5 DEF PInv

(* The process ends: what it awaited is adrift or lost, and what it was      *)
(* writing is wiped.                                                         *)
LEMMA ExitPInv == PInv /\ Exit => PInv'
<1> SUFFICES ASSUME PInv, Exit PROVE PInv'
  OBVIOUS
<1> DEFINE torn == IF proc = "saving" THEN state ELSE {}
<1>1. /\ proc' = "down" /\ state' = {} /\ post' = NoPost
      /\ faults' = faults + 1 /\ faults < MaxFaults
      /\ adrift' = IF post.st = "asked" THEN adrift + 1 ELSE adrift
      /\ lost' = IF post # NoPost THEN lost + 1 ELSE lost
      /\ wiped' = IF proc = "saving" THEN wiped + Cardinality(state) ELSE wiped
      /\ UNCHANGED <<accounts, count, file, ran>>
  BY DEF Exit, Fault
<1>2. state \in SUBSET Ids /\ post.ids \in SUBSET Ids /\ torn \in SUBSET Ids
      /\ (accounts \ Held) \in SUBSET Ids /\ (accounts' \ Held') \in SUBSET Ids
  BY <1>1, PostSize DEF PInv, Kept
<1>3. /\ Cardinality(state) \in Nat /\ Cardinality(post.ids) \in Nat /\ Cardinality(torn) \in Nat
      /\ Cardinality(accounts \ Held) \in Nat /\ Cardinality(accounts' \ Held') \in Nat
  BY <1>2, AccountsFinite
<1>4. wiped' = wiped + Cardinality(torn)
  BY <1>1, FS_EmptySet DEF PInv, Kept
<1>5. Kept'
  <2>1. adrift' \in Nat /\ lost' \in Nat /\ wiped' \in Nat /\ faults' \in Nat
    BY <1>1, <1>3 DEF PInv, Kept
  <2>2. post' \in Posts /\ post'.ids = {}
    BY <1>1 DEF Posts, NoPost
  <2> QED
    BY <1>1, <2>1, <2>2 DEF PInv, Kept
<1>6. FaultsBound'
  BY <1>1, ProvisioningAssumption DEF PInv, Kept, FaultsBound
<1>7. RanKept'
  <2>1. CASE proc = "saving"
    <3>1. wiped' = 0 => wiped = 0 /\ Cardinality(state) = 0
      BY <1>1, <1>3, <2>1 DEF PInv, Kept
    <3>2. Cardinality(state) = 0 => state = {}
      BY <1>2, AccountsFinite, FS_EmptySet
    <3> QED
      BY <1>1, <2>1, <3>1, <3>2 DEF PInv, RanKept
  <2>2. CASE proc # "saving"
    BY <1>1, <2>2 DEF PInv, Kept, RanKept, Exit
  <2> QED
    BY <2>1, <2>2
<1>8. AdriftPaid'
  <2> HIDE DEF torn
  <2>1. CASE post = NoPost
    <3>1. post.ids = {} /\ post.st # "asked"
      BY <2>1 DEF NoPost
    <3>2. accounts' \ Held' \subseteq (accounts \ Held) \cup torn
      BY <1>1, <2>1, <3>1 DEF PInv, Kept, Held, torn, Exit
    <3>3. Cardinality(accounts' \ Held') <= Cardinality(accounts \ Held) + Cardinality(torn)
      BY <1>2, <3>2, SizeOfCover
    <3> QED
      BY <1>1, <1>3, <1>4, <2>1, <3>1, <3>3 DEF PInv, Kept, AdriftPaid
  <2>2. CASE post # NoPost
    <3>1. proc = "provisioning" /\ wiped' = wiped
      BY <1>1, <2>2 DEF PInv, Kept
    <3>2. accounts' \ Held' \subseteq (accounts \ Held) \cup post.ids
      BY <1>1, <3>1 DEF PInv, Kept, Held
    <3>3. Cardinality(accounts' \ Held') <= Cardinality(accounts \ Held) + Cardinality(post.ids)
      BY <1>2, <3>2, SizeOfCover
    <3>4. Cardinality(post.ids) <= 1 /\ (post.st = "asked" => Cardinality(post.ids) = 0)
      BY PostSize, FS_EmptySet DEF PInv, Kept
    <3> QED
      BY <1>1, <1>3, <2>2, <3>1, <3>3, <3>4 DEF PInv, Kept, AdriftPaid
  <2> QED
    BY <2>1, <2>2
<1> QED
  BY <1>5, <1>6, <1>7, <1>8 DEF PInv

LEMMA NextPInv == PInv /\ [AccessNext]_<<provisioningVars, accessVars>> => PInv'
<1> SUFFICES ASSUME PInv, [AccessNext]_<<provisioningVars, accessVars>> PROVE PInv'
  OBVIOUS
<1>1. CASE ProvisioningNext
  BY <1>1, BootPInv, PostPInv, ServerCreatesPInv, PostAnsweredPInv, SaveDonePInv, PostFailsPInv,
     PostRejectedPInv, StartFleetPInv, ExitPInv DEF ProvisioningNext
<1>2. CASE UNCHANGED provisioningVars
  BY <1>2 DEF provisioningVars, PInv, Kept, AdriftPaid, FaultsBound, RanKept, Held
<1> QED
  BY <1>1, <1>2 DEF AccessNext, Connect, Disconnect, Subscribe, ServerSubscribes, accessVars

(* State file, accounts and POSTs through every crash and retry. *)
THEOREM ProvisioningSafety == AccessSpec => []PInv
<1>1. SystemInit => PInv
  BY InitPInv DEF SystemInit
<1> QED
  BY <1>1, NextPInv, PTL DEF AccessSpec

(* Every variable of provisioning keeps its type; what is adrift was a fault. *)
THEOREM ProvisioningTypes == AccessSpec => []ProvisioningTypeOK
<1>1. PInv => ProvisioningTypeOK
  BY ProvisioningAssumption DEF PInv, Kept, FaultsBound, RanKept, ProvisioningTypeOK
<1> QED
  BY <1>1, ProvisioningSafety, PTL

(* No account is without an owner but for an answer that was lost, a file    *)
(* that a crash tore or one that was written over unread.                    *)
THEOREM OrphansPaidFor == AccessSpec => []OrphansBounded
<1>1. PInv => OrphansBounded
  <2> SUFFICES ASSUME PInv PROVE OrphansBounded
    OBVIOUS
  <2>1. Cardinality(accounts \ Held) \in Nat
    BY AccountsFinite DEF PInv, Kept
  <2> QED
    BY <2>1 DEF PInv, Kept, AdriftPaid, OrphansBounded
<1> QED
  BY <1>1, ProvisioningSafety, PTL

(* A device that ran is in every later fleet, unless a crash tore the file   *)
(* or it was written over unread.                                            *)
THEOREM SameFleetAgain == AccessSpec => []FleetKeepsIdentity
<1>1. PInv => FleetKeepsIdentity
  BY DEF PInv, Kept, RanKept, FleetKeepsIdentity
<1> QED
  BY <1>1, ProvisioningSafety, PTL

-----------------------------------------------------------------------------
(* Short sequences are tuples, and what is left of one after two segments.   *)
LEMMA Tuples ==
    ASSUME NEW S, NEW s \in Seq(S)
    PROVE  /\ Len(s) = 1 => s = <<s[1]>>
           /\ Len(s) = 2 => s = <<s[1], s[2]>>
           /\ Len(s) = 3 => s = <<s[1], s[2], s[3]>>
  OBVIOUS

(* What parseTopic looks at after the id of the device. *)
LEMMA Tails ==
    ASSUME NEW S, NEW t, NEW n \in 3 .. 5, \A i \in 3 .. n : t[i] \in S
    PROVE  /\ n = 3 => SubSeq(t, 3, n) = <<t[3]>>
           /\ n = 4 => SubSeq(t, 3, n) = <<t[3], t[4]>>
           /\ n = 5 => SubSeq(t, 3, n) = <<t[3], t[4], t[5]>>
<1> DEFINE u == SubSeq(t, 3, n)
<1>1. /\ u \in Seq(S)
      /\ Len(u) = (IF 3 <= n THEN n - 3 + 1 ELSE 0)
      /\ \A i \in 1 .. n - 3 + 1 : u[i] = t[3 + i - 1]
  BY SubSeqProperties
<1> HIDE DEF u
<1>2. /\ n = 3 => Len(u) = 1 /\ u[1] = t[3]
      /\ n = 4 => Len(u) = 2 /\ u[1] = t[3] /\ u[2] = t[4]
      /\ n = 5 => Len(u) = 3 /\ u[1] = t[3] /\ u[2] = t[4] /\ u[3] = t[5]
  BY <1>1
<1>3. /\ n = 3 => u = <<t[3]>>
      /\ n = 4 => u = <<t[3], t[4]>>
      /\ n = 5 => u = <<t[3], t[4], t[5]>>
  BY <1>1, <1>2, Tuples
<1> QED
  BY <1>3 DEF u

LEMMA RestOf ==
    ASSUME NEW t
    PROVE  /\ Len(t) = 3 => SubSeq(t, 3, Len(t)) = <<t[3]>>
           /\ Len(t) = 4 => SubSeq(t, 3, Len(t)) = <<t[3], t[4]>>
           /\ Len(t) = 5 => SubSeq(t, 3, Len(t)) = <<t[3], t[4], t[5]>>
<1> DEFINE S == {t[3], t[4], t[5]}
<1>1. \A n \in 3 .. 5 : \A i \in 3 .. n : t[i] \in S
  OBVIOUS
<1> HIDE DEF S
<1>2. ASSUME Len(t) = 3 PROVE SubSeq(t, 3, Len(t)) = <<t[3]>>
  BY <1>1, <1>2, Tails, 3 \in 3 .. 5, Zenon
<1>3. ASSUME Len(t) = 4 PROVE SubSeq(t, 3, Len(t)) = <<t[3], t[4]>>
  BY <1>1, <1>3, Tails, 4 \in 3 .. 5, Zenon
<1>4. ASSUME Len(t) = 5 PROVE SubSeq(t, 3, Len(t)) = <<t[3], t[4], t[5]>>
  BY <1>1, <1>4, Tails, 5 \in 3 .. 5, Zenon
<1> QED
  BY <1>2, <1>3, <1>4

-----------------------------------------------------------------------------
(* What parseTopic makes of each form of topic. *)
LEMMA RestOne == ASSUME NEW d PROVE ParseRest(d, <<"status">>) = Parsed("status", d, "")
  BY DEF ParseRest

LEMMA RestTwo ==
    ASSUME NEW d
    PROVE  /\ ParseRest(d, <<"shadow", "reported">>) = Parsed("shadow_reported", d, "")
           /\ ParseRest(d, <<"shadow", "delta">>) = Parsed("shadow_delta", d, "")
           /\ ParseRest(d, <<"ota", "progress">>) = Parsed("ota_progress", d, "")
  BY DEF ParseRest

LEMMA RestThree ==
    ASSUME NEW d, NEW r
    PROVE  /\ ParseRest(d, <<"rpc", "request", r>>)
                = IF r = "" THEN NotOurs ELSE Parsed("rpc_request", d, r)
           /\ ParseRest(d, <<"rpc", "response", r>>)
                = IF r = "" THEN NotOurs ELSE Parsed("rpc_response", d, r)
  BY DEF ParseRest

LEMMA ParseLong ==
    ASSUME NEW t, t[1] = "devices"
    PROVE  /\ Len(t) = 3 => ParseTopic(t) = ParseRest(t[2], <<t[3]>>)
           /\ Len(t) = 4 => ParseTopic(t) = ParseRest(t[2], <<t[3], t[4]>>)
           /\ Len(t) = 5 => ParseTopic(t) = ParseRest(t[2], <<t[3], t[4], t[5]>>)
<1>1. Len(t) \in 3 .. 5 => ParseTopic(t) = ParseRest(t[2], SubSeq(t, 3, Len(t)))
  BY DEF ParseTopic
<1> QED
  BY <1>1, RestOf, 3 \in 3 .. 5, 4 \in 3 .. 5, 5 \in 3 .. 5, Zenon

LEMMA ParseShort ==
    ASSUME NEW d
    PROVE  /\ ParseTopic(Telemetry(d)) = Parsed("telemetry", d, "")
           /\ ParseTopic(AlertsTopic(d)) = Parsed("alerts", d, "")
           /\ ParseTopic(<<"devices", d>>) = NotOurs
           /\ ParseTopic(<<d>>) = NotOurs
<1>1. ASSUME NEW t, Len(t) = 2
      PROVE  IF t[1] \in {"telemetry", "alerts"} THEN ParseTopic(t) = Parsed(t[1], t[2], "")
             ELSE ParseTopic(t) = NotOurs
  <2>1. ~(Len(t) >= 3)
    BY <1>1
  <2> QED
    BY <1>1, <2>1, Zenon DEF ParseTopic
<1>2. ASSUME NEW t, Len(t) = 1 PROVE ParseTopic(t) = NotOurs
  BY <1>2 DEF ParseTopic
<1>3. \A x, y : Len(<<x, y>>) = 2 /\ <<x, y>>[1] = x /\ <<x, y>>[2] = y
  OBVIOUS
<1>4. \A x : x \in {"telemetry", "alerts"} => ParseTopic(<<x, d>>) = Parsed(x, d, "")
  BY <1>1, <1>3, ZenonT(40)
<1>5. ParseTopic(<<"devices", d>>) = NotOurs
  <2>1. "devices" \notin {"telemetry", "alerts"}
    OBVIOUS
  <2> QED
    BY <1>1, <1>3, <2>1, Zenon
<1>6. ParseTopic(<<d>>) = NotOurs
  <2>1. Len(<<d>>) = 1
    OBVIOUS
  <2> QED
    BY <1>2, <2>1, Zenon
<1> QED
  BY <1>4, <1>5, <1>6, Zenon DEF Telemetry, AlertsTopic

LEMMA ParseDevice ==
    ASSUME NEW d
    PROVE  /\ ParseTopic(Status(d)) = Parsed("status", d, "")
           /\ ParseTopic(ShadowReported(d)) = Parsed("shadow_reported", d, "")
           /\ ParseTopic(ShadowDelta(d)) = Parsed("shadow_delta", d, "")
           /\ ParseTopic(OtaProgress(d)) = Parsed("ota_progress", d, "")
<1>1. ASSUME NEW t, NEW x, t = <<"devices", d, x>> PROVE ParseTopic(t) = ParseRest(d, <<x>>)
  <2>1. Len(t) = 3 /\ t[1] = "devices" /\ t[2] = d /\ t[3] = x
    BY <1>1
  <2> QED
    BY <2>1, ParseLong, Zenon
<1>2. ASSUME NEW t, NEW x, NEW y, t = <<"devices", d, x, y>>
      PROVE  ParseTopic(t) = ParseRest(d, <<x, y>>)
  <2>1. Len(t) = 4 /\ t[1] = "devices" /\ t[2] = d /\ t[3] = x /\ t[4] = y
    BY <1>2
  <2> QED
    BY <2>1, ParseLong, Zenon
<1>3. \A x : ParseTopic(<<"devices", d, x>>) = ParseRest(d, <<x>>)
  BY <1>1
<1>4. \A x, y : ParseTopic(<<"devices", d, x, y>>) = ParseRest(d, <<x, y>>)
  BY <1>2
<1> QED
  BY <1>3, <1>4, RestOne, RestTwo, Zenon DEF Status, ShadowReported, ShadowDelta, OtaProgress

LEMMA ParseRpc ==
    ASSUME NEW d, NEW r
    PROVE  /\ ParseTopic(RpcRequest(d, r)) = IF r = "" THEN NotOurs ELSE Parsed("rpc_request", d, r)
           /\ ParseTopic(RpcResponse(d, r)) = IF r = "" THEN NotOurs ELSE Parsed("rpc_response", d, r)
<1>1. ASSUME NEW t, NEW x, t = <<"devices", d, "rpc", x, r>>
      PROVE  ParseTopic(t) = ParseRest(d, <<"rpc", x, r>>)
  <2>1. Len(t) = 5 /\ t[1] = "devices" /\ t[2] = d /\ t[3] = "rpc" /\ t[4] = x /\ t[5] = r
    BY <1>1
  <2> QED
    BY <2>1, ParseLong, Zenon
<1>2. \A x : ParseTopic(<<"devices", d, "rpc", x, r>>) = ParseRest(d, <<"rpc", x, r>>)
  BY <1>1
<1>3. ParseTopic(RpcRequest(d, r)) = ParseRest(d, <<"rpc", "request", r>>)
  BY <1>2, Zenon DEF RpcRequest
<1>4. ParseTopic(RpcResponse(d, r)) = ParseRest(d, <<"rpc", "response", r>>)
  BY <1>2, Zenon DEF RpcResponse
<1> QED
  BY <1>3, <1>4, RestThree

-----------------------------------------------------------------------------
(* Who may publish and subscribe: the ACL's answer for every topic there is. *)
LEMMA FormsOfFilter ==
    ASSUME NEW f \in Filters
    PROVE  \/ \E x \in Ids \cup {"+", "#", ""} :
                 f \in {Telemetry(x), Status(x), ShadowReported(x), ShadowDelta(x), OtaProgress(x),
                        AlertsTopic(x)}
           \/ \E r \in RequestIds \cup {"+", "#", ""}, x \in Ids \cup {"+"} :
                 f = RpcRequest(x, r) \/ f = RpcResponse(x, r)
           \/ f \in {<<"telemetry">>, <<"devices", "+">>, <<"devices", "#">>, <<"#">>}
<1> DEFINE of(x) == {Telemetry(x), Status(x), ShadowReported(x), ShadowDelta(x), OtaProgress(x),
                     AlertsTopic(x)}
           rpc(r) == {RpcRequest(x, r) : x \in Ids \cup {"+"}} \cup {RpcResponse(x, r) : x \in Ids \cup {"+"}}
           others == {<<"telemetry">>, <<"devices", "+">>, <<"devices", "#">>, <<"#">>}
<1>1. f \in (UNION {of(x) : x \in Ids \cup {"+", "#", ""}})
             \cup (UNION {rpc(r) : r \in RequestIds \cup {"+", "#", ""}}) \cup others
  BY Zenon DEF Filters
<1>2. \A r : f \in rpc(r) => \E x \in Ids \cup {"+"} : f = RpcRequest(x, r) \/ f = RpcResponse(x, r)
  OBVIOUS
<1> HIDE DEF of, rpc, others
<1>3. f \in UNION {of(x) : x \in Ids \cup {"+", "#", ""}} =>
        \E x \in Ids \cup {"+", "#", ""} : f \in of(x)
  OBVIOUS
<1>4. f \in UNION {rpc(r) : r \in RequestIds \cup {"+", "#", ""}} =>
        \E r \in RequestIds \cup {"+", "#", ""} : f \in rpc(r)
  OBVIOUS
<1> QED
  BY <1>1, <1>2, <1>3, <1>4, Zenon DEF others, of

(* What the ACL asks of a parsed topic. *)
MayPublish(d, p) ==
    /\ p.device = d
    /\ \/ p.kind \in {"telemetry", "status", "shadow_reported", "ota_progress"}
       \/ p.kind = "rpc_response" /\ p.request \notin {"+", "#"}

MaySubscribe(d, p) ==
    /\ p.device = d
    /\ p.kind = "shadow_delta" \/ (p.kind = "rpc_request" /\ p.request = "+")

LEMMA AclOfParsed ==
    ASSUME NEW d, NEW f
    PROVE  /\ CheckAcl(d, "publish", f) <=> MayPublish(d, ParseTopic(f))
           /\ CheckAcl(d, "subscribe", f) <=> MaySubscribe(d, ParseTopic(f))
  BY Zenon DEF CheckAcl, MayPublish, MaySubscribe

PublishedKinds == {"telemetry", "status", "shadow_reported", "ota_progress"}

LEMMA KindsApart ==
    /\ \A k \in PublishedKinds : k # "rpc_request" /\ k # "rpc_response" /\ k # "shadow_delta"
    /\ "rpc_request" \notin PublishedKinds /\ "rpc_response" \notin PublishedKinds
    /\ "shadow_delta" \notin PublishedKinds /\ "alerts" \notin PublishedKinds
    /\ "rpc_request" # "rpc_response" /\ "rpc_request" # "shadow_delta"
    /\ "rpc_response" # "rpc_request" /\ "rpc_response" # "shadow_delta"
    /\ "shadow_delta" # "rpc_request" /\ "shadow_delta" # "rpc_response"
    /\ "alerts" # "rpc_request" /\ "alerts" # "rpc_response" /\ "alerts" # "shadow_delta"
  BY DEF PublishedKinds

LEMMA NotOursDenied == ASSUME NEW d PROVE ~MayPublish(d, NotOurs) /\ ~MaySubscribe(d, NotOurs)
<1>1. NotOurs.kind = "none"
  BY DEF NotOurs
<1> QED
  BY <1>1 DEF MayPublish, MaySubscribe

LEMMA OnlyOwn ==
    ASSUME NEW d, NEW k, NEW x, NEW r
    PROVE  /\ MayPublish(d, Parsed(k, x, r)) => x = d
           /\ MayPublish(d, Parsed(k, x, r)) =>
                 k \in PublishedKinds \/ (k = "rpc_response" /\ r \notin {"+", "#"})
           /\ MaySubscribe(d, Parsed(k, x, r)) => x = d
           /\ MaySubscribe(d, Parsed(k, x, r)) =>
                 k = "shadow_delta" \/ (k = "rpc_request" /\ r = "+")
<1>1. CASE x = ""
  <2>1. Parsed(k, x, r) = NotOurs
    BY <1>1 DEF Parsed
  <2> QED
    BY <2>1, NotOursDenied, Zenon
<1>2. CASE x # ""
  <2>1. Parsed(k, x, r).kind = k /\ Parsed(k, x, r).device = x /\ Parsed(k, x, r).request = r
    BY <1>2 DEF Parsed
  <2> QED
    BY <1>2, <2>1 DEF MayPublish, MaySubscribe, PublishedKinds
<1> QED
  BY <1>1, <1>2

LEMMA AllOwn ==
    ASSUME NEW d, NEW k, NEW r, d # "",
           k \in PublishedKinds \/ (k = "rpc_response" /\ r \notin {"+", "#"})
    PROVE  MayPublish(d, Parsed(k, d, r))
<1>1. Parsed(k, d, r).kind = k /\ Parsed(k, d, r).device = d /\ Parsed(k, d, r).request = r
  BY DEF Parsed
<1> QED
  BY <1>1 DEF MayPublish, PublishedKinds

LEMMA AclOf ==
    ASSUME NEW d \in Ids, NEW f \in Filters
    PROVE  /\ CheckAcl(d, "publish", f) => f \in FromDevice(d)
           /\ CheckAcl(d, "subscribe", f) => f \in {ShadowDelta(d), RpcRequest(d, "+")}
<1>1. ASSUME NEW x, NEW g \in {Telemetry(x), Status(x), ShadowReported(x), OtaProgress(x)}, f = g
      PROVE  /\ CheckAcl(d, "publish", f) => f \in FromDevice(d)
             /\ ~CheckAcl(d, "subscribe", f)
  <2>1. PICK k \in PublishedKinds : ParseTopic(f) = Parsed(k, x, "")
    BY <1>1, ParseShort, ParseDevice DEF PublishedKinds
  <2>2. ~MaySubscribe(d, Parsed(k, x, "")) /\ (MayPublish(d, Parsed(k, x, "")) => x = d)
    BY OnlyOwn, KindsApart, Zenon
  <2>3. ~CheckAcl(d, "subscribe", f) /\ (CheckAcl(d, "publish", f) => x = d)
    BY <2>1, <2>2, AclOfParsed, Zenon
  <2> QED
    BY <1>1, <2>3 DEF FromDevice
<1>2. ASSUME NEW x, f = ShadowDelta(x)
      PROVE  ~CheckAcl(d, "publish", f) /\ (CheckAcl(d, "subscribe", f) => f = ShadowDelta(d))
  <2>1. ParseTopic(f) = Parsed("shadow_delta", x, "")
    BY <1>2, ParseDevice
  <2>2. ~MayPublish(d, Parsed("shadow_delta", x, ""))
    BY OnlyOwn, KindsApart, Zenon
  <2>3. MaySubscribe(d, Parsed("shadow_delta", x, "")) => x = d
    BY OnlyOwn, Zenon
  <2>4. ~CheckAcl(d, "publish", f) /\ (CheckAcl(d, "subscribe", f) => x = d)
    BY <2>1, <2>2, <2>3, AclOfParsed, Zenon
  <2> QED
    BY <1>2, <2>4
<1>3. ASSUME NEW x, f = AlertsTopic(x)
      PROVE  ~CheckAcl(d, "publish", f) /\ ~CheckAcl(d, "subscribe", f)
  <2>1. ParseTopic(f) = Parsed("alerts", x, "")
    BY <1>3, ParseShort
  <2>2. ~MayPublish(d, Parsed("alerts", x, "")) /\ ~MaySubscribe(d, Parsed("alerts", x, ""))
    BY OnlyOwn, KindsApart, Zenon
  <2> QED
    BY <2>1, <2>2, AclOfParsed, Zenon
<1>4. ASSUME NEW x, NEW r, f = RpcRequest(x, r)
      PROVE  ~CheckAcl(d, "publish", f) /\ (CheckAcl(d, "subscribe", f) => f = RpcRequest(d, "+"))
  <2>1. ParseTopic(f) = NotOurs \/ ParseTopic(f) = Parsed("rpc_request", x, r)
    BY <1>4, ParseRpc
  <2>2. ~MayPublish(d, Parsed("rpc_request", x, r))
    BY OnlyOwn, KindsApart, Zenon
  <2>3. MaySubscribe(d, Parsed("rpc_request", x, r)) => x = d
    BY OnlyOwn, Zenon
  <2>4. MaySubscribe(d, Parsed("rpc_request", x, r)) =>
           "rpc_request" = "shadow_delta" \/ ("rpc_request" = "rpc_request" /\ r = "+")
    BY OnlyOwn, Zenon
  <2>5. MaySubscribe(d, Parsed("rpc_request", x, r)) => r = "+"
    BY <2>4, KindsApart, Zenon
  <2>6. ~CheckAcl(d, "publish", f) /\ (CheckAcl(d, "subscribe", f) => x = d /\ r = "+")
    BY <2>1, <2>2, <2>3, <2>5, NotOursDenied, AclOfParsed, Zenon
  <2> QED
    BY <1>4, <2>6
<1>5. ASSUME NEW x, NEW r \in RequestIds \cup {"+", "#", ""}, f = RpcResponse(x, r)
      PROVE  (CheckAcl(d, "publish", f) => f \in FromDevice(d)) /\ ~CheckAcl(d, "subscribe", f)
  <2>1. ParseTopic(f) = NotOurs \/ (r # "" /\ ParseTopic(f) = Parsed("rpc_response", x, r))
    BY <1>5, ParseRpc
  <2>2. ~MaySubscribe(d, Parsed("rpc_response", x, r))
    BY OnlyOwn, KindsApart, Zenon
  <2>3. MayPublish(d, Parsed("rpc_response", x, r)) => x = d
    BY OnlyOwn, Zenon
  <2>4. MayPublish(d, Parsed("rpc_response", x, r)) => r \notin {"+", "#"}
    BY OnlyOwn, KindsApart, Zenon
  <2>5. ~CheckAcl(d, "subscribe", f)
    BY <2>1, <2>2, NotOursDenied, AclOfParsed, Zenon
  <2>6. CheckAcl(d, "publish", f) => x = d /\ r # "" /\ r \notin {"+", "#"}
    BY <2>1, <2>3, <2>4, NotOursDenied, AclOfParsed, Zenon
  <2>7. CheckAcl(d, "publish", f) => x = d /\ r \in RequestIds
    BY <2>6
  <2> QED
    BY <1>5, <2>5, <2>7 DEF FromDevice
<1>6. ASSUME f \in {<<"telemetry">>, <<"devices", "+">>, <<"devices", "#">>, <<"#">>}
      PROVE  ~CheckAcl(d, "publish", f) /\ ~CheckAcl(d, "subscribe", f)
  <2>1. ParseTopic(f) = NotOurs
    BY <1>6, ParseShort
  <2> QED
    BY <2>1, NotOursDenied, AclOfParsed, Zenon
<1>7. CASE \E x \in Ids \cup {"+", "#", ""} :
             f \in {Telemetry(x), Status(x), ShadowReported(x), ShadowDelta(x), OtaProgress(x),
                    AlertsTopic(x)}
  <2>1. PICK x \in Ids \cup {"+", "#", ""} :
             f \in {Telemetry(x), Status(x), ShadowReported(x), ShadowDelta(x), OtaProgress(x),
                    AlertsTopic(x)}
    BY <1>7
  <2>2. CASE f \in {Telemetry(x), Status(x), ShadowReported(x), OtaProgress(x)}
    BY <1>1, <2>2, Zenon
  <2>3. CASE f = ShadowDelta(x)
    BY <1>2, <2>3
  <2>4. CASE f = AlertsTopic(x)
    BY <1>3, <2>4
  <2> QED
    BY <2>1, <2>2, <2>3, <2>4, Zenon
<1>8. CASE \E r \in RequestIds \cup {"+", "#", ""}, x \in Ids \cup {"+"} :
             f = RpcRequest(x, r) \/ f = RpcResponse(x, r)
  <2>1. PICK r \in RequestIds \cup {"+", "#", ""}, x \in Ids \cup {"+"} :
             f = RpcRequest(x, r) \/ f = RpcResponse(x, r)
    BY <1>8
  <2> QED
    BY <1>4, <1>5, <2>1
<1> QED
  BY <1>6, <1>7, <1>8, FormsOfFilter, Zenon

LEMMA AclGrants ==
    ASSUME NEW d \in Ids, NEW t \in FromDevice(d)
    PROVE  CheckAcl(d, "publish", t) /\ RouteMessage(t).device = d
<1>1. d # ""
  BY AccessAssumption
<1>2. ASSUME NEW k, k \in PublishedKinds \/ k = "rpc_response",
             NEW r, ParseTopic(t) = Parsed(k, d, r)
      PROVE  RouteMessage(t).device = d
  <2>1. Parsed(k, d, r).kind = k /\ Parsed(k, d, r).device = d
    BY <1>1 DEF Parsed
  <2>2. ParseTopic(t).kind = k /\ ParseTopic(t).device = d
    BY <1>2, <2>1, Zenon
  <2> QED
    BY <1>2, <2>2 DEF RouteMessage, PublishedKinds
<1>3. CASE t \in {Telemetry(d), Status(d), ShadowReported(d), OtaProgress(d)}
  <2>1. PICK k \in PublishedKinds : ParseTopic(t) = Parsed(k, d, "")
    BY <1>3, ParseShort, ParseDevice DEF PublishedKinds
  <2>2. MayPublish(d, Parsed(k, d, ""))
    BY <1>1, AllOwn, Zenon
  <2> QED
    BY <1>2, <2>1, <2>2, AclOfParsed, Zenon
<1>4. ASSUME NEW r \in RequestIds, t = RpcResponse(d, r)
      PROVE  CheckAcl(d, "publish", t) /\ RouteMessage(t).device = d
  <2>1. r # "" /\ r \notin {"+", "#"}
    BY AccessAssumption
  <2>2. ParseTopic(t) = Parsed("rpc_response", d, r)
    BY <1>4, <2>1, ParseRpc
  <2>3. MayPublish(d, Parsed("rpc_response", d, r))
    BY <1>1, <2>1, AllOwn, Zenon
  <2> QED
    BY <1>2, <2>2, <2>3, AclOfParsed, Zenon
<1> QED
  BY <1>3, <1>4 DEF FromDevice

-----------------------------------------------------------------------------
(* Which topics each filter of a device and of the server matches. *)
LEMMA MatchesPlain ==
    ASSUME NEW f, NEW t, Len(f) \in Nat, \A i \in 1 .. Len(f) : f[i] # "#"
    PROVE  Matches(f, t) <=> Len(f) = Len(t) /\ \A i \in 1 .. Len(f) : f[i] = "+" \/ f[i] = t[i]
  BY DEF Matches

LEMMA MatchesTwo ==
    ASSUME NEW t, NEW f, NEW a, NEW b, f = <<a, b>>,
           a # "#", b # "#"
    PROVE  Matches(f, t) <=>
             /\ Len(t) = 2
             /\ a = "+" \/ a = t[1]
             /\ b = "+" \/ b = t[2]
<1>1. Len(f) = 2 /\ f[1] = a /\ f[2] = b
  OBVIOUS
<1>2. Len(f) \in Nat /\ \A i \in 1 .. Len(f) : f[i] # "#"
  BY <1>1
<1>3. Matches(f, t) <=> Len(f) = Len(t) /\ \A i \in 1 .. Len(f) : f[i] = "+" \/ f[i] = t[i]
  BY <1>2, MatchesPlain
<1>4. (\A i \in 1 .. Len(f) : f[i] = "+" \/ f[i] = t[i]) <=>
         /\ f[1] = "+" \/ f[1] = t[1]
         /\ f[2] = "+" \/ f[2] = t[2]
  BY <1>1
<1> QED
  BY <1>1, <1>3, <1>4

LEMMA MatchesThree ==
    ASSUME NEW t, NEW f, NEW a, NEW b, NEW c, f = <<a, b, c>>,
           a # "#", b # "#", c # "#"
    PROVE  Matches(f, t) <=>
             /\ Len(t) = 3
             /\ a = "+" \/ a = t[1]
             /\ b = "+" \/ b = t[2]
             /\ c = "+" \/ c = t[3]
<1>1. Len(f) = 3 /\ f[1] = a /\ f[2] = b /\ f[3] = c
  OBVIOUS
<1>2. Len(f) \in Nat /\ \A i \in 1 .. Len(f) : f[i] # "#"
  BY <1>1
<1>3. Matches(f, t) <=> Len(f) = Len(t) /\ \A i \in 1 .. Len(f) : f[i] = "+" \/ f[i] = t[i]
  BY <1>2, MatchesPlain
<1>4. (\A i \in 1 .. Len(f) : f[i] = "+" \/ f[i] = t[i]) <=>
         /\ f[1] = "+" \/ f[1] = t[1]
         /\ f[2] = "+" \/ f[2] = t[2]
         /\ f[3] = "+" \/ f[3] = t[3]
  BY <1>1
<1> QED
  BY <1>1, <1>3, <1>4

LEMMA MatchesFour ==
    ASSUME NEW t, NEW f, NEW a, NEW b, NEW c, NEW d, f = <<a, b, c, d>>,
           a # "#", b # "#", c # "#", d # "#"
    PROVE  Matches(f, t) <=>
             /\ Len(t) = 4
             /\ a = "+" \/ a = t[1]
             /\ b = "+" \/ b = t[2]
             /\ c = "+" \/ c = t[3]
             /\ d = "+" \/ d = t[4]
<1>1. Len(f) = 4 /\ f[1] = a /\ f[2] = b /\ f[3] = c /\ f[4] = d
  OBVIOUS
<1>2. Len(f) \in Nat /\ \A i \in 1 .. Len(f) : f[i] # "#"
  BY <1>1
<1>3. Matches(f, t) <=> Len(f) = Len(t) /\ \A i \in 1 .. Len(f) : f[i] = "+" \/ f[i] = t[i]
  BY <1>2, MatchesPlain
<1>4. (\A i \in 1 .. Len(f) : f[i] = "+" \/ f[i] = t[i]) <=>
         /\ f[1] = "+" \/ f[1] = t[1]
         /\ f[2] = "+" \/ f[2] = t[2]
         /\ f[3] = "+" \/ f[3] = t[3]
         /\ f[4] = "+" \/ f[4] = t[4]
  BY <1>1
<1> QED
  BY <1>1, <1>3, <1>4

LEMMA MatchesFive ==
    ASSUME NEW t, NEW f, NEW a, NEW b, NEW c, NEW d, NEW e, f = <<a, b, c, d, e>>,
           a # "#", b # "#", c # "#", d # "#", e # "#"
    PROVE  Matches(f, t) <=>
             /\ Len(t) = 5
             /\ a = "+" \/ a = t[1]
             /\ b = "+" \/ b = t[2]
             /\ c = "+" \/ c = t[3]
             /\ d = "+" \/ d = t[4]
             /\ e = "+" \/ e = t[5]
<1>1. Len(f) = 5 /\ f[1] = a /\ f[2] = b /\ f[3] = c /\ f[4] = d /\ f[5] = e
  OBVIOUS
<1>2. Len(f) \in Nat /\ \A i \in 1 .. Len(f) : f[i] # "#"
  BY <1>1
<1>3. Matches(f, t) <=> Len(f) = Len(t) /\ \A i \in 1 .. Len(f) : f[i] = "+" \/ f[i] = t[i]
  BY <1>2, MatchesPlain
<1>4. (\A i \in 1 .. Len(f) : f[i] = "+" \/ f[i] = t[i]) <=>
         /\ f[1] = "+" \/ f[1] = t[1]
         /\ f[2] = "+" \/ f[2] = t[2]
         /\ f[3] = "+" \/ f[3] = t[3]
         /\ f[4] = "+" \/ f[4] = t[4]
         /\ f[5] = "+" \/ f[5] = t[5]
  BY <1>1
<1> QED
  BY <1>1, <1>3, <1>4

LEMMA ServerPicks ==
    ASSUME NEW t
    PROVE  /\ Matches(Telemetry("+"), t) <=> Len(t) = 2 /\ t[1] = "telemetry"
           /\ Matches(Status("+"), t) <=> Len(t) = 3 /\ t[1] = "devices" /\ t[3] = "status"
           /\ Matches(ShadowReported("+"), t) <=>
                Len(t) = 4 /\ t[1] = "devices" /\ t[3] = "shadow" /\ t[4] = "reported"
           /\ Matches(OtaProgress("+"), t) <=>
                Len(t) = 4 /\ t[1] = "devices" /\ t[3] = "ota" /\ t[4] = "progress"
           /\ Matches(RpcResponse("+", "+"), t) <=>
                Len(t) = 5 /\ t[1] = "devices" /\ t[3] = "rpc" /\ t[4] = "response"
<1>1. Matches(Telemetry("+"), t) <=> Len(t) = 2 /\ t[1] = "telemetry"
  BY MatchesTwo DEF Telemetry
<1>2. Matches(Status("+"), t) <=> Len(t) = 3 /\ t[1] = "devices" /\ t[3] = "status"
  BY MatchesThree DEF Status
<1>3. Matches(ShadowReported("+"), t) <=>
                Len(t) = 4 /\ t[1] = "devices" /\ t[3] = "shadow" /\ t[4] = "reported"
  BY MatchesFour DEF ShadowReported
<1>4. Matches(OtaProgress("+"), t) <=>
                Len(t) = 4 /\ t[1] = "devices" /\ t[3] = "ota" /\ t[4] = "progress"
  BY MatchesFour DEF OtaProgress
<1>5. Matches(RpcResponse("+", "+"), t) <=>
                Len(t) = 5 /\ t[1] = "devices" /\ t[3] = "rpc" /\ t[4] = "response"
  BY MatchesFive DEF RpcResponse
<1> QED
  BY <1>1, <1>2, <1>3, <1>4, <1>5

LEMMA DevicePicks ==
    ASSUME NEW t, NEW d \in Ids
    PROVE  /\ Matches(ShadowDelta(d), t) <=>
                Len(t) = 4 /\ t[1] = "devices" /\ t[2] = d /\ t[3] = "shadow" /\ t[4] = "delta"
           /\ Matches(RpcRequest(d, "+"), t) <=>
                Len(t) = 5 /\ t[1] = "devices" /\ t[2] = d /\ t[3] = "rpc" /\ t[4] = "request"
<1>1. d # "+" /\ d # "#"
  BY AccessAssumption
<1>2. Matches(ShadowDelta(d), t) <=>
                Len(t) = 4 /\ t[1] = "devices" /\ t[2] = d /\ t[3] = "shadow" /\ t[4] = "delta"
  BY <1>1, MatchesFour DEF ShadowDelta
<1>3. Matches(RpcRequest(d, "+"), t) <=>
                Len(t) = 5 /\ t[1] = "devices" /\ t[2] = d /\ t[3] = "rpc" /\ t[4] = "request"
  BY <1>1, MatchesFive DEF RpcRequest
<1> QED
  BY <1>2, <1>3

LEMMA Levels ==
    ASSUME NEW x, NEW r, NEW t
    PROVE  /\ t = Telemetry(x) => Len(t) = 2 /\ t[1] = "telemetry" /\ t[2] = x
           /\ t = AlertsTopic(x) => Len(t) = 2 /\ t[1] = "alerts" /\ t[2] = x
           /\ t = Status(x) => Len(t) = 3 /\ t[1] = "devices" /\ t[2] = x /\ t[3] = "status"
           /\ t = ShadowReported(x) =>
                Len(t) = 4 /\ t[1] = "devices" /\ t[2] = x /\ t[3] = "shadow" /\ t[4] = "reported"
           /\ t = ShadowDelta(x) =>
                Len(t) = 4 /\ t[1] = "devices" /\ t[2] = x /\ t[3] = "shadow" /\ t[4] = "delta"
           /\ t = OtaProgress(x) =>
                Len(t) = 4 /\ t[1] = "devices" /\ t[2] = x /\ t[3] = "ota" /\ t[4] = "progress"
           /\ t = RpcRequest(x, r) =>
                /\ Len(t) = 5 /\ t[1] = "devices" /\ t[2] = x /\ t[3] = "rpc" /\ t[4] = "request"
                /\ t[5] = r
           /\ t = RpcResponse(x, r) =>
                /\ Len(t) = 5 /\ t[1] = "devices" /\ t[2] = x /\ t[3] = "rpc" /\ t[4] = "response"
                /\ t[5] = r
  BY DEF Telemetry, AlertsTopic, Status, ShadowReported, ShadowDelta, OtaProgress, RpcRequest,
         RpcResponse

LEMMA FormsOfTopic ==
    ASSUME NEW d, NEW t \in FromDevice(d)
    PROVE  t = Telemetry(d) \/ t = Status(d) \/ t = ShadowReported(d) \/ t = OtaProgress(d)
           \/ \E r \in RequestIds : t = RpcResponse(d, r)
  BY DEF FromDevice

(* What a device may say is a topic, without wildcards. *)
LEMMA SaidIsTopic == ASSUME NEW d \in Ids PROVE FromDevice(d) \subseteq Topics
<1> SUFFICES ASSUME NEW t \in FromDevice(d) PROVE t \in Filters /\ Plain(t)
  BY DEF Topics
<1>1. d \notin {"", "+", "#"}
  BY AccessAssumption
<1>2. CASE t \in {Telemetry(d), Status(d), ShadowReported(d), OtaProgress(d)}
  <2>1. t \in Filters
    <3>1. t \in {Telemetry(d), Status(d), ShadowReported(d), ShadowDelta(d), OtaProgress(d), AlertsTopic(d)}
      BY <1>2
    <3>2. d \in Ids \cup {"+", "#", ""}
      OBVIOUS
    <3> QED
      BY <3>1, <3>2, Zenon DEF Filters
  <2>2. Len(t) \in 2 .. 4 /\ t[2] = d /\ t[1] \in {"telemetry", "devices"}
        /\ (Len(t) >= 3 => t[3] \in {"status", "shadow", "ota"})
        /\ (Len(t) = 4 => t[4] \in {"reported", "progress"})
    BY <1>2, Levels
  <2>3. \A i \in 1 .. Len(t) : i = 1 \/ i = 2 \/ (i = 3 /\ Len(t) >= 3) \/ (i = 4 /\ Len(t) = 4)
    <3>1. \A n \in 2 .. 4 : \A i \in 1 .. n : i = 1 \/ i = 2 \/ (i = 3 /\ n >= 3) \/ (i = 4 /\ n = 4)
      OBVIOUS
    <3> QED
      BY <2>2, <3>1, Zenon
  <2>4. Plain(t)
    BY <1>1, <2>2, <2>3 DEF Plain
  <2> QED
    BY <2>1, <2>4
<1>3. ASSUME NEW r \in RequestIds, t = RpcResponse(d, r) PROVE t \in Filters /\ Plain(t)
  <2> DEFINE rpc(q) == {RpcRequest(x, q) : x \in Ids \cup {"+"}} \cup {RpcResponse(x, q) : x \in Ids \cup {"+"}}
  <2>1. t \in rpc(r)
    BY <1>3
  <2>2. t \in Filters
    <3>1. UNION {rpc(q) : q \in RequestIds \cup {"+", "#", ""}} \subseteq Filters
      BY Zenon DEF Filters
    <3> HIDE DEF rpc
    <3> QED
      BY <2>1, <3>1
  <2>3. r \notin {"", "+", "#"}
    BY AccessAssumption
  <2>4. Len(t) = 5 /\ t[1] = "devices" /\ t[2] = d /\ t[3] = "rpc" /\ t[4] = "response" /\ t[5] = r
    BY <1>3, Levels
  <2>5. Plain(t)
    <3>1. \A i \in 1 .. Len(t) : i = 1 \/ i = 2 \/ i = 3 \/ i = 4 \/ i = 5
      BY <2>4
    <3> QED
      BY <1>1, <2>3, <2>4, <3>1 DEF Plain
  <2> QED
    BY <2>2, <2>5
<1> QED
  BY <1>2, <1>3, FormsOfTopic

(* Of the server's filters exactly one picks up what a device says. *)
LEMMA PickedUpOnce ==
    ASSUME NEW d \in Ids, NEW t \in FromDevice(d)
    PROVE  Cardinality({f \in ServerFilters : Matches(f, t)}) = 1
<1>1. ASSUME NEW g, {f \in ServerFilters : Matches(f, t)} = {g}
      PROVE  Cardinality({f \in ServerFilters : Matches(f, t)}) = 1
  BY <1>1, FS_Singleton
<1>2. CASE t = Telemetry(d)
  <2>1. Len(t) = 2 /\ t[1] = "telemetry"
    BY <1>2, Levels
  <2>2. {f \in ServerFilters : Matches(f, t)} = {Telemetry("+")}
    BY <2>1, ServerPicks DEF ServerFilters
  <2> QED
    BY <1>1, <2>2
<1>3. CASE t = Status(d)
  <2>1. Len(t) = 3 /\ t[1] = "devices" /\ t[3] = "status"
    BY <1>3, Levels
  <2>2. {f \in ServerFilters : Matches(f, t)} = {Status("+")}
    BY <2>1, ServerPicks DEF ServerFilters
  <2> QED
    BY <1>1, <2>2
<1>4. CASE t = ShadowReported(d)
  <2>1. Len(t) = 4 /\ t[1] = "devices" /\ t[3] = "shadow" /\ t[4] = "reported"
    BY <1>4, Levels
  <2>2. {f \in ServerFilters : Matches(f, t)} = {ShadowReported("+")}
    BY <2>1, ServerPicks DEF ServerFilters
  <2> QED
    BY <1>1, <2>2
<1>5. CASE t = OtaProgress(d)
  <2>1. Len(t) = 4 /\ t[1] = "devices" /\ t[3] = "ota" /\ t[4] = "progress"
    BY <1>5, Levels
  <2>2. {f \in ServerFilters : Matches(f, t)} = {OtaProgress("+")}
    BY <2>1, ServerPicks DEF ServerFilters
  <2> QED
    BY <1>1, <2>2
<1>6. CASE \E r \in RequestIds : t = RpcResponse(d, r)
  <2>1. Len(t) = 5 /\ t[1] = "devices" /\ t[3] = "rpc" /\ t[4] = "response"
    BY <1>6, Levels
  <2>2. {f \in ServerFilters : Matches(f, t)} = {RpcResponse("+", "+")}
    BY <2>1, ServerPicks DEF ServerFilters
  <2> QED
    BY <1>1, <2>2
<1> QED
  BY <1>2, <1>3, <1>4, <1>5, <1>6, FormsOfTopic

(* What a device's two filters match of the contract is what is meant for it. *)
LEMMA HeardIsOwn ==
    ASSUME NEW d \in Ids, NEW t \in Contract
    PROVE  (Matches(ShadowDelta(d), t) \/ Matches(RpcRequest(d, "+"), t)) <=> t \in ToDevice(d)
<1>1. PICK e \in Ids : t \in FromDevice(e) \cup ToDevice(e) \cup {AlertsTopic(e)}
  BY DEF Contract
<1>2. ASSUME t \in ToDevice(d)
      PROVE  Matches(ShadowDelta(d), t) \/ Matches(RpcRequest(d, "+"), t)
  <2>1. t = ShadowDelta(d) \/ \E r \in RequestIds : t = RpcRequest(d, r)
    BY <1>2 DEF ToDevice
  <2>2. CASE t = ShadowDelta(d)
    BY <2>2, Levels, DevicePicks
  <2>3. ASSUME NEW r \in RequestIds, t = RpcRequest(d, r) PROVE Matches(RpcRequest(d, "+"), t)
    <3>1. Len(t) = 5 /\ t[1] = "devices" /\ t[2] = d /\ t[3] = "rpc" /\ t[4] = "request"
      BY <2>3, Levels
    <3> QED
      BY <3>1, DevicePicks
  <2> QED
    BY <2>1, <2>2, <2>3
<1>3. CASE t \in FromDevice(e) \cup {AlertsTopic(e)}
  <2>1. \/ Len(t) \in {2, 3} \/ t[4] = "reported" \/ t[4] = "progress" \/ t[4] = "response"
    BY <1>3, FormsOfTopic, Levels
  <2> QED
    BY <1>2, <2>1, DevicePicks
<1>4. CASE t = ShadowDelta(e)
  <2>1. Len(t) = 4 /\ t[2] = e
    BY <1>4, Levels
  <2> QED
    BY <1>2, <1>4, <2>1, DevicePicks DEF ToDevice
<1>5. ASSUME NEW r \in RequestIds, t = RpcRequest(e, r)
      PROVE  (Matches(ShadowDelta(d), t) \/ Matches(RpcRequest(d, "+"), t)) <=> t \in ToDevice(d)
  <2>1. Len(t) = 5 /\ t[2] = e
    BY <1>5, Levels
  <2>2. Matches(ShadowDelta(d), t) \/ Matches(RpcRequest(d, "+"), t) => e = d
    BY <2>1, DevicePicks
  <2> QED
    BY <1>2, <1>5, <2>2 DEF ToDevice
<1> QED
  BY <1>1, <1>3, <1>4, <1>5 DEF ToDevice

-----------------------------------------------------------------------------
(* Only the server is a superuser, and a device has subscribed to nothing    *)
(* but its two filters.                                                      *)
SInv ==
    /\ DOMAIN sessions \subseteq Users
    /\ \A u \in DOMAIN sessions : sessions[u] = (u = ServerUsername)
    /\ subs = [u \in Users |-> subs[u]]
    /\ \A d \in Ids : subs[d] \subseteq {ShadowDelta(d), RpcRequest(d, "+")}

LEMMA InitSInv == AccessInit => SInv
<1> SUFFICES ASSUME AccessInit PROVE SInv
  OBVIOUS
<1>1. DOMAIN sessions = {}
  BY DEF AccessInit
<1> QED
  BY <1>1 DEF AccessInit, SInv, Users

LEMMA ServerApart == ServerUsername \notin Ids
  BY AccessAssumption DEF ServerUsername

LEMMA NextSInv == SInv /\ [AccessNext]_<<provisioningVars, accessVars>> => SInv'
<1> SUFFICES ASSUME SInv, [AccessNext]_<<provisioningVars, accessVars>> PROVE SInv'
  OBVIOUS
<1>1. ASSUME NEW u \in Users, Connect(u) PROVE SInv'
  BY <1>1 DEF Connect, SInv, Users
<1>2. ASSUME NEW u \in Users, Disconnect(u) PROVE SInv'
  BY <1>2 DEF Disconnect, SInv, Users
<1>3. ASSUME NEW u \in Users, NEW filter \in Filters, Subscribe(u, filter) PROVE SInv'
  <2>1. u \in Ids /\ ~sessions[u] /\ u # ServerUsername
    BY <1>3 DEF Subscribe, Users, SInv
  <2>2. CheckAcl(u, "subscribe", filter)
    BY <1>3, <2>1 DEF Subscribe, Allowed
  <2>3. filter \in {ShadowDelta(u), RpcRequest(u, "+")}
    BY <2>1, <2>2, AclOf
  <2> QED
    BY <1>3, <2>1, <2>3 DEF Subscribe, SInv
<1>4. CASE ServerSubscribes
  <2> QED
    BY <1>4, ServerApart DEF ServerSubscribes, SInv, Users
<1>5. CASE UNCHANGED accessVars
  BY <1>5 DEF SInv, accessVars
<1> QED
  BY <1>1, <1>2, <1>3, <1>4, <1>5 DEF AccessNext

(* Only accounts have sessions, and only what /acl allows is subscribed. *)
THEOREM SessionsSafety == AccessSpec => []SInv
<1>1. SystemInit => SInv
  BY InitSInv DEF SystemInit
<1> QED
  BY <1>1, NextSInv, PTL DEF AccessSpec

(* A connected device can say what the contract lets it say and no more, the *)
(* server picks each such message up once and knows whose it is, and what a  *)
(* device is sent is meant for it.                                           *)
THEOREM DevicesKeepToTheirTopics == AccessSpec => []OwnTopicsOnly
<1>1. SInv => OwnTopicsOnly
  <2> SUFFICES ASSUME SInv, NEW d \in DOMAIN sessions \ {ServerUsername}
               PROVE  /\ {t \in Topics : Allowed(d, "publish", t)} = FromDevice(d)
                      /\ \A t \in FromDevice(d) :
                            /\ Cardinality({f \in ServerFilters : Matches(f, t)}) = 1
                            /\ RouteMessage(t).device = d
                      /\ LET heard == {t \in Contract : \E f \in subs[d] : Matches(f, t)}
                         IN  /\ heard \subseteq ToDevice(d)
                             /\ Cardinality(subs[d]) = 2 => heard = ToDevice(d)
    BY DEF OwnTopicsOnly
  <2>1. d \in Ids /\ ~sessions[d] /\ subs[d] \subseteq {ShadowDelta(d), RpcRequest(d, "+")}
    BY DEF SInv, Users
  <2>2. {t \in Topics : Allowed(d, "publish", t)} = FromDevice(d)
    <3>1. \A t \in Topics : t \in Filters
      BY DEF Topics
    <3>2. \A t : Allowed(d, "publish", t) <=> CheckAcl(d, "publish", t)
      BY <2>1 DEF Allowed
    <3> QED
      BY <2>1, <3>1, <3>2, AclOf, AclGrants, SaidIsTopic
  <2>3. \A t \in FromDevice(d) :
          Cardinality({f \in ServerFilters : Matches(f, t)}) = 1 /\ RouteMessage(t).device = d
    BY <2>1, PickedUpOnce, AclGrants
  <2> DEFINE heard == {t \in Contract : \E f \in subs[d] : Matches(f, t)}
  <2>4. heard \subseteq ToDevice(d)
    BY <2>1, HeardIsOwn
  <2>5. ASSUME Cardinality(subs[d]) = 2 PROVE heard = ToDevice(d)
    <3>1. subs[d] = {ShadowDelta(d), RpcRequest(d, "+")}
      <4>1. IsFiniteSet({ShadowDelta(d), RpcRequest(d, "+")})
            /\ Cardinality({ShadowDelta(d), RpcRequest(d, "+")}) <= 2
        <5>1. IsFiniteSet({ShadowDelta(d)}) /\ Cardinality({ShadowDelta(d)}) = 1
          BY FS_Singleton
        <5>2. {ShadowDelta(d), RpcRequest(d, "+")} = {ShadowDelta(d)} \cup {RpcRequest(d, "+")}
          OBVIOUS
        <5> HIDE DEF heard
        <5> QED
          BY <5>1, <5>2, FS_AddElement
      <4> DEFINE both == {ShadowDelta(d), RpcRequest(d, "+")}
      <4>2. subs[d] \in SUBSET both
        BY <2>1
      <4> HIDE DEF both
      <4>3. Cardinality(subs[d]) <= Cardinality(both) /\ (Cardinality(both) = Cardinality(subs[d]) => both = subs[d])
        BY <4>1, <4>2, FS_Subset DEF both
      <4>4. Cardinality(both) \in Nat
        BY <4>1, FS_CardinalityType DEF both
      <4> QED
        BY <2>5, <4>1, <4>3, <4>4 DEF both
    <3>2. ToDevice(d) \subseteq Contract
      BY <2>1 DEF Contract
    <3>3. \A t \in Contract : (\E f \in subs[d] : Matches(f, t)) <=> t \in ToDevice(d)
      BY <2>1, <3>1, HeardIsOwn
    <3> QED
      BY <3>2, <3>3
  <2> QED
    BY <2>2, <2>3, <2>4, <2>5
<1> QED
  BY <1>1, SessionsSafety, PTL

==============================================================================
