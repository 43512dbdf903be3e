----------------------------- MODULE Provisioning -----------------------------
(***************************************************************************)
(* How the simulated fleet gets its identities (apps/simulator/src/index.ts,*)
(* provision.ts, state.ts) from POST /api/devices                           *)
(* (apps/server/src/api/devices.ts).  A secret is told once, in the answer; *)
(* the simulator keeps it in a file it rewrites after every device, and     *)
(* docker restarts it whenever it exits, perhaps with another number of     *)
(* devices.  An id stands for the account, its secret and its record.       *)
(***************************************************************************)
EXTENDS Naturals, FiniteSets

CONSTANTS
    Ids,           \* device ids the server can generate
    Counts,        \* values of SIM_DEVICE_COUNT
    MaxFaults      \* bound: crashes, lost answers and errors

ASSUME ProvisioningAssumption ==
    /\ IsFiniteSet(Ids)
    /\ Counts \subseteq Nat \ {0}
    /\ MaxFaults \in Nat

VARIABLES
    accounts,      \* ids in the table `devices`
    adrift,        \* POSTs at the server that no one awaits any more
    proc,          \* simulator: down, provisioning, saving, running
    count,         \* config.deviceCount
    state,         \* ids of state.devices
    post,          \* the POST it awaits: its step and the id created
    file,          \* the state file: its records, and whether it is whole
    ran,           \* ids of the devices that were started in some fleet
    faults,
    lost,          \* answers lost, and POSTs and records a crash cost
    wiped          \* records lost with a file that was torn, or not read and
                   \* written over

provisioningVars ==
    <<accounts, adrift, proc, count, state, post, file, ran, faults, lost, wiped>>

NoPost == [st |-> "none", ids |-> {}]

ProvisioningInit ==
    /\ accounts = {} /\ adrift = 0
    /\ proc = "down" /\ count \in Counts
    /\ state = {} /\ post = NoPost
    /\ file = [whole |-> TRUE, devices |-> {}]
    /\ ran = {}
    /\ faults = 0 /\ lost = 0 /\ wiped = 0

Fault == faults < MaxFaults /\ faults' = faults + 1

-----------------------------------------------------------------------------
(* Slips a change of the code could make, one per property that catches it.  *)

(* The file is written once, when the fleet is complete. *)
PostAnsweredSaveLater ==
    /\ post.st = "created"
    /\ state' = state \cup post.ids
    /\ post' = NoPost
    /\ IF Cardinality(state') < count
       THEN UNCHANGED <<proc, file>>
       ELSE proc' = "saving" /\ file' = [whole |-> FALSE, devices |-> {}]
    /\ UNCHANGED <<accounts, adrift, count, ran, faults, lost, wiped>>

(* Only the new records are written. *)
SaveDoneNewOnly ==
    /\ proc = "saving"
    /\ file' = [whole |-> TRUE, devices |-> state \ ran]
    /\ proc' = "provisioning"
    /\ UNCHANGED <<accounts, adrift, count, state, post, ran, faults, lost, wiped>>

-----------------------------------------------------------------------------
(* loadState: a file that is missing or corrupt is an empty state, and so is *)
(* one that could not be read this time.                                     *)
Boot ==
    /\ proc = "down"
    /\ proc' = "provisioning"
    /\ count' \in Counts
    /\ \/ state' = (IF file.whole THEN file.devices ELSE {}) /\ UNCHANGED faults
       \/ state' = {} /\ Fault
    /\ UNCHANGED <<accounts, adrift, post, file, ran, lost, wiped>>

(* The loop asks for one device at a time. *)
Post ==
    /\ proc = "provisioning" /\ post = NoPost
    /\ Cardinality(state) < count
    /\ post' = [st |-> "asked", ids |-> {}]
    /\ UNCHANGED <<accounts, adrift, proc, count, state, file, ran, faults, lost, wiped>>

(* POST /api/devices: an account with a new random id, and its secret in the *)
(* answer.  Which unused id it is makes no difference.                       *)
NewId == CHOOSE id \in Ids : id \notin accounts

Create ==
    /\ accounts # Ids
    /\ accounts' = accounts \cup {NewId}

ServerCreates ==
    /\ Create
    /\ \/ /\ post.st = "asked"
          /\ post' = [st |-> "created", ids |-> {NewId}]
          /\ UNCHANGED adrift
       \/ /\ adrift > 0
          /\ adrift' = adrift - 1
          /\ UNCHANGED post
    /\ UNCHANGED <<proc, count, state, file, ran, faults, lost, wiped>>

(* The record is pushed and saveState begins: Bun.write truncates the file.  *)
PostAnswered ==
    /\ post.st = "created"
    /\ state' = state \cup post.ids
    /\ post' = NoPost
    /\ proc' = "saving"
    /\ file' = [whole |-> FALSE, devices |-> {}]
    /\ wiped' = wiped + Cardinality(file.devices \ state)
    /\ UNCHANGED <<accounts, adrift, count, ran, faults, lost>>

SaveDone ==
    /\ proc = "saving"
    /\ file' = [whole |-> TRUE, devices |-> state]
    /\ proc' = "provisioning"
    /\ UNCHANGED <<accounts, adrift, count, state, post, ran, faults, lost, wiped>>

(* A network error, a 5xx or an answer that cannot be read: provisionDevice  *)
(* tries again, the server may have created the device or do so yet.         *)
PostFails ==
    /\ post # NoPost /\ Fault
    /\ post' = NoPost
    /\ lost' = lost + 1
    /\ \/ post.st = "asked" /\ adrift' = adrift + 1
       \/ UNCHANGED adrift
    /\ UNCHANGED <<accounts, proc, count, state, file, ran, wiped>>

(* 4xx: main rejects and the simulator exits. *)
PostRejected ==
    /\ post.st = "asked" /\ Fault
    /\ post' = NoPost
    /\ proc' = "down"
    /\ state' = {}
    /\ UNCHANGED <<accounts, adrift, count, file, ran, lost, wiped>>

StartFleet ==
    /\ proc = "provisioning" /\ Cardinality(state) >= count
    /\ proc' = "running"
    /\ ran' = ran \cup state
    /\ UNCHANGED <<accounts, adrift, count, state, post, file, faults, lost, wiped>>

(* The process ends: killed, by a signal before or after the fleet was       *)
(* started, or since saveState rejected.                                     *)
Exit ==
    /\ proc # "down" /\ Fault
    /\ proc' = "down"
    /\ state' = {}
    /\ post' = NoPost
    /\ adrift' = IF post.st = "asked" THEN adrift + 1 ELSE adrift
    /\ lost' = IF post # NoPost THEN lost + 1 ELSE lost
    /\ wiped' = IF proc = "saving" THEN wiped + Cardinality(state) ELSE wiped
    /\ UNCHANGED <<accounts, count, file, ran>>

ProvisioningNext ==
    \/ Boot \/ Post \/ ServerCreates \/ PostAnswered \/ SaveDone
    \/ PostFails \/ PostRejected \/ StartFleet \/ Exit

-----------------------------------------------------------------------------
ProvisioningTypeOK ==
    /\ accounts \subseteq Ids /\ state \subseteq accounts /\ post.ids \subseteq accounts
    /\ file.devices \subseteq accounts /\ ran \subseteq accounts
    /\ adrift \in 0 .. MaxFaults /\ count \in Counts
    /\ proc \in {"down", "provisioning", "saving", "running"}

(* An account whose secret no one has is the price of one answer that was    *)
(* lost, of a file torn by a crash or of one that could not be read and was  *)
(* written over, never of a restart as such: a crash between two devices, or *)
(* with the fleet running, costs none.                                       *)
Held == file.devices \cup state \cup post.ids

OrphansBounded == Cardinality(accounts \ Held) <= lost + wiped

(* A device that ran once is in every later fleet ("persisted device         *)
(* credentials", state.ts), whatever the number of devices asked for and     *)
(* wherever the simulator was stopped, unless a crash tore the file or it    *)
(* was written over unread.                                                  *)
FleetKeepsIdentity == proc = "running" /\ wiped = 0 => ran \subseteq state
==============================================================================
