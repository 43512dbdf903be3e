----------------------------- MODULE ShadowProof -----------------------------
(***************************************************************************)
(* Proofs about a device and its shadow, for every set of values and        *)
(* versions, any number of pooled connections and any number of requests    *)
(* and faults: whatever order statements run in and whatever is lost on the *)
(* network, the twin that has come to rest is exact, until a query rejects  *)
(* and after the device's next report.                                      *)
(***************************************************************************)
EXTENDS ShadowSync, SequenceTheorems, WellFoundedInduction, TLAPS

Keys == {"plain", "firmware"}

Statements == [op : {"patch", "set", "report", "refresh", "firmware"}, arg : Shadow,
               version : Nat \cup {None}, seen : Shadow]
Acks == [then : {"delta", "ota"}, target : Firmwares \cup {None}]

-----------------------------------------------------------------------------
(* The inductive invariant. *)

(* The types of the runs, for sequences that are sequences. *)
Rows == [desired : Shadow, reported : Shadow, version : Nat, firmware : Firmwares]
StatementsOK ==
    /\ statements \in Seq(Statements)
    /\ \A i \in DOMAIN statements :
          statements[i].op = "firmware" => statements[i].arg.firmware \in Firmwares
AnswersOK == IsABag(answers) /\ BagToSet(answers) \subseteq Shadow \ {Empty}
AcksOK ==
    /\ acks \in Seq(Acks)
    /\ \A i \in DOMAIN acks : acks[i].then = "delta" => acks[i].target \in Firmwares
Phases == {"idle", "installing", "rebooting", "rebooted", "done", "reporting"}
OtaOK ==
    /\ ota \in [phase : Phases, target : Firmwares \cup {None}]
    /\ IF ota.phase = "idle" THEN ota = Idle ELSE ota.target \in Firmwares
Flags == subscribed \in BOOLEAN /\ announce \in BOOLEAN /\ up \in BOOLEAN /\ unheard \in BOOLEAN

Typed ==
    /\ row \in Rows
    /\ StatementsOK /\ AnswersOK /\ AcksOK /\ OtaOK /\ Flags
    /\ events \in 0 .. MaxEvents
    /\ deltas \in Seq(Shadow \ {Empty})
    /\ device \in [plain : Plain, firmware : Firmwares]

(* A client's patch carries a desired state that was read with its version. *)
PatchesRead ==
    \A i \in DOMAIN statements : statements[i].op = "patch" =>
        /\ statements[i].version \in Nat
        /\ statements[i].version <= row.version
        /\ statements[i].version = row.version => statements[i].seen = row.desired

(* The acknowledgements are those of the present: at most one is the last of *)
(* an update, and a version that waits to be installed is not the device's,  *)
(* or the update that will make it so is acknowledged later.                 *)
OtaAcks == {i \in DOMAIN acks : acks[i].then = "ota"}
AcksInTurn ==
    /\ ota.phase # "reporting" => OtaAcks = {}
    /\ \A i, j \in OtaAcks : i = j
    /\ \A i \in DOMAIN acks : acks[i].then = "delta" =>
          acks[i].target # device.firmware \/ \E j \in OtaAcks : i < j

(* A server that is down runs nothing. *)
DownIsSilent == ~up => statements = << >> /\ BagToSet(answers) = {}

Reports == {i \in DOMAIN statements : statements[i].op = "report"}

(* Nobody ever touched a key that has no desired value. *)
Untouched ==
    \A k \in Keys : row.desired[k] = None =>
        /\ device[k] = Factory[k] /\ row.reported[k] = Factory[k]
        /\ \A i \in Reports : statements[i].arg[k] = Factory[k]
        /\ \A delta \in BagToSet(answers) \cup Range(deltas) : delta[k] = None
NoUpdateUnasked == row.desired.firmware = None => ota = Idle /\ acks = << >>

(* The device will report, because it has to connect first. *)
Away == ~subscribed \/ announce

(* A delta is under way, or the row calls for one. *)
Pending == BagToSet(answers) # {} \/ deltas # << >>
Differs == Delta(row.desired, row.reported) # Empty
Refreshing == \E i \in DOMAIN statements : statements[i].op = "refresh"

(* The device's last report is still to be stored: it is the last one sent. *)
LastIsSent ==
    \E i \in Reports : /\ \A j \in Reports : j <= i
                       /\ Away \/ statements[i].arg = device

(* Or it has been stored.  Then, with no delta under way, the row holds it;  *)
(* what differs with older reports still to be stored has a delta under way, *)
(* and otherwise has one or a refresh.                                       *)
LastIsStored ==
    /\ ~Away /\ ~Pending => row.reported = device
    /\ ~Away /\ Reports # {} /\ Differs => Pending
    /\ up /\ subscribed /\ Differs => Pending \/ Refreshing

(* Unless something has been lost on the server since. *)
TwinFollows == unheard \/ LastIsSent \/ LastIsStored

SyncInv ==
    /\ Typed /\ PatchesRead /\ AcksInTurn /\ DownIsSilent
    /\ Untouched /\ NoUpdateUnasked /\ TwinFollows

-----------------------------------------------------------------------------
(* What the operators of the model do. *)

LEMMA ShadowKeys ==
    /\ \A s \in Shadow : DOMAIN s = Keys /\ s = [plain |-> s.plain, firmware |-> s.firmware]
    /\ \A d \in [plain : Plain, firmware : Firmwares] : d \in Shadow
    /\ Empty \in Shadow /\ \A k \in Keys : Empty[k] = None
  BY DEF Shadow, Keys, Empty

LEMMA SameShadow ==
    ASSUME NEW s \in Shadow, NEW t \in Shadow, \A k \in Keys : s[k] = t[k]
    PROVE  s = t
  BY DEF Shadow, Keys

LEMMA DeltaShadow ==
    ASSUME NEW d \in Shadow, NEW r \in Shadow
    PROVE  /\ Delta(d, r) \in Shadow
           /\ \A k \in Keys : Delta(d, r)[k] = IF d[k] # r[k] THEN d[k] ELSE None
  BY DEF Delta, Shadow, Keys

(* The delta is empty when every desired value is the reported one. *)
LEMMA DeltaEmpty ==
    ASSUME NEW d \in Shadow, NEW r \in Shadow
    PROVE  Delta(d, r) = Empty <=> \A k \in Keys : d[k] \in {None, r[k]}
<1>1. /\ Delta(d, r) \in Shadow /\ Empty \in Shadow
      /\ \A k \in Keys : Delta(d, r)[k] = IF d[k] # r[k] THEN d[k] ELSE None
      /\ \A k \in Keys : Empty[k] = None
  BY DeltaShadow, ShadowKeys
<1>2. (\A k \in Keys : Delta(d, r)[k] = Empty[k]) => Delta(d, r) = Empty
  BY <1>1, SameShadow
<1> QED BY <1>1, <1>2

LEMMA MergeShadow ==
    ASSUME NEW d \in Shadow, NEW p \in Shadow
    PROVE  /\ Merge(d, p) \in Shadow
           /\ \A k \in Keys : Merge(d, p)[k] = IF p[k] # None THEN p[k] ELSE d[k]
  BY DEF Merge, Shadow, Keys

LEMMA BagAdd ==
    ASSUME NEW a, NEW S, IsABag(a)
    PROVE  IsABag(a (+) SetToBag(S)) /\ BagToSet(a (+) SetToBag(S)) = BagToSet(a) \cup S
  BY DEF IsABag, BagToSet, (+), SetToBag

LEMMA BagSub ==
    ASSUME NEW a, NEW d, IsABag(a)
    PROVE  IsABag(a (-) SetToBag({d})) /\ BagToSet(a (-) SetToBag({d})) \subseteq BagToSet(a)
  BY DEF IsABag, BagToSet, (-), SetToBag

LEMMA BagEmpty == IsABag(EmptyBag) /\ BagToSet(EmptyBag) = {}
  BY DEF IsABag, BagToSet, EmptyBag, SetToBag

LEMMA MembersOfSeq ==
    ASSUME NEW S, NEW s \in Seq(S)
    PROVE  Range(s) \subseteq S /\ \A i \in DOMAIN s : s[i] \in S
<1>1. DOMAIN s = 1 .. Len(s)
  OBVIOUS
<1>2. \A i \in 1 .. Len(s) : s[i] \in S
  BY ElementOfSeq
<1>3. \A i \in DOMAIN s : s[i] \in S
  BY <1>1, <1>2, Zenon
<1>4. Range(s) \subseteq S
  BY <1>3, Zenon DEF Range
<1> QED BY <1>3, <1>4, Zenon

LEMMA Removed ==
    ASSUME NEW S, NEW s \in Seq(S), NEW i \in 1 .. Len(s)
    PROVE  /\ RemoveAt(s, i) \in Seq(S)
           /\ Len(RemoveAt(s, i)) = Len(s) - 1
           /\ \A j \in 1 .. Len(s) - 1 :
                 RemoveAt(s, i)[j] = IF j < i THEN s[j] ELSE s[j + 1]
<1>1. /\ SubSeq(s, 1, i - 1) \in Seq(S) /\ Len(SubSeq(s, 1, i - 1)) = i - 1
      /\ SubSeq(s, i + 1, Len(s)) \in Seq(S) /\ Len(SubSeq(s, i + 1, Len(s))) = Len(s) - i
  BY SubSeqProperties
<1>2. \A j \in 1 .. i - 1 : SubSeq(s, 1, i - 1)[j] = s[j]
  BY SubSeqProperties
<1>3. \A j \in 1 .. Len(s) - i : SubSeq(s, i + 1, Len(s))[j] = s[i + j]
  BY SubSeqProperties
<1> DEFINE f == SubSeq(s, 1, i - 1)
           g == SubSeq(s, i + 1, Len(s))
<1> HIDE DEF f, g
<1>4. /\ f \o g \in Seq(S) /\ Len(f \o g) = Len(f) + Len(g)
      /\ \A j \in 1 .. Len(f) + Len(g) :
            (f \o g)[j] = IF j <= Len(f) THEN f[j] ELSE g[j - Len(f)]
  BY <1>1, ConcatProperties DEF f, g
<1>5. RemoveAt(s, i) = f \o g
  BY DEF RemoveAt, f, g
<1>6. /\ Len(f) = i - 1 /\ Len(g) = Len(s) - i
      /\ \A j \in 1 .. i - 1 : f[j] = s[j]
      /\ \A j \in 1 .. Len(s) - i : g[j] = s[i + j]
  BY <1>1, <1>2, <1>3 DEF f, g
<1>7. \A j \in 1 .. Len(s) - 1 : (f \o g)[j] = IF j < i THEN s[j] ELSE s[j + 1]
  <2> TAKE j \in 1 .. Len(s) - 1
  <2>1. j \in 1 .. Len(f) + Len(g) /\ (j <= Len(f) <=> j < i)
    BY <1>6
  <2>2. CASE j < i
    BY <1>4, <1>6, <2>1, <2>2
  <2>3. CASE ~(j < i)
    <3>1. j - Len(f) \in 1 .. Len(s) - i /\ i + (j - Len(f)) = j + 1
      BY <1>6, <2>3
    <3> QED BY <1>4, <1>6, <2>1, <2>3, <3>1
  <2> QED BY <2>2, <2>3
<1>8. Len(f) + Len(g) = Len(s) - 1
  BY <1>6
<1> QED BY <1>4, <1>5, <1>7, <1>8, Zenon

LEMMA Appended ==
    ASSUME NEW S, NEW s \in Seq(S), NEW e \in S
    PROVE  /\ Append(s, e) \in Seq(S) /\ Len(Append(s, e)) = Len(s) + 1
           /\ Append(s, e) # << >>
           /\ \A j \in 1 .. Len(s) : Append(s, e)[j] = s[j]
           /\ Append(s, e)[Len(s) + 1] = e
  OBVIOUS

LEMMA Shortened ==
    ASSUME NEW S, NEW s \in Seq(S), s # << >>
    PROVE  /\ Head(s) \in S /\ Head(s) = s[1] /\ 1 \in 1 .. Len(s)
           /\ Tail(s) \in Seq(S) /\ Len(Tail(s)) = Len(s) - 1
           /\ \A j \in 1 .. Len(s) - 1 : Tail(s)[j] = s[j + 1]
  OBVIOUS

(* Every set of naturals that is not empty has a least member. *)
LEMMA LeastOf == ASSUME NEW T \in SUBSET Nat, T # {} PROVE \E x \in T : \A y \in T : x <= y
<1> DEFINE R == {ss \in Nat \X Nat : ss[1] < ss[2]}
<1>1. IsWellFoundedOn(R, Nat)
  BY NatLessThanWellFounded DEF OpToRel
<1>2. \A x, y \in Nat : y < x => <<y, x>> \in R
  OBVIOUS
<1> HIDE DEF R
<1>3. PICK x \in T : \A y \in T : ~(<<y, x>> \in R)
  BY <1>1, WFMin
<1>4. x \in Nat /\ \A y \in T : y \in Nat /\ ~(y < x)
  BY <1>2, <1>3
<1> QED BY <1>4

(* Where two removals leave the same, they removed the same. *)
LEMMA SameRemoved ==
    ASSUME NEW S, NEW s \in Seq(S), NEW i \in 1 .. Len(s), NEW j \in 1 .. Len(s),
           RemoveAt(s, i) = RemoveAt(s, j)
    PROVE  s[i] = s[j]
<1>1. \A a, b \in 1 .. Len(s) : a < b /\ RemoveAt(s, a) = RemoveAt(s, b) => s[a] = s[b]
  <2> SUFFICES ASSUME NEW a \in 1 .. Len(s), NEW b \in 1 .. Len(s), a < b,
                      RemoveAt(s, a) = RemoveAt(s, b), s[a] # s[b]
               PROVE  FALSE
    OBVIOUS
  <2>1. \A k \in a .. b - 1 : s[k + 1] = s[k]
    <3> TAKE k \in a .. b - 1
    <3>1. k \in 1 .. Len(s) - 1 /\ k < b /\ ~(k < a)
      OBVIOUS
    <3>2. RemoveAt(s, a)[k] = s[k + 1]
      BY <3>1, Removed
    <3>3. RemoveAt(s, b)[k] = s[k]
      BY <3>1, Removed
    <3> QED BY <3>2, <3>3
  <2> DEFINE T == {k \in 1 .. Len(s) : a <= k /\ s[k] # s[a]}
  <2>2. PICK m \in T : \A y \in T : m <= y
    <3>1. T \in SUBSET Nat /\ b \in T
      OBVIOUS
    <3> HIDE DEF T
    <3>2. T # {}
      BY <3>1
    <3> QED BY <3>1, <3>2, LeastOf
  <2>3. m <= b /\ a < m
    <3>1. b \in T /\ a \notin T
      OBVIOUS
    <3> QED BY <2>2, <3>1
  <2>4. s[m - 1] = s[a]
    <3>1. m - 1 \in 1 .. Len(s) /\ a <= m - 1 /\ m - 1 \notin T
      BY <2>2, <2>3
    <3> QED BY <3>1
  <2> QED BY <2>1, <2>2, <2>3, <2>4
<1> QED BY <1>1

-----------------------------------------------------------------------------
(* Types. *)

LEMMA TypedIsTypeOK == Typed => SyncTypeOK
<1> SUFFICES ASSUME Typed PROVE SyncTypeOK
  OBVIOUS
<1>1. Range(statements) \subseteq Statements /\ Range(acks) \subseteq Acks
  BY MembersOfSeq DEF Typed, StatementsOK, AcksOK
<1>2. Range(deltas) \subseteq Shadow \ {Empty}
  BY MembersOfSeq DEF Typed
<1> QED BY <1>1, <1>2 DEF Typed, SyncTypeOK, Rows, Statements, Acks, AnswersOK, OtaOK, Phases, Flags

LEMMA UnversionedTyped ==
    ASSUME NEW op \in {"set", "report", "refresh", "firmware"}, NEW arg \in Shadow
    PROVE  /\ Unversioned(op, arg) \in Statements
           /\ Unversioned(op, arg).op = op /\ Unversioned(op, arg).arg = arg
  BY ShadowKeys DEF Unversioned, Statements

LEMMA SendTyped ==
    ASSUME StatementsOK, NEW s \in Statements, Send(s),
           s.op = "firmware" => s.arg.firmware \in Firmwares
    PROVE  StatementsOK'
<1>1. /\ statements' \in Seq(Statements) /\ Len(statements') = Len(statements) + 1
      /\ \A j \in 1 .. Len(statements) : statements'[j] = statements[j]
      /\ statements'[Len(statements) + 1] = s
  BY Appended DEF Send, StatementsOK
<1>2. \A j \in DOMAIN statements' : j \in 1 .. Len(statements) \/ j = Len(statements) + 1
  BY <1>1
<1> QED BY <1>1, <1>2 DEF StatementsOK

LEMMA PublishTyped ==
    ASSUME StatementsOK, NEW s \in Statements, Publish(s),
           s.op = "firmware" => s.arg.firmware \in Firmwares
    PROVE  StatementsOK'
<1>1. CASE up
  BY <1>1, SendTyped DEF Publish
<1>2. CASE ~up
  BY <1>2 DEF Publish, StatementsOK
<1> QED BY <1>1, <1>2

LEMMA RunTyped ==
    ASSUME StatementsOK, NEW i \in DOMAIN statements, statements' = RemoveAt(statements, i)
    PROVE  /\ StatementsOK'
           /\ Len(statements') = Len(statements) - 1
           /\ \A j \in DOMAIN statements' :
                 /\ j \in DOMAIN statements /\ j + 1 \in DOMAIN statements
                 /\ statements'[j] = IF j < i THEN statements[j] ELSE statements[j + 1]
<1>1. /\ statements' \in Seq(Statements) /\ Len(statements') = Len(statements) - 1
      /\ \A j \in 1 .. Len(statements) - 1 :
            statements'[j] = IF j < i THEN statements[j] ELSE statements[j + 1]
  BY Removed, SMTT(30) DEF StatementsOK
<1>2. \A j \in DOMAIN statements' :
         /\ j \in 1 .. Len(statements) - 1
         /\ j \in DOMAIN statements /\ j + 1 \in DOMAIN statements
  BY <1>1 DEF StatementsOK
<1> QED BY <1>1, <1>2 DEF StatementsOK

LEMMA LeavesTyped ==
    ASSUME AnswersOK, NEW r \in Rows, Leaves(r)
    PROVE  /\ row' \in Rows /\ row' = r /\ AnswersOK'
           /\ BagToSet(answers') =
                 BagToSet(answers) \cup ({Delta(r.desired, r.reported)} \ {Empty})
<1>1. Delta(r.desired, r.reported) \in Shadow
  BY DeltaShadow DEF Rows
<1> QED BY <1>1, BagAdd DEF AnswersOK, Leaves

LEMMA IdleOK ==
    Idle \in [phase : Phases, target : Firmwares \cup {None}] /\ Idle.phase = "idle"
  BY DEF Idle, Phases

LEMMA InitTyped == Init => Typed
<1> SUFFICES ASSUME Init PROVE Typed
  OBVIOUS
<1>1. row \in Rows /\ device \in [plain : Plain, firmware : Firmwares]
  BY ShadowKeys, SyncAssumption DEF Init, StoreInit, Rows
<1>2. AnswersOK
  BY BagEmpty DEF Init, StoreInit, AnswersOK
<1>3. StatementsOK /\ AcksOK /\ deltas \in Seq(Shadow \ {Empty})
  BY DEF Init, StoreInit, StatementsOK, AcksOK
<1>4. OtaOK
  BY IdleOK DEF Init, OtaOK
<1>5. Flags
  BY DEF Init, StoreInit, Flags
<1>6. events = 0
  BY DEF Init, StoreInit
<1>7. events \in 0 .. MaxEvents
  BY <1>6, ShadowAssumption
<1> QED BY <1>1, <1>2, <1>3, <1>4, <1>5, <1>7 DEF Typed

(* A report, from whatever state the device has now. *)
LEMMA ReportTyped ==
    ASSUME StatementsOK, up \in BOOLEAN, NEW state \in [plain : Plain, firmware : Firmwares],
           PublishReported(state)
    PROVE  StatementsOK' /\ unheard' \in BOOLEAN
<1>1. state \in Shadow
  BY ShadowKeys
<1>2. /\ Unversioned("report", state) \in Statements
      /\ Unversioned("report", state).op = "report"
  BY <1>1, UnversionedTyped
<1> QED BY <1>2, PublishTyped DEF PublishReported

LEMMA ConnectTyped == Typed /\ Connect => Typed'
<1> SUFFICES ASSUME Typed, Connect PROVE Typed'
  OBVIOUS
<1>1. /\ Unversioned("refresh", Empty) \in Statements
      /\ Unversioned("refresh", Empty).op = "refresh"
  BY ShadowKeys, UnversionedTyped
<1>2. StatementsOK'
  BY <1>1, PublishTyped DEF Connect, PublishOnline, Typed
<1>3. OtaOK'
  BY DEF Connect, Typed, OtaOK, Idle, Phases
<1> QED BY <1>2, <1>3 DEF Connect, Typed, storeRest, AnswersOK, AcksOK, Flags

LEMMA AnnounceTyped == Typed /\ Announce => Typed'
<1> SUFFICES ASSUME Typed, Announce PROVE Typed'
  OBVIOUS
<1>1. StatementsOK' /\ unheard' \in BOOLEAN
  BY ReportTyped DEF Announce, Typed, Flags
<1> QED BY <1>1 DEF Announce, Typed, storeRest, AnswersOK, AcksOK, OtaOK, Flags

LEMMA HandleDeltaTyped == Typed /\ HandleDelta => Typed'
<1> SUFFICES ASSUME Typed, HandleDelta PROVE Typed'
  OBVIOUS
<1>1. /\ Head(deltas) \in Shadow
      /\ Tail(deltas) \in Seq(Shadow \ {Empty})
  BY DEF Typed, HandleDelta
<1>2. /\ Adopted(Head(deltas)) \in [plain : Plain, firmware : Firmwares]
      /\ Trigger(Head(deltas)) \in Firmwares \cup {None}
  BY <1>1 DEF Typed, Adopted, Trigger, Shadow
<1>3. StatementsOK' /\ unheard' \in BOOLEAN /\ device' \in [plain : Plain, firmware : Firmwares]
  BY <1>2, ReportTyped DEF HandleDelta, Typed, Flags
<1>4. AcksOK'
  <2>1. CASE Trigger(Head(deltas)) = None
    BY <2>1 DEF HandleDelta, Typed, AcksOK
  <2>2. CASE Trigger(Head(deltas)) # None
    <3> DEFINE a == [then |-> "delta", target |-> Trigger(Head(deltas))]
    <3>1. a \in Acks /\ a.then = "delta" /\ a.target \in Firmwares
      BY <1>2, <2>2 DEF Acks
    <3>2. acks' = Append(acks, a)
      BY <2>2 DEF HandleDelta
    <3> HIDE DEF a
    <3>3. /\ acks' \in Seq(Acks) /\ Len(acks') = Len(acks) + 1
          /\ \A j \in 1 .. Len(acks) : acks'[j] = acks[j]
          /\ acks'[Len(acks) + 1] = a
      BY <3>1, <3>2, Appended DEF Typed, AcksOK
    <3>4. \A j \in DOMAIN acks' : j \in 1 .. Len(acks) \/ j = Len(acks) + 1
      BY <3>3
    <3> QED BY <3>1, <3>3, <3>4 DEF Typed, AcksOK
  <2> QED BY <2>1, <2>2
<1> QED BY <1>1, <1>3, <1>4 DEF HandleDelta, Typed, storeRest, AnswersOK, OtaOK, Flags

LEMMA AckedTyped == Typed /\ (DeltaAcked \/ OtaAcked) => Typed'
<1> SUFFICES ASSUME Typed, DeltaAcked \/ OtaAcked PROVE Typed'
  OBVIOUS
<1>1. /\ acks' = Tail(acks) /\ acks # << >> /\ acks \in Seq(Acks)
      /\ UNCHANGED <<storeVars, device, announce, up, unheard>>
  BY DEF DeltaAcked, OtaAcked, Typed, AcksOK
<1>2. /\ Head(acks) = acks[1] /\ 1 \in DOMAIN acks
      /\ acks' \in Seq(Acks)
      /\ \A j \in DOMAIN acks' : j + 1 \in DOMAIN acks /\ acks'[j] = acks[j + 1]
  BY <1>1, Shortened
<1>3. AcksOK'
  BY <1>2 DEF Typed, AcksOK
<1>4. OtaOK'
  <2>1. CASE OtaAcked \/ ota # Idle
    BY <2>1, IdleOK DEF DeltaAcked, OtaAcked, Typed, OtaOK
  <2>2. CASE DeltaAcked /\ ota = Idle
    <3>1. acks[1].target \in Firmwares
      BY <1>2, <2>2 DEF DeltaAcked, Typed, AcksOK
    <3> QED BY <1>2, <2>2, <3>1 DEF DeltaAcked, OtaOK, Phases
  <2> QED BY <2>1, <2>2
<1> QED BY <1>1, <1>3, <1>4 DEF Typed, storeVars, StatementsOK, AnswersOK, Flags

LEMMA EventTyped == events \in 0 .. MaxEvents /\ Event => events' \in 0 .. MaxEvents
  BY ShadowAssumption DEF Event

LEMMA LostTyped ==
    Typed /\ (OtaReboots \/ ConnectionBreaks \/ RpcReboots \/ DeviceRestarts) => Typed'
<1> SUFFICES ASSUME Typed, OtaReboots \/ ConnectionBreaks \/ RpcReboots \/ DeviceRestarts
             PROVE  Typed'
  OBVIOUS
<1>1. /\ UNCHANGED <<row, statements, answers, up, unheard>>
      /\ subscribed' = FALSE /\ announce' = FALSE /\ deltas' = << >>
      /\ acks' = << >> \/ acks' = acks
      /\ device' = device \/ device' = Factory
  BY DEF OtaReboots, ConnectionBreaks, RpcReboots, DeviceRestarts, Disconnect
<1>2. events' \in 0 .. MaxEvents
  BY EventTyped DEF OtaReboots, ConnectionBreaks, RpcReboots, DeviceRestarts, Typed
<1>3. OtaOK'
  <2>1. CASE OtaReboots
    BY <2>1 DEF OtaReboots, Typed, OtaOK, Phases
  <2>2. CASE DeviceRestarts
    BY <2>2, IdleOK DEF DeviceRestarts, OtaOK
  <2>3. CASE ConnectionBreaks \/ RpcReboots
    BY <2>3 DEF ConnectionBreaks, RpcReboots, Typed, OtaOK
  <2> QED BY <2>1, <2>2, <2>3
<1>4. AcksOK'
  <2>1. CASE acks' = acks
    BY <2>1 DEF Typed, AcksOK
  <2>2. CASE acks' = << >>
    BY <2>2 DEF AcksOK
  <2> QED BY <1>1, <2>1, <2>2
<1>5. deltas' \in Seq(Shadow \ {Empty})
  BY <1>1
<1> QED BY <1>1, <1>2, <1>3, <1>4, <1>5, SyncAssumption DEF Typed, StatementsOK, AnswersOK, Flags

LEMMA OtaCompletesTyped == Typed /\ OtaCompletes => Typed'
<1> SUFFICES ASSUME Typed, OtaCompletes PROVE Typed'
  OBVIOUS
<1>1. ota.target \in Firmwares /\ OtaOK'
  BY DEF OtaCompletes, Typed, OtaOK, Phases
<1> DEFINE a == [Empty EXCEPT !.firmware = ota.target]
<1>2. a \in Shadow /\ a.firmware = ota.target
  BY <1>1 DEF Empty, Shadow
<1>3. Publish(Unversioned("firmware", a))
  BY DEF OtaCompletes, PublishComplete
<1> HIDE DEF a
<1>4. Unversioned("firmware", a) \in Statements /\ Unversioned("firmware", a).arg = a
  BY <1>2, UnversionedTyped
<1>5. StatementsOK'
  BY <1>1, <1>2, <1>3, <1>4, PublishTyped DEF Typed
<1> QED BY <1>1, <1>5 DEF OtaCompletes, storeRest, Typed, AnswersOK, AcksOK, Flags

LEMMA OtaReportsTyped == Typed /\ OtaReports => Typed'
<1> SUFFICES ASSUME Typed, OtaReports PROVE Typed'
  OBVIOUS
<1>1. ota.target \in Firmwares /\ OtaOK'
  BY DEF OtaReports, Typed, OtaOK, Phases
<1>2. device' \in [plain : Plain, firmware : Firmwares]
  BY <1>1 DEF OtaReports, Typed
<1>3. StatementsOK' /\ unheard' \in BOOLEAN
  BY <1>2, ReportTyped DEF OtaReports, Typed, Flags
<1>4. AcksOK'
  <2> DEFINE a == [then |-> "ota", target |-> None]
  <2>1. a \in Acks /\ a.then # "delta" /\ acks' = Append(acks, a)
    BY DEF Acks, OtaReports
  <2> HIDE DEF a
  <2>2. /\ acks' \in Seq(Acks) /\ Len(acks') = Len(acks) + 1
        /\ \A j \in 1 .. Len(acks) : acks'[j] = acks[j]
        /\ acks'[Len(acks) + 1] = a
    BY <2>1, Appended DEF Typed, AcksOK
  <2>3. \A j \in DOMAIN acks' : j \in 1 .. Len(acks) \/ j = Len(acks) + 1
    BY <2>2
  <2> QED BY <2>1, <2>2, <2>3 DEF Typed, AcksOK
<1> QED BY <1>1, <1>2, <1>3, <1>4 DEF OtaReports, storeRest, Typed, AnswersOK, Flags

LEMMA RequestTyped == Typed /\ ServerRequest => Typed'
<1> SUFFICES ASSUME Typed, ServerRequest PROVE Typed'
  OBVIOUS
<1>1. PICK s \in Statements :
         /\ s.op \in {"patch", "set"} /\ Send(s) /\ Event
         /\ UNCHANGED <<row, answers, subscribed, deltas, device, announce, ota, acks, up, unheard>>
  <2>1. ASSUME NEW v \in Plain, PatchShadow(v)
        PROVE  \E s \in Statements : /\ s.op \in {"patch", "set"} /\ Send(s) /\ Event
                                     /\ UNCHANGED <<row, answers, subscribed, deltas>>
    <3> DEFINE s == [op |-> "patch", arg |-> [Empty EXCEPT !.plain = v],
                     version |-> row.version, seen |-> row.desired]
    <3>1. [Empty EXCEPT !.plain = v] \in Shadow
      BY DEF Empty, Shadow
    <3>2. s \in Statements /\ s.op = "patch"
      BY <3>1 DEF Statements, Typed, Rows
    <3> QED BY <2>1, <3>2 DEF PatchShadow
  <2>2. ASSUME NEW v \in Firmwares, Deploy(v)
        PROVE  \E s \in Statements : /\ s.op \in {"patch", "set"} /\ Send(s) /\ Event
                                     /\ UNCHANGED <<row, answers, subscribed, deltas>>
    <3>1. [Empty EXCEPT !.firmware = v] \in Shadow
      BY DEF Empty, Shadow
    <3> QED BY <2>2, <3>1, UnversionedTyped DEF Deploy
  <2> QED BY <2>1, <2>2 DEF ServerRequest, Request, StoreUnchanged
<1>2. StatementsOK' /\ events' \in 0 .. MaxEvents
  BY <1>1, SendTyped, EventTyped DEF Typed
<1> QED BY <1>1, <1>2 DEF Typed, AnswersOK, AcksOK, OtaOK, Flags

LEMMA RowEdited ==
    ASSUME NEW r \in Rows, NEW d \in Shadow
    PROVE  [r EXCEPT !.desired = d, !.version = @ + 1] \in Rows
<1>1. r.version + 1 \in Nat
  BY DEF Rows
<1> QED BY <1>1 DEF Rows

(* What a statement that runs does to the row, whichever it is. *)
LEMMA StatementTyped ==
    ASSUME Typed, NEW i \in DOMAIN statements, Statement(statements[i])
    PROVE  /\ row' \in Rows /\ AnswersOK'
           /\ UNCHANGED <<events, subscribed, deltas>>
<1> DEFINE s == statements[i]
<1>1. s \in Statements /\ (s.op = "firmware" => s.arg.firmware \in Firmwares)
  BY MembersOfSeq DEF Typed, StatementsOK
<1>2. Statement(s)
  OBVIOUS
<1> HIDE DEF s
<1>3. s.arg \in Shadow /\ Merge(row.desired, s.arg) \in Shadow
  BY <1>1, MergeShadow DEF Statements, Typed, Rows
<1>4. CASE PatchDesired(s) \/ SetDesired(s)
  <2>1. [row EXCEPT !.desired = Merge(@, s.arg), !.version = @ + 1] \in Rows
    BY <1>3, RowEdited DEF Typed
  <2> QED BY <1>4, <2>1, LeavesTyped DEF PatchDesired, SetDesired, Typed
<1>5. CASE ApplyReported(s)
  <2>1. [row EXCEPT !.reported = s.arg] \in Rows
    BY <1>3 DEF Typed, Rows
  <2> QED BY <1>5, <2>1, LeavesTyped DEF ApplyReported, Typed
<1>6. CASE Refresh(s)
  BY <1>6, LeavesTyped DEF Refresh, Typed
<1>7. CASE VersionConflict(s)
  BY <1>7 DEF VersionConflict, Typed, AnswersOK
<1>8. CASE UpdateFirmwareVersion(s)
  BY <1>1, <1>8 DEF UpdateFirmwareVersion, Typed, AnswersOK, Rows
<1> QED BY <1>2, <1>4, <1>5, <1>6, <1>7, <1>8 DEF Statement

LEMMA DatabaseTyped == Typed /\ ServerDatabase => Typed'
<1> SUFFICES ASSUME Typed, ServerDatabase PROVE Typed'
  OBVIOUS
<1>1. PICK i \in DOMAIN statements :
         Statement(statements[i]) /\ statements' = RemoveAt(statements, i)
  BY DEF ServerDatabase, DatabaseStep, Running
<1>2. StatementsOK' /\ row' \in Rows /\ AnswersOK' /\ UNCHANGED <<events, subscribed, deltas>>
  BY <1>1, RunTyped, StatementTyped DEF Typed
<1> QED BY <1>2 DEF ServerDatabase, StoreUnchanged, Typed, AcksOK, OtaOK, Flags

LEMMA EmitTyped == Typed /\ ServerEmit => Typed'
<1> SUFFICES ASSUME Typed, ServerEmit PROVE Typed'
  OBVIOUS
<1>1. PICK delta \in BagToSet(answers) : Emit(delta)
  BY DEF ServerEmit, EmitStep
<1>2. AnswersOK' /\ delta \in Shadow \ {Empty}
  BY <1>1, BagSub DEF Emit, Typed, AnswersOK
<1>3. deltas' \in Seq(Shadow \ {Empty})
  BY <1>1, <1>2, Appended DEF Emit, Typed
<1> QED BY <1>1, <1>2, <1>3 DEF ServerEmit, StoreUnchanged, Emit, Typed, StatementsOK, AcksOK, OtaOK, Flags

LEMMA FailsTyped == Typed /\ (ServerStatementFails \/ ServerAnswerLost) => Typed'
<1> SUFFICES ASSUME Typed, ServerStatementFails \/ ServerAnswerLost PROVE Typed'
  OBVIOUS
<1>1. /\ UNCHANGED <<row, subscribed, deltas, device, announce, ota, acks, up>>
      /\ unheard' \in BOOLEAN /\ events' \in 0 .. MaxEvents
  BY EventTyped DEF ServerStatementFails, StatementFails, ServerAnswerLost, AnswerLost,
                    Typed, Flags
<1>2. StatementsOK' /\ AnswersOK'
  <2>1. CASE ServerStatementFails
    <3>1. PICK i \in DOMAIN statements :
             statements' = RemoveAt(statements, i) /\ answers' = answers
      BY <2>1 DEF ServerStatementFails, StatementFails, Running
    <3> QED BY <3>1, RunTyped DEF Typed, AnswersOK
  <2>2. CASE ServerAnswerLost
    <3>1. PICK delta \in BagToSet(answers) :
             answers' = answers (-) SetToBag({delta}) /\ statements' = statements
      BY <2>2 DEF ServerAnswerLost, AnswerLost
    <3> QED BY <3>1, BagSub DEF Typed, StatementsOK, AnswersOK
  <2> QED BY <2>1, <2>2
<1> QED BY <1>1, <1>2 DEF Typed, AcksOK, OtaOK, Flags

LEMMA ServerTyped == Typed /\ (ServerStops \/ ServerStarts) => Typed'
<1> SUFFICES ASSUME Typed, ServerStops \/ ServerStarts PROVE Typed'
  OBVIOUS
<1>1. StatementsOK'
  <2>1. /\ Unversioned("refresh", Empty) \in Statements
        /\ Unversioned("refresh", Empty).op = "refresh"
    BY ShadowKeys, UnversionedTyped
  <2>2. CASE statements' = << >>
    BY <2>2 DEF StatementsOK
  <2>3. CASE statements' = << Unversioned("refresh", Empty) >>
    <3>1. /\ statements' \in Seq(Statements) /\ Len(statements') = 1
          /\ statements'[1] = Unversioned("refresh", Empty)
      BY <2>1, <2>3
    <3>2. \A j \in DOMAIN statements' : j = 1
      BY <3>1
    <3> QED BY <2>1, <3>1, <3>2 DEF StatementsOK
  <2> QED BY <2>2, <2>3 DEF ServerStops, ServerStarts
<1>2. AnswersOK' /\ events' \in 0 .. MaxEvents
  BY BagEmpty, EventTyped DEF ServerStops, ServerStarts, storeRest, Typed, AnswersOK
<1> QED BY <1>1, <1>2 DEF ServerStops, ServerStarts, storeRest, Typed, AcksOK, OtaOK, Flags

LEMMA NextTyped == Typed /\ [Next]_vars => Typed'
<1>1. Typed /\ UNCHANGED vars => Typed'
  BY DEF vars, storeVars, Typed, StatementsOK, AnswersOK, AcksOK, OtaOK, Flags
<1> QED BY <1>1, ConnectTyped, AnnounceTyped, HandleDeltaTyped, AckedTyped, LostTyped,
           OtaCompletesTyped, OtaReportsTyped, RequestTyped, DatabaseTyped, EmitTyped,
           FailsTyped, ServerTyped DEF Next

-----------------------------------------------------------------------------
(* What a step does to the statements: it adds one (or, with the server      *)
(* down, none), or one runs.                                                 *)

Added(s) ==
    /\ \A j \in DOMAIN statements : j \in DOMAIN statements' /\ statements'[j] = statements[j]
    /\ \A j \in DOMAIN statements' : j \in DOMAIN statements \/ statements'[j] = s

LEMMA SendAdds ==
    ASSUME StatementsOK, NEW s \in Statements, Send(s)
    PROVE  Added(s) /\ Len(statements) + 1 \in DOMAIN statements'
           /\ statements'[Len(statements) + 1] = s
           /\ \A j \in DOMAIN statements' : j <= Len(statements) + 1
<1>1. /\ statements' \in Seq(Statements) /\ Len(statements') = Len(statements) + 1
      /\ \A j \in 1 .. Len(statements) : statements'[j] = statements[j]
      /\ statements'[Len(statements) + 1] = s
  BY Appended DEF Send, StatementsOK
<1>2. \A j \in DOMAIN statements' : j \in 1 .. Len(statements) \/ j = Len(statements) + 1
  BY <1>1
<1> QED BY <1>1, <1>2 DEF StatementsOK, Added

LEMMA PublishAdds ==
    ASSUME StatementsOK, up \in BOOLEAN, NEW s \in Statements, Publish(s)
    PROVE  Added(s) /\ (~up => statements' = statements) /\ (up => Send(s))
<1>1. CASE up
  BY <1>1, SendAdds DEF Publish
<1>2. CASE ~up
  BY <1>2 DEF Publish, Added
<1> QED BY <1>1, <1>2

LEMMA ConnectSends ==
    ASSUME Typed, Connect
    PROVE  \E s \in Statements : s.op = "refresh" /\ Publish(s)
  BY ShadowKeys, UnversionedTyped DEF Connect, PublishOnline

LEMMA CompletesSends ==
    ASSUME Typed, OtaCompletes
    PROVE  \E s \in Statements : s.op = "firmware" /\ Publish(s)
<1>1. ota.target \in Firmwares
  BY DEF OtaCompletes, Typed, OtaOK, Phases
<1>2. [Empty EXCEPT !.firmware = ota.target] \in Shadow
  BY <1>1 DEF Empty, Shadow
<1> QED BY <1>2, UnversionedTyped DEF OtaCompletes, PublishComplete

LEMMA ReportSends ==
    ASSUME Typed, Typed', Announce \/ HandleDelta \/ OtaReports
    PROVE  /\ unheard' = ~up
           /\ \E s \in Statements : s.op = "report" /\ s.arg = device' /\ Publish(s)
<1>1. PublishReported(device')
  BY DEF Announce, HandleDelta, OtaReports
<1>2. device' \in Shadow
  BY ShadowKeys DEF Typed
<1> QED BY <1>1, <1>2, UnversionedTyped DEF PublishReported

(* The statements that only the device and its server send. *)
LEMMA MessageSends ==
    ASSUME Typed, Typed', Connect \/ Announce \/ HandleDelta \/ OtaCompletes \/ OtaReports
    PROVE  \E s \in Statements :
              /\ s.op \in {"refresh", "firmware", "report"}
              /\ s.op = "report" => s.arg = device' /\ unheard' = ~up
              /\ Publish(s) /\ Added(s)
<1>1. StatementsOK /\ up \in BOOLEAN
  BY DEF Typed, Flags
<1>2. CASE Connect
  BY <1>1, <1>2, ConnectSends, PublishAdds
<1>3. CASE OtaCompletes
  BY <1>1, <1>3, CompletesSends, PublishAdds
<1>4. CASE Announce \/ HandleDelta \/ OtaReports
  BY <1>1, <1>4, ReportSends, PublishAdds
<1> QED BY <1>2, <1>3, <1>4

LEMMA RequestSends ==
    ASSUME Typed, ServerRequest
    PROVE  \E s \in Statements :
              /\ s.op \in {"patch", "set"}
              /\ s.op = "patch" => s.version = row.version /\ s.seen = row.desired
              /\ Send(s) /\ Added(s)
              /\ UNCHANGED <<row, answers, subscribed, deltas, device, announce, ota, acks, up,
                             unheard>>
<1>1. ASSUME NEW v \in Plain, PatchShadow(v)
      PROVE  \E s \in Statements : /\ s.op = "patch" /\ Send(s)
                                   /\ s.version = row.version /\ s.seen = row.desired
                                   /\ UNCHANGED <<row, answers, subscribed, deltas>>
  <2> DEFINE s == [op |-> "patch", arg |-> [Empty EXCEPT !.plain = v],
                   version |-> row.version, seen |-> row.desired]
  <2>1. [Empty EXCEPT !.plain = v] \in Shadow
    BY DEF Empty, Shadow
  <2>2. s \in Statements /\ s.op = "patch" /\ s.version = row.version /\ s.seen = row.desired
    BY <2>1 DEF Statements, Typed, Rows
  <2>3. Send(s)
    BY <1>1 DEF PatchShadow
  <2> HIDE DEF s
  <2> QED BY <1>1, <2>2, <2>3 DEF PatchShadow
<1>2. ASSUME NEW v \in Firmwares, Deploy(v)
      PROVE  \E s \in Statements : /\ s.op = "set" /\ Send(s)
                                   /\ UNCHANGED <<row, answers, subscribed, deltas>>
  <2>1. [Empty EXCEPT !.firmware = v] \in Shadow
    BY DEF Empty, Shadow
  <2> QED BY <1>2, <2>1, UnversionedTyped DEF Deploy
<1>3. \A s \in Statements : Send(s) => Added(s)
  BY SendAdds DEF Typed
<1> QED BY <1>1, <1>2, <1>3 DEF ServerRequest, Request, StoreUnchanged

Gone(i) ==
    /\ \A j \in DOMAIN statements' :
          /\ j \in DOMAIN statements /\ j + 1 \in DOMAIN statements
          /\ statements'[j] = IF j < i THEN statements[j] ELSE statements[j + 1]
    /\ \A j \in DOMAIN statements : j # i =>
          \E k \in DOMAIN statements' : statements'[k] = statements[j]
    /\ \A j \in DOMAIN statements : /\ j < i => j \in DOMAIN statements'
                                    /\ i < j => j - 1 \in DOMAIN statements'

LEMMA RemovedGone ==
    ASSUME Typed, NEW i \in DOMAIN statements, statements' = RemoveAt(statements, i)
    PROVE  Gone(i)
<1>1. /\ Len(statements') = Len(statements) - 1
      /\ \A j \in DOMAIN statements' :
            /\ j \in DOMAIN statements /\ j + 1 \in DOMAIN statements
            /\ statements'[j] = IF j < i THEN statements[j] ELSE statements[j + 1]
      /\ StatementsOK'
  BY RunTyped DEF Typed
<1>2. \A j \in DOMAIN statements : /\ j < i => j \in DOMAIN statements'
                                   /\ i < j => j - 1 \in DOMAIN statements'
  BY <1>1 DEF StatementsOK, Typed
<1>3. \A j \in DOMAIN statements : j # i =>
         \E k \in DOMAIN statements' : statements'[k] = statements[j]
  <2> SUFFICES ASSUME NEW j \in DOMAIN statements, j # i
               PROVE  \E k \in DOMAIN statements' : statements'[k] = statements[j]
    OBVIOUS
  <2>1. CASE j < i
    <3>1. j \in DOMAIN statements' /\ statements'[j] = statements[j]
      BY <1>1, <1>2, <2>1
    <3> QED BY <3>1
  <2>2. CASE i < j
    <3>1. /\ j - 1 \in DOMAIN statements' /\ ~(j - 1 < i) /\ (j - 1) + 1 = j
      BY <1>1, <2>2 DEF StatementsOK, Typed
    <3>2. statements'[j - 1] = statements[j]
      BY <1>1, <3>1
    <3> QED BY <3>1, <3>2
  <2>3. i \in Nat /\ j \in Nat
    BY DEF Typed, StatementsOK
  <2> QED BY <2>1, <2>2, <2>3
<1> QED BY <1>1, <1>2, <1>3 DEF Gone

Runs(i) ==
    /\ statements[i] \in Statements
    /\ Statement(statements[i])
    /\ Gone(i)
    /\ UNCHANGED <<events, subscribed, deltas, device, announce, ota, acks, up, unheard>>

LEMMA DatabaseRuns == ASSUME Typed, ServerDatabase PROVE \E i \in DOMAIN statements : Runs(i)
<1>1. PICK i \in DOMAIN statements :
         Statement(statements[i]) /\ statements' = RemoveAt(statements, i)
  BY DEF ServerDatabase, DatabaseStep, Running
<1>2. UNCHANGED <<events, subscribed, deltas>> /\ statements[i] \in Statements
  BY <1>1, StatementTyped, MembersOfSeq DEF Typed, StatementsOK
<1> QED BY <1>1, <1>2, RemovedGone DEF ServerDatabase, StoreUnchanged, Runs

(* What is left alone when a query rejects. *)
LEMMA FailsGone ==
    ASSUME Typed, ServerStatementFails
    PROVE  \E i \in DOMAIN statements :
              /\ Gone(i)
              /\ UNCHANGED <<row, answers, subscribed, deltas, device, announce, ota, acks, up>>
              /\ unheard \/ statements[i].op \in {"report", "refresh"} => 
                    unheard' \/ (~unheard /\ LastReportQueued(statements'))
<1>1. PICK i \in DOMAIN statements :
         /\ StatementFails(i)
         /\ unheard' = (\/ unheard
                        \/ /\ statements[i].op \in {"report", "refresh"}
                           /\ ~LastReportQueued(statements'))
  BY DEF ServerStatementFails, Running
<1>2. Gone(i)
  BY <1>1, RemovedGone DEF StatementFails
<1> QED BY <1>1, <1>2 DEF ServerStatementFails, StatementFails, Typed, Flags

LEMMA LostGone ==
    ASSUME Typed, ServerAnswerLost
    PROVE  /\ UNCHANGED <<row, statements, subscribed, deltas, device, announce, ota, acks, up>>
           /\ BagToSet(answers') \subseteq BagToSet(answers) /\ BagToSet(answers) # {}
           /\ unheard' \/ LastReportQueued(statements)
<1>1. PICK delta \in BagToSet(answers) :
         answers' = answers (-) SetToBag({delta}) /\ UNCHANGED <<row, statements, subscribed, deltas>>
  BY DEF ServerAnswerLost, AnswerLost
<1> QED BY <1>1, BagSub DEF ServerAnswerLost, Typed, AnswersOK

(* What a statement does to the row and to the answers. *)
Answered ==
    BagToSet(answers') =
        BagToSet(answers) \cup ({Delta(row'.desired, row'.reported)} \ {Empty})
Edits(s) ==
    /\ s.op \in {"patch", "set"} /\ (s.op = "patch" => s.version = row.version)
    /\ row'.desired = Merge(row.desired, s.arg) /\ row'.version = row.version + 1
    /\ row'.reported = row.reported /\ Answered
Stores(s) ==
    /\ s.op = "report" /\ row'.reported = s.arg
    /\ row'.desired = row.desired /\ row'.version = row.version /\ Answered
Rereads(s) == s.op = "refresh" /\ row' = row /\ Answered
Passes(s) ==
    /\ s.op \in {"patch", "firmware"} /\ answers' = answers
    /\ row'.desired = row.desired /\ row'.version = row.version /\ row'.reported = row.reported

LEMMA StatementEffect ==
    ASSUME Typed, NEW s \in Statements, Statement(s)
    PROVE  Edits(s) \/ Stores(s) \/ Rereads(s) \/ Passes(s)
<1>1. s.arg \in Shadow /\ Merge(row.desired, s.arg) \in Shadow /\ row \in Rows /\ AnswersOK
  BY MergeShadow DEF Statements, Typed, Rows
<1>2. CASE PatchDesired(s) \/ SetDesired(s)
  <2> DEFINE r == [row EXCEPT !.desired = Merge(@, s.arg), !.version = @ + 1]
  <2>1. r \in Rows
    BY <1>1, RowEdited
  <2>2. /\ r.desired = Merge(row.desired, s.arg) /\ r.version = row.version + 1
        /\ r.reported = row.reported
    BY <1>1 DEF Rows
  <2>3. Leaves(r)
    BY <1>2 DEF PatchDesired, SetDesired
  <2> HIDE DEF r
  <2>4. row' = r /\ Answered
    BY <1>1, <2>1, <2>3, LeavesTyped DEF Answered
  <2> QED BY <1>2, <2>2, <2>4 DEF PatchDesired, SetDesired, Edits
<1>3. CASE ApplyReported(s)
  <2> DEFINE r == [row EXCEPT !.reported = s.arg]
  <2>1. r \in Rows
    BY <1>1 DEF Rows
  <2>2. r.desired = row.desired /\ r.version = row.version /\ r.reported = s.arg
    BY <1>1 DEF Rows
  <2>3. Leaves(r)
    BY <1>3 DEF ApplyReported
  <2> HIDE DEF r
  <2>4. row' = r /\ Answered
    BY <1>1, <2>1, <2>3, LeavesTyped DEF Answered
  <2> QED BY <1>3, <2>2, <2>4 DEF ApplyReported, Stores
<1>4. CASE Refresh(s)
  <2>1. row' = row /\ Answered
    BY <1>1, <1>4, LeavesTyped DEF Refresh, Answered
  <2> QED BY <1>4, <2>1 DEF Refresh, Rereads
<1>5. CASE VersionConflict(s)
  BY <1>5 DEF VersionConflict, Passes
<1>6. CASE UpdateFirmwareVersion(s)
  BY <1>1, <1>6 DEF UpdateFirmwareVersion, Passes, Rows
<1> QED BY <1>2, <1>3, <1>4, <1>5, <1>6 DEF Statement

-----------------------------------------------------------------------------
(* Edits carry what was read: versions only grow, and with them what was     *)
(* read before is outdated.                                                  *)

LEMMA PatchesStep == Typed /\ Typed' /\ PatchesRead /\ [Next]_vars => PatchesRead'
<1> SUFFICES ASSUME Typed, Typed', PatchesRead, [Next]_vars PROVE PatchesRead'
  OBVIOUS
<1>1. row.version \in Nat /\ row'.version \in Nat
  BY DEF Typed, Rows
<1>2. ASSUME row' = row,
             \A j \in DOMAIN statements' :
                \/ \E i \in DOMAIN statements : statements'[j] = statements[i]
                \/ statements'[j].op # "patch"
                \/ statements'[j].version = row.version /\ statements'[j].seen = row.desired
      PROVE  PatchesRead'
  <2>1. \A j \in DOMAIN statements' : statements'[j].op = "patch" =>
            /\ statements'[j].version \in Nat
            /\ statements'[j].version <= row.version
            /\ statements'[j].version = row.version => statements'[j].seen = row.desired
    BY <1>1, <1>2 DEF PatchesRead
  <2> QED BY <1>2, <2>1 DEF PatchesRead
<1>3. CASE Connect \/ Announce \/ HandleDelta \/ OtaCompletes \/ OtaReports
  <2>1. row' = row
    BY <1>3 DEF Connect, Announce, HandleDelta, OtaCompletes, OtaReports, storeRest
  <2> QED BY <1>2, <1>3, <2>1, MessageSends DEF Added
<1>4. CASE ServerRequest
  BY <1>2, <1>4, RequestSends DEF Added
<1>5. CASE ServerDatabase
  <2>1. PICK i \in DOMAIN statements :
           /\ statements[i] \in Statements /\ Statement(statements[i])
           /\ \A j \in DOMAIN statements' :
                 \E k \in DOMAIN statements : statements'[j] = statements[k]
    BY <1>5, DatabaseRuns DEF Runs, Gone
  <2>2. CASE Edits(statements[i])
    <3>1. \A j \in DOMAIN statements' : statements'[j].op = "patch" =>
              statements'[j].version \in Nat /\ statements'[j].version < row'.version
      BY <1>1, <2>1, <2>2 DEF PatchesRead, Edits
    <3> QED BY <1>1, <3>1 DEF PatchesRead
  <2>3. CASE ~Edits(statements[i])
    <3>1. row'.version = row.version /\ row'.desired = row.desired
      BY <2>1, <2>3, StatementEffect DEF Stores, Rereads, Passes
    <3> QED BY <2>1, <3>1 DEF PatchesRead
  <2> QED BY <2>2, <2>3
<1>6. CASE ServerEmit \/ DeltaAcked \/ OtaAcked \/ OtaReboots \/ ConnectionBreaks \/ RpcReboots
           \/ DeviceRestarts \/ UNCHANGED vars
  <2>1. row' = row /\ statements' = statements
    BY <1>6 DEF ServerEmit, EmitStep, Emit, DeltaAcked, OtaAcked, OtaReboots, ConnectionBreaks,
                RpcReboots, DeviceRestarts, Disconnect, vars, storeVars
  <2> QED BY <2>1 DEF PatchesRead
<1>7. CASE ServerStops \/ ServerStarts
  <2>1. /\ row' = row
        /\ \A j \in DOMAIN statements' : statements'[j].op # "patch"
    <3>1. statements' = << >> \/ statements' = << Unversioned("refresh", Empty) >>
      BY <1>7 DEF ServerStops, ServerStarts
    <3>2. Unversioned("refresh", Empty).op = "refresh"
      BY DEF Unversioned
    <3> QED BY <1>7, <3>1, <3>2 DEF ServerStops, ServerStarts, storeRest
  <2> QED BY <1>2, <2>1
<1>8. CASE ServerStatementFails
  <2>1. row' = row /\ \E i \in DOMAIN statements : Gone(i)
    BY <1>8, FailsGone
  <2> QED BY <1>2, <2>1 DEF Gone
<1>9. CASE ServerAnswerLost
  BY <1>2, <1>9, LostGone
<1> QED BY <1>3, <1>4, <1>5, <1>6, <1>7, <1>8, <1>9 DEF Next

-----------------------------------------------------------------------------
(* A server that is down has sent nothing. *)

LEMMA DownStep == Typed /\ Typed' /\ DownIsSilent /\ [Next]_vars => DownIsSilent'
<1> SUFFICES ASSUME Typed, Typed', DownIsSilent, [Next]_vars PROVE DownIsSilent'
  OBVIOUS
<1>1. ASSUME up' = up,
             ~up => statements' = statements /\ BagToSet(answers') = BagToSet(answers)
      PROVE  DownIsSilent'
  BY <1>1 DEF DownIsSilent
<1>2. CASE Connect \/ Announce \/ HandleDelta \/ OtaCompletes \/ OtaReports
  <2>1. up' = up /\ answers' = answers
    BY <1>2 DEF Connect, Announce, HandleDelta, OtaCompletes, OtaReports, storeRest
  <2>2. ~up => statements' = statements
    BY <1>2, MessageSends DEF Publish
  <2> QED BY <1>1, <2>1, <2>2
<1>3. CASE ServerRequest
  BY <1>1, <1>3, RequestSends DEF ServerRequest
<1>4. CASE ServerDatabase
  <2>1. up' = up /\ statements # << >>
    BY <1>4, DatabaseRuns DEF Runs
  <2> QED BY <2>1 DEF DownIsSilent
<1>5. CASE ServerEmit
  <2>1. up' = up /\ BagToSet(answers) # {}
    BY <1>5 DEF ServerEmit, EmitStep, Emit, StoreUnchanged
  <2> QED BY <2>1 DEF DownIsSilent
<1>6. CASE DeltaAcked \/ OtaAcked \/ OtaReboots \/ ConnectionBreaks \/ RpcReboots
           \/ DeviceRestarts \/ UNCHANGED vars
  <2>1. UNCHANGED <<statements, answers, up>>
    BY <1>6 DEF DeltaAcked, OtaAcked, OtaReboots, ConnectionBreaks, RpcReboots, DeviceRestarts,
                Disconnect, vars, storeVars
  <2> QED BY <2>1 DEF DownIsSilent
<1>7. CASE ServerStops
  BY <1>7, BagEmpty DEF ServerStops, DownIsSilent
<1>8. CASE ServerStarts
  BY <1>8 DEF ServerStarts, DownIsSilent
<1>9. CASE ServerStatementFails
  <2>1. up' = up /\ statements # << >>
    BY <1>9, FailsGone
  <2> QED BY <2>1 DEF DownIsSilent
<1>10. CASE ServerAnswerLost
  BY <1>10, LostGone DEF DownIsSilent
<1> QED BY <1>2, <1>3, <1>4, <1>5, <1>6, <1>7, <1>8, <1>9, <1>10 DEF Next

-----------------------------------------------------------------------------
(* Who asks for nothing gets nothing: without a desired value there is no    *)
(* delta, no update and no other value than the factory's.                   *)

LEMMA DesiredStays ==
    ASSUME Typed, [Next]_vars, NEW k \in Keys, row'.desired[k] = None
    PROVE  row.desired[k] = None
<1>1. CASE row' = row
  BY <1>1
<1>2. CASE ServerDatabase
  <2>1. PICK i \in DOMAIN statements :
           statements[i] \in Statements /\ Statement(statements[i])
    BY <1>2, DatabaseRuns DEF Runs
  <2>2. CASE Edits(statements[i])
    <3>1. row.desired \in Shadow /\ statements[i].arg \in Shadow
      BY <2>1 DEF Typed, Rows, Statements
    <3>2. Merge(row.desired, statements[i].arg)[k] =
             IF statements[i].arg[k] # None THEN statements[i].arg[k] ELSE row.desired[k]
      BY <3>1, MergeShadow
    <3> QED BY <2>2, <3>2 DEF Edits
  <2>3. CASE ~Edits(statements[i])
    BY <2>1, <2>3, StatementEffect DEF Stores, Rereads, Passes
  <2> QED BY <2>2, <2>3
<1>3. row' = row \/ ServerDatabase
  BY DEF Next, Connect, Announce, HandleDelta, DeltaAcked, OtaReboots, OtaCompletes, OtaReports,
         OtaAcked, ServerRequest, Request, PatchShadow, Deploy, ServerEmit, EmitStep, Emit,
         ServerStatementFails, StatementFails, ServerAnswerLost, AnswerLost,
         ServerStops, ServerStarts, ConnectionBreaks, RpcReboots, DeviceRestarts, Disconnect,
         storeRest, vars, storeVars
<1> QED BY <1>1, <1>2, <1>3

LEMMA NoUpdateStep ==
    Typed /\ Typed' /\ Untouched /\ NoUpdateUnasked /\ [Next]_vars => NoUpdateUnasked'
<1> SUFFICES ASSUME Typed, Typed', Untouched, NoUpdateUnasked, [Next]_vars,
                    row'.desired.firmware = None
             PROVE  ota' = Idle /\ acks' = << >>
  BY DEF NoUpdateUnasked
<1>1. row.desired.firmware = None
  <2>1. "firmware" \in Keys
    BY DEF Keys
  <2> QED BY <2>1, DesiredStays
<1>2. ota = Idle /\ acks = << >>
  BY <1>1 DEF NoUpdateUnasked
<1>3. CASE HandleDelta
  <2>1. Head(deltas) \in Range(deltas)
    BY <1>3 DEF HandleDelta, Typed, Range
  <2>2. Head(deltas).firmware = None
    BY <1>1, <2>1 DEF Untouched, Keys
  <2> QED BY <1>2, <1>3, <2>2 DEF HandleDelta, Trigger
<1>4. CASE Connect \/ Announce \/ ServerRequest \/ ServerDatabase \/ ServerEmit
           \/ ServerStatementFails \/ ServerAnswerLost \/ ServerStops
           \/ ServerStarts \/ ConnectionBreaks \/ RpcReboots \/ DeviceRestarts \/ UNCHANGED vars
  BY <1>2, <1>4, IdleOK DEF Connect, Announce, ServerRequest, ServerDatabase, ServerEmit,
     ServerStatementFails, ServerAnswerLost, ServerStops, ServerStarts, ConnectionBreaks, RpcReboots, DeviceRestarts, StoreUnchanged, vars
<1>5. ~(DeltaAcked \/ OtaAcked \/ OtaReboots \/ OtaCompletes \/ OtaReports)
  BY <1>2, IdleOK DEF DeltaAcked, OtaAcked, OtaReboots, OtaCompletes, OtaReports
<1> QED BY <1>3, <1>4, <1>5 DEF Next

LEMMA UntouchedStep ==
    Typed /\ Typed' /\ Untouched /\ NoUpdateUnasked /\ [Next]_vars => Untouched'
<1> SUFFICES ASSUME Typed, Typed', Untouched, NoUpdateUnasked, [Next]_vars,
                    NEW k \in Keys, row'.desired[k] = None
             PROVE  /\ device'[k] = Factory[k] /\ row'.reported[k] = Factory[k]
                    /\ \A j \in Reports' : statements'[j].arg[k] = Factory[k]
                    /\ \A delta \in BagToSet(answers') \cup Range(deltas') : delta[k] = None
  BY DEF Untouched
<1>1. /\ row.desired[k] = None
      /\ device[k] = Factory[k] /\ row.reported[k] = Factory[k]
      /\ \A i \in Reports : statements[i].arg[k] = Factory[k]
      /\ \A delta \in BagToSet(answers) \cup Range(deltas) : delta[k] = None
  BY DesiredStays DEF Untouched
(* The device. *)
<1>2. device'[k] = Factory[k]
  <2>1. CASE HandleDelta
    <3>1. Head(deltas) \in Range(deltas)
      BY <2>1 DEF HandleDelta, Typed, Range
    <3>2. Head(deltas)[k] = None
      BY <1>1, <3>1
    <3> QED BY <1>1, <2>1, <3>2 DEF HandleDelta, Adopted, Keys, Typed
  <2>2. CASE OtaReports
    <3>1. k # "firmware"
      BY <1>1, <2>2, IdleOK DEF NoUpdateUnasked, OtaReports
    <3> QED BY <1>1, <2>2, <3>1 DEF OtaReports, Keys, Typed
  <2>3. CASE DeviceRestarts
    BY <2>3 DEF DeviceRestarts
  <2>4. CASE device' = device
    BY <1>1, <2>4
  <2> QED BY <2>1, <2>2, <2>3, <2>4
          DEF Next, Connect, Announce, DeltaAcked, OtaReboots, OtaCompletes, OtaAcked,
              ServerRequest, ServerDatabase, ServerEmit, ServerStatementFails,
              ServerAnswerLost, ServerStops, ServerStarts,
              ConnectionBreaks, RpcReboots, StoreUnchanged, vars
(* Its reports. *)
<1>3. \A j \in Reports' : statements'[j].arg[k] = Factory[k]
  <2>1. ASSUME NEW s, s.op = "report" => s.arg[k] = Factory[k], Added(s)
        PROVE  \A j \in Reports' : statements'[j].arg[k] = Factory[k]
    BY <1>1, <2>1 DEF Added, Reports
  <2>2. CASE Connect \/ Announce \/ HandleDelta \/ OtaCompletes \/ OtaReports
    BY <1>2, <2>1, <2>2, MessageSends
  <2>3. CASE ServerRequest
    BY <2>1, <2>3, RequestSends
  <2>4. CASE ServerDatabase \/ ServerStatementFails
    <3>1. \E i \in DOMAIN statements : Gone(i)
      BY <2>4, DatabaseRuns, FailsGone DEF Runs
    <3> QED BY <1>1, <3>1 DEF Reports, Gone
  <2>5. CASE statements' = statements
    BY <1>1, <2>5 DEF Reports
  <2>6. CASE ServerStops \/ ServerStarts
    <3>1. statements' = << >> \/ statements' = << Unversioned("refresh", Empty) >>
      BY <2>6 DEF ServerStops, ServerStarts
    <3>2. Unversioned("refresh", Empty).op = "refresh"
      BY DEF Unversioned
    <3> QED BY <3>1, <3>2 DEF Reports
  <2> QED BY <2>2, <2>3, <2>4, <2>5, <2>6
          DEF Next, DeltaAcked, OtaReboots, OtaAcked, ServerEmit, EmitStep, Emit,
              ServerAnswerLost, AnswerLost, ConnectionBreaks, RpcReboots, DeviceRestarts, Disconnect, vars, storeVars
(* The row and the deltas. *)
<1>4. CASE ServerDatabase
  <2>1. PICK i \in DOMAIN statements :
           /\ statements[i] \in Statements /\ Statement(statements[i]) /\ deltas' = deltas
    BY <1>4, DatabaseRuns DEF Runs
  <2>2. row'.reported[k] = Factory[k]
    BY <1>1, <2>1, StatementEffect DEF Edits, Stores, Rereads, Passes, Reports
  <2>3. CASE answers' = answers
    BY <1>1, <1>2, <1>3, <2>1, <2>2, <2>3
  <2>4. CASE Answered
    <3>1. row'.desired \in Shadow /\ row'.reported \in Shadow
      BY DEF Typed, Rows
    <3>2. Delta(row'.desired, row'.reported)[k] = None
      BY <3>1, DeltaShadow
    <3> QED BY <1>1, <1>2, <1>3, <2>1, <2>2, <2>4, <3>2 DEF Answered
  <2> QED BY <2>1, <2>3, <2>4, StatementEffect DEF Edits, Stores, Rereads, Passes
<1>5. CASE ServerEmit
  <2>1. PICK delta \in BagToSet(answers) : Emit(delta)
    BY <1>5 DEF ServerEmit, EmitStep
  <2>2. row' = row /\ BagToSet(answers') \subseteq BagToSet(answers)
    BY <2>1, BagSub DEF Emit, Typed, AnswersOK
  <2>3. Range(deltas') \subseteq Range(deltas) \cup {delta}
    <3>1. CASE deltas' = deltas
      BY <3>1
    <3>2. CASE deltas' = Append(deltas, delta)
      BY <3>2 DEF Range, Typed
    <3> QED BY <2>1, <3>1, <3>2 DEF Emit
  <2> QED BY <1>1, <1>2, <1>3, <2>1, <2>2, <2>3
<1>6. CASE ServerAnswerLost
  BY <1>1, <1>2, <1>3, <1>6, LostGone
<1>7. CASE ~ServerDatabase /\ ~ServerEmit /\ ~ServerAnswerLost
  <2>1. /\ row' = row
        /\ answers' = answers \/ answers' = EmptyBag
        /\ deltas' = deltas \/ deltas' = << >> \/ (deltas # << >> /\ deltas' = Tail(deltas))
    BY <1>7 DEF Next, Connect, Announce, HandleDelta, DeltaAcked, OtaReboots, OtaCompletes,
       OtaReports, OtaAcked, ServerRequest, Request, PatchShadow, Deploy, ServerStops, ServerStarts,
       ServerStatementFails, StatementFails, ConnectionBreaks, RpcReboots, DeviceRestarts, Disconnect, storeRest, vars, storeVars
  <2>2. BagToSet(answers') \subseteq BagToSet(answers)
    BY <2>1, BagEmpty
  <2>3. Range(deltas') \subseteq Range(deltas)
    BY <2>1 DEF Range, Typed
  <2> QED BY <1>1, <1>2, <1>3, <2>1, <2>2, <2>3
<1> QED BY <1>4, <1>5, <1>6, <1>7

-----------------------------------------------------------------------------
(* Acknowledgements come in turn. *)

LEMMA AcksKept ==
    ASSUME AcksInTurn, acks' = acks, device'.firmware = device.firmware,
           ota'.phase # "reporting" => ota.phase # "reporting"
    PROVE  AcksInTurn'
  BY DEF AcksInTurn, OtaAcks

LEMMA AcksAdded ==
    ASSUME AcksOK, NEW a \in Acks, acks' = Append(acks, a)
    PROVE  /\ \A j \in DOMAIN acks : j \in DOMAIN acks' /\ acks'[j] = acks[j]
           /\ Len(acks) + 1 \in DOMAIN acks' /\ acks'[Len(acks) + 1] = a
           /\ \A j \in DOMAIN acks' : j \in DOMAIN acks \/ j = Len(acks) + 1
           /\ \A j \in DOMAIN acks : j < Len(acks) + 1
<1>1. /\ acks' \in Seq(Acks) /\ Len(acks') = Len(acks) + 1
      /\ \A j \in 1 .. Len(acks) : acks'[j] = acks[j]
      /\ acks'[Len(acks) + 1] = a
  BY Appended DEF AcksOK
<1>2. \A j \in DOMAIN acks' : j \in 1 .. Len(acks) \/ j = Len(acks) + 1
  BY <1>1
<1> QED BY <1>1, <1>2 DEF AcksOK

LEMMA AcksTaken ==
    ASSUME AcksOK, acks # << >>, acks' = Tail(acks)
    PROVE  /\ Head(acks) = acks[1] /\ 1 \in DOMAIN acks
           /\ \A j \in DOMAIN acks' : j + 1 \in DOMAIN acks /\ acks'[j] = acks[j + 1] /\ j \in Nat
           /\ \A j \in DOMAIN acks : j # 1 => j - 1 \in DOMAIN acks' /\ acks'[j - 1] = acks[j]
<1>1. /\ acks \in Seq(Acks) /\ acks' \in Seq(Acks) /\ Len(acks') = Len(acks) - 1
      /\ Head(acks) = acks[1] /\ 1 \in 1 .. Len(acks)
      /\ \A j \in 1 .. Len(acks) - 1 : acks'[j] = acks[j + 1]
  BY Shortened DEF AcksOK
<1>2. \A j \in 1 .. Len(acks) : j # 1 => j - 1 \in 1 .. Len(acks) - 1 /\ (j - 1) + 1 = j
  BY <1>1
<1>3. \A j \in 1 .. Len(acks) - 1 : j + 1 \in 1 .. Len(acks) /\ j \in Nat
  BY <1>1
<1>4. \A j \in 1 .. Len(acks) : j # 1 => acks'[j - 1] = acks[j]
  BY <1>1, <1>2
<1>5. DOMAIN acks = 1 .. Len(acks) /\ DOMAIN acks' = 1 .. Len(acks) - 1
  BY <1>1
<1> QED BY <1>1, <1>2, <1>3, <1>4, <1>5

LEMMA AcksStep == Typed /\ Typed' /\ AcksInTurn /\ [Next]_vars => AcksInTurn'
<1> SUFFICES ASSUME Typed, Typed', AcksInTurn, [Next]_vars PROVE AcksInTurn'
  OBVIOUS
<1>1. ASSUME acks' = << >> PROVE AcksInTurn'
  BY <1>1 DEF AcksInTurn, OtaAcks
<1>2. CASE Connect \/ Announce \/ OtaCompletes \/ ServerRequest \/ ServerDatabase \/ ServerEmit
           \/ ServerStatementFails \/ ServerAnswerLost \/ ServerStops \/ ServerStarts \/ ConnectionBreaks \/ UNCHANGED vars
  <2>1. /\ acks' = acks /\ device' = device
        /\ ota'.phase # "reporting" => ota.phase # "reporting"
    BY <1>2 DEF Connect, Announce, OtaCompletes, ServerRequest, ServerDatabase, ServerEmit,
       ServerStatementFails, ServerAnswerLost, ServerStops, ServerStarts, ConnectionBreaks, StoreUnchanged, vars, Typed, OtaOK
  <2> QED BY <2>1, AcksKept
<1>3. CASE OtaReboots \/ RpcReboots \/ DeviceRestarts
  BY <1>1, <1>3 DEF OtaReboots, RpcReboots, DeviceRestarts
<1>4. CASE HandleDelta
  <2>1. ota' = ota /\ device'.firmware = device.firmware
    BY <1>4 DEF HandleDelta, Adopted, Typed
  <2>2. CASE acks' = acks
    BY <2>1, <2>2, AcksKept
  <2>3. CASE acks' # acks
    <3> DEFINE a == [then |-> "delta", target |-> Trigger(Head(deltas))]
    <3>1. /\ acks' = Append(acks, a)
          /\ a.then = "delta" /\ a.target # None
      BY <1>4, <2>3 DEF HandleDelta
    <3>2. a.target \in Firmwares \cup {None} /\ a.target # device.firmware
      <4>1. Head(deltas) \in Shadow
        BY <1>4 DEF HandleDelta, Typed
      <4> QED BY <3>1, <4>1 DEF Trigger, Shadow
    <3>3. a \in Acks
      BY <3>2 DEF Acks
    <3> HIDE DEF a
    <3>4. /\ \A j \in DOMAIN acks : j \in DOMAIN acks' /\ acks'[j] = acks[j]
          /\ \A j \in DOMAIN acks' : j \in DOMAIN acks \/ acks'[j] = a
      BY <3>1, <3>3, AcksAdded DEF Typed
    <3> QED BY <2>1, <3>1, <3>2, <3>4 DEF AcksInTurn, OtaAcks
  <2> QED BY <2>2, <2>3
<1>5. CASE OtaReports
  <2> DEFINE a == [then |-> "ota", target |-> None]
  <2>1. a \in Acks /\ a.then = "ota" /\ acks' = Append(acks, a)
    BY <1>5 DEF OtaReports, Acks
  <2>2. OtaAcks = {} /\ ota'.phase = "reporting"
    BY <1>5 DEF OtaReports, AcksInTurn, Typed, OtaOK
  <2> HIDE DEF a
  <2>3. /\ \A j \in DOMAIN acks : j \in DOMAIN acks' /\ acks'[j] = acks[j]
        /\ Len(acks) + 1 \in DOMAIN acks' /\ acks'[Len(acks) + 1] = a
        /\ \A j \in DOMAIN acks' : j \in DOMAIN acks \/ j = Len(acks) + 1
        /\ \A j \in DOMAIN acks : j < Len(acks) + 1
    BY <2>1, AcksAdded DEF Typed
  <2>4. OtaAcks' = {Len(acks) + 1}
    BY <2>1, <2>2, <2>3 DEF OtaAcks
  <2>5. \A i \in DOMAIN acks' : acks'[i].then = "delta" => i < Len(acks) + 1
    BY <2>1, <2>3
  <2> QED BY <2>2, <2>4, <2>5 DEF AcksInTurn
<1>6. CASE DeltaAcked \/ OtaAcked
  <2>1. /\ Head(acks) = acks[1] /\ 1 \in DOMAIN acks
        /\ \A j \in DOMAIN acks' : j + 1 \in DOMAIN acks /\ acks'[j] = acks[j + 1] /\ j \in Nat
        /\ device' = device
    BY <1>6, AcksTaken DEF DeltaAcked, OtaAcked, Typed
  <2>2. \A j \in OtaAcks : j # 1 => j - 1 \in OtaAcks'
    <3>1. \A j \in DOMAIN acks : j # 1 => j - 1 \in DOMAIN acks' /\ acks'[j - 1] = acks[j]
      BY <1>6, AcksTaken DEF DeltaAcked, OtaAcked, Typed
    <3> QED BY <3>1 DEF OtaAcks
  <2>3. \A j \in OtaAcks' : j + 1 \in OtaAcks
    BY <2>1 DEF OtaAcks
  <2>4. \A i, j \in OtaAcks' : i = j
    <3>1. \A i, j \in OtaAcks' : i + 1 = j + 1
      BY <2>3 DEF AcksInTurn
    <3> QED BY <2>1, <3>1 DEF OtaAcks
  <2>5. \A i \in DOMAIN acks' : acks'[i].then = "delta" =>
            acks'[i].target # device'.firmware \/ \E j \in OtaAcks' : i < j
    <3> SUFFICES ASSUME NEW i \in DOMAIN acks', acks'[i].then = "delta",
                        acks'[i].target = device'.firmware
                 PROVE  \E j \in OtaAcks' : i < j
      OBVIOUS
    <3>1. PICK j \in OtaAcks : i + 1 < j
      BY <2>1 DEF AcksInTurn
    <3>2. j - 1 \in OtaAcks' /\ i < j - 1
      BY <2>1, <2>2, <3>1 DEF OtaAcks, Typed, AcksOK
    <3> QED BY <3>2
  <2>6. ota'.phase # "reporting" => OtaAcks' = {}
    <3>1. CASE DeltaAcked
      <4>1. ota'.phase # "reporting" => ota.phase # "reporting"
        BY <3>1, IdleOK DEF DeltaAcked, Typed, OtaOK
      <4> QED BY <2>3, <4>1 DEF AcksInTurn
    <3>2. CASE OtaAcked
      <4>1. 1 \in OtaAcks
        BY <2>1, <3>2 DEF OtaAcked, OtaAcks
      <4>2. \A j \in OtaAcks' : j + 1 = 1 /\ j \in Nat /\ j # 0
        BY <2>1, <2>3, <4>1 DEF AcksInTurn, OtaAcks, Typed, AcksOK
      <4> QED BY <4>2
    <3> QED BY <1>6, <3>1, <3>2
  <2> QED BY <2>4, <2>5, <2>6 DEF AcksInTurn
<1> QED BY <1>2, <1>3, <1>4, <1>5, <1>6 DEF Next

-----------------------------------------------------------------------------
(* The row follows the device. *)

(* A report has been published: it is the last one, or nobody heard it. *)
LEMMA ReportFollows ==
    ASSUME Typed, Typed', Announce \/ HandleDelta \/ OtaReports
    PROVE  TwinFollows'
<1>1. PICK s \in Statements : s.op = "report" /\ s.arg = device' /\ Publish(s) /\ unheard' = ~up
  BY ReportSends
<1>2. CASE up
  <2>1. /\ Len(statements) + 1 \in DOMAIN statements'
        /\ statements'[Len(statements) + 1] = s
        /\ \A j \in DOMAIN statements' : j <= Len(statements) + 1
    BY <1>1, <1>2, SendAdds DEF Publish, Typed
  <2>2. LastIsSent'
    BY <1>1, <2>1 DEF LastIsSent, Reports
  <2> QED BY <2>2 DEF TwinFollows
<1> QED BY <1>1, <1>2 DEF TwinFollows

(* Another statement leaves the last report where it is. *)
LEMMA OtherAdded ==
    ASSUME NEW s, s.op # "report", Added(s)
    PROVE  /\ Reports' = Reports /\ \A j \in Reports : statements'[j] = statements[j]
           /\ Refreshing => Refreshing'
  BY DEF Added, Reports, Refreshing

LEMMA SentStays ==
    ASSUME LastIsSent, Reports' = Reports, \A j \in Reports : statements'[j] = statements[j],
           Away' \/ (Away' = Away /\ device' = device)
    PROVE  TwinFollows'
  BY DEF LastIsSent, TwinFollows

LEMMA ConnectFollows ==
    ASSUME Typed, Typed', TwinFollows, Connect
    PROVE  TwinFollows'
<1> SUFFICES ASSUME ~unheard PROVE TwinFollows'
  BY DEF TwinFollows, Connect
<1>1. PICK s \in Statements : s.op = "refresh" /\ Publish(s)
  BY ConnectSends
<1>2. Added(s) /\ (up => Send(s))
  BY <1>1, PublishAdds DEF Typed, Flags
<1>3. Away' /\ up' = up
  BY DEF Connect, Away
<1>4. CASE LastIsSent
  BY <1>1, <1>2, <1>3, <1>4, OtherAdded, SentStays
<1>5. CASE LastIsStored
  <2>1. up => Refreshing'
    BY <1>1, <1>2, SendAdds DEF Refreshing, Typed
  <2> QED BY <1>3, <2>1 DEF LastIsStored, TwinFollows
<1> QED BY <1>4, <1>5 DEF TwinFollows

(* Steps that change none of what the row and the device have in common. *)
LEMMA SilentFollows ==
    ASSUME Typed, Typed', TwinFollows,
           \/ OtaCompletes \/ ServerRequest \/ DeltaAcked \/ OtaAcked \/ UNCHANGED vars
    PROVE  TwinFollows'
<1>1. /\ UNCHANGED <<row, answers, deltas, subscribed, announce, device, up, unheard>>
      /\ Reports' = Reports /\ \A j \in Reports : statements'[j] = statements[j]
      /\ Refreshing => Refreshing'
  <2>1. CASE OtaCompletes
    <3>1. PICK s \in Statements : s.op = "firmware" /\ Publish(s)
      BY <2>1, CompletesSends
    <3>2. Added(s)
      BY <3>1, PublishAdds DEF Typed, Flags
    <3> QED BY <2>1, <3>1, <3>2, OtherAdded DEF OtaCompletes, storeRest
  <2>2. CASE ServerRequest
    <3>1. PICK s \in Statements :
             /\ s.op \in {"patch", "set"} /\ Added(s)
             /\ UNCHANGED <<row, answers, subscribed, deltas, device, announce, up, unheard>>
      BY <2>2, RequestSends
    <3> QED BY <3>1, OtherAdded
  <2>3. CASE DeltaAcked \/ OtaAcked \/ UNCHANGED vars
    BY <2>3 DEF DeltaAcked, OtaAcked, vars, storeVars, Reports, Refreshing
  <2> QED BY <2>1, <2>2, <2>3
<1>2. Away' = Away /\ Pending' = Pending /\ Differs' = Differs
  BY <1>1 DEF Away, Pending, Differs
<1>3. CASE LastIsSent
  BY <1>1, <1>2, <1>3, SentStays
<1>4. CASE LastIsStored
  <2>1. LastIsStored'
    BY <1>1, <1>2, <1>4 DEF LastIsStored
  <2> QED BY <2>1 DEF TwinFollows
<1> QED BY <1>1, <1>3, <1>4 DEF TwinFollows

LEMMA LostFollows ==
    ASSUME OtaReboots \/ ConnectionBreaks \/ RpcReboots \/ DeviceRestarts
    PROVE  TwinFollows'
<1>1. ~subscribed' /\ Away'
  BY DEF OtaReboots, ConnectionBreaks, RpcReboots, DeviceRestarts, Disconnect, Away
<1>2. LastIsStored'
  BY <1>1 DEF LastIsStored
<1> QED BY <1>2 DEF TwinFollows

LEMMA StopFollows == ASSUME ServerStops PROVE TwinFollows'
<1>1. Reports' = {} /\ ~up'
  BY DEF ServerStops, Reports
<1>2. unheard' = (row.reported # device) /\ row' = row /\ device' = device
  BY DEF ServerStops
<1>3. CASE row.reported = device
  BY <1>1, <1>2, <1>3 DEF LastIsStored, TwinFollows
<1> QED BY <1>2, <1>3 DEF TwinFollows

LEMMA StartFollows ==
    ASSUME Typed, Typed', DownIsSilent, TwinFollows, ServerStarts
    PROVE  TwinFollows'
<1> SUFFICES ASSUME ~unheard PROVE TwinFollows'
  BY DEF TwinFollows, ServerStarts
<1>1. Reports = {}
  BY DEF ServerStarts, DownIsSilent, Reports
<1>2. LastIsStored
  BY <1>1 DEF TwinFollows, LastIsSent
<1>3. /\ UNCHANGED <<row, answers, deltas, subscribed, announce, device, unheard>>
      /\ subscribed => Refreshing'
      /\ Reports' = {}
  <2>1. Unversioned("refresh", Empty).op = "refresh"
    BY DEF Unversioned
  <2>2. CASE subscribed
    <3>1. statements' = << Unversioned("refresh", Empty) >>
      BY <2>2 DEF ServerStarts
    <3>2. 1 \in DOMAIN statements' /\ \A j \in DOMAIN statements' : statements'[j].op = "refresh"
      BY <2>1, <3>1
    <3>3. statements'[1].op = "refresh"
      BY <3>2
    <3> QED BY <3>2, <3>3 DEF ServerStarts, storeRest, Refreshing, Reports
  <2>3. CASE ~subscribed
    BY <2>3 DEF ServerStarts, storeRest, Reports
  <2> QED BY <2>2, <2>3
<1>4. Away' = Away /\ Pending' = Pending /\ Differs' = Differs
  BY <1>3 DEF Away, Pending, Differs
<1>5. LastIsStored'
  BY <1>2, <1>3, <1>4 DEF LastIsStored
<1> QED BY <1>5 DEF TwinFollows

LEMMA EmitFollows ==
    ASSUME Typed, Typed', TwinFollows, ServerEmit
    PROVE  TwinFollows'
<1>1. PICK delta \in BagToSet(answers) : Emit(delta)
  BY DEF ServerEmit, EmitStep
<1>2. UNCHANGED <<row, statements, subscribed, announce, device, up, unheard>>
  BY <1>1 DEF ServerEmit, Emit, StoreUnchanged
<1>3. CASE LastIsSent
  BY <1>2, <1>3, SentStays DEF Reports, Away
<1>4. CASE LastIsStored
  <2>1. CASE subscribed
    <3>1. deltas' = Append(deltas, delta) /\ delta \in Shadow \ {Empty}
      BY <1>1, <2>1 DEF Emit, Typed, AnswersOK
    <3>2. deltas' # << >>
      BY <3>1, Appended DEF Typed
    <3>3. LastIsStored'
      BY <3>2 DEF LastIsStored, Pending
    <3> QED BY <3>3 DEF TwinFollows
  <2>2. CASE ~subscribed
    <3>1. LastIsStored'
      BY <1>2, <2>2 DEF LastIsStored, Away
    <3> QED BY <3>1 DEF TwinFollows
  <2> QED BY <2>1, <2>2
<1> QED BY <1>2, <1>3, <1>4 DEF TwinFollows

(* A statement is gone that is not the last report. *)
LEMMA OtherGone ==
    ASSUME Typed, Typed', NEW i \in DOMAIN statements, NEW last \in Reports, last # i,
           \A j \in Reports : j <= last, Away \/ statements[last].arg = device,
           Gone(i), UNCHANGED <<subscribed, announce, device>>
    PROVE  LastIsSent'
<1>1. DOMAIN statements \subseteq Nat /\ DOMAIN statements' \subseteq Nat
  BY DEF Typed, StatementsOK
<1>2. \A j \in DOMAIN statements' :
         /\ j \in DOMAIN statements /\ j + 1 \in DOMAIN statements
         /\ statements'[j] = IF j < i THEN statements[j] ELSE statements[j + 1]
  BY DEF Gone
<1>3. \A j \in DOMAIN statements : /\ j < i => j \in DOMAIN statements'
                                   /\ i < j => j - 1 \in DOMAIN statements'
  BY DEF Gone
<1>4. UNCHANGED <<subscribed, announce, device>>
  OBVIOUS
<1>5. \A j \in Reports' : IF j < i THEN j \in Reports ELSE j + 1 \in Reports
  BY <1>2 DEF Reports
<1>6. last \in DOMAIN statements /\ statements[last].op = "report"
  BY DEF Reports
<1>7. CASE last < i
  <2>1. last \in DOMAIN statements' /\ statements'[last] = statements[last]
    BY <1>1, <1>6, <1>7, <1>2, <1>3
  <2>2. \A j \in Reports' : j <= last
    <3> TAKE j \in Reports'
    <3>1. j \in Nat
      BY <1>1 DEF Reports
    <3> QED BY <1>1, <1>5, <1>6, <1>7, <3>1
  <2> QED BY <1>6, <1>4, <2>1, <2>2 DEF LastIsSent, Reports, Away
<1>8. CASE i < last
  <2>1. /\ last - 1 \in DOMAIN statements'
        /\ statements'[last - 1] = statements[last]
    <3>1. last - 1 \in DOMAIN statements' /\ ~(last - 1 < i) /\ (last - 1) + 1 = last
      BY <1>1, <1>6, <1>8, <1>3
    <3> QED BY <1>2, <3>1
  <2>2. \A j \in Reports' : j <= last - 1
    <3> TAKE j \in Reports'
    <3>1. j \in Nat
      BY <1>1 DEF Reports
    <3> QED BY <1>1, <1>5, <1>6, <1>8, <3>1
  <2> QED BY <1>6, <1>4, <2>1, <2>2 DEF LastIsSent, Reports, Away
<1> QED BY <1>1, <1>6, <1>7, <1>8

(* An answer says what the row calls for. *)
LEMMA AnswerPending ==
    ASSUME Answered, deltas' = deltas
    PROVE  (Differs' => Pending') /\ (Pending => Pending')
  BY DEF Answered, Differs, Pending

(* An old report is stored when the row already had the last one: if no      *)
(* delta follows, the two say the same.                                      *)
LEMMA OldReportRuns ==
    ASSUME Typed, Typed', Untouched, NEW i \in Reports, statements[i] \in Statements,
           Stores(statements[i]), ~Differs, ~Differs', row.reported = device, device' = device
    PROVE  row'.reported = device'
<1>1. /\ row.desired \in Shadow /\ row.reported \in Shadow /\ row'.reported \in Shadow
      /\ row'.desired = row.desired /\ row'.reported = statements[i].arg
  BY DEF Typed, Rows, Stores
<1>2. \A k \in Keys : row.desired[k] \in {None, row.reported[k]}
  BY <1>1, DeltaEmpty DEF Differs
<1>3. \A k \in Keys : row.desired[k] \in {None, row'.reported[k]}
  <2>1. Delta(row'.desired, row'.reported) = Empty
    BY DEF Differs
  <2> QED BY <1>1, <2>1, DeltaEmpty
<1>4. \A k \in Keys : row.desired[k] = None => row'.reported[k] = row.reported[k]
  BY <1>1 DEF Untouched
<1>5. \A k \in Keys : row'.reported[k] = row.reported[k]
  BY <1>2, <1>3, <1>4
<1> QED BY <1>1, <1>5, SameShadow

LEMMA DatabaseFollows ==
    ASSUME Typed, Typed', Untouched, TwinFollows, ServerDatabase
    PROVE  TwinFollows'
<1>1. PICK i \in DOMAIN statements : Runs(i)
  BY DatabaseRuns
<1>2. /\ Away' = Away
      /\ Reports = {} => Reports' = {}
      /\ Answered => (Differs' => Pending') /\ (Pending => Pending')
  BY <1>1, AnswerPending DEF Away, Reports, Runs, Gone
<1>3. Edits(statements[i]) \/ Stores(statements[i]) \/ Rereads(statements[i])
         \/ Passes(statements[i])
  BY <1>1, StatementEffect DEF Runs
<1>4. CASE LastIsSent
  <2>1. PICK last \in Reports : /\ \A j \in Reports : j <= last
                                /\ Away \/ statements[last].arg = device
    BY <1>4 DEF LastIsSent
  <2>2. CASE last # i
    BY <1>1, <2>1, <2>2, OtherGone DEF TwinFollows, Runs
  <2>3. CASE last = i
    <3>1. Stores(statements[i])
      BY <1>3, <2>3 DEF Reports, Edits, Rereads, Passes
    <3>2. /\ Differs' => Pending'
          /\ ~Away' => row'.reported = device'
      BY <1>1, <1>2, <2>1, <2>3, <3>1 DEF Stores, Runs
    <3>3. LastIsStored'
      BY <3>2 DEF LastIsStored
    <3> QED BY <3>3 DEF TwinFollows
  <2> QED BY <2>2, <2>3
<1>5. CASE LastIsStored
  <2>1. CASE Edits(statements[i]) \/ Rereads(statements[i])
    <3>1. row'.reported = row.reported /\ Answered
      BY <2>1 DEF Edits, Rereads
    <3>2. LastIsStored'
      BY <1>1, <1>2, <1>5, <3>1 DEF LastIsStored, Runs
    <3> QED BY <3>2 DEF TwinFollows
  <2>2. CASE Stores(statements[i])
    <3>1. i \in Reports /\ Answered
      BY <1>1, <2>2 DEF Reports, Stores, Runs
    <3>2. ASSUME ~Away', ~Pending' PROVE row'.reported = device'
      <4>1. ~Away /\ ~Pending /\ ~Differs'
        BY <1>2, <3>1, <3>2
      <4>2. row.reported = device /\ ~Differs
        BY <1>5, <3>1, <4>1 DEF LastIsStored
      <4> QED BY <1>1, <2>2, <3>1, <4>1, <4>2, OldReportRuns DEF Runs
    <3>3. LastIsStored'
      BY <1>2, <3>1, <3>2 DEF LastIsStored
    <3> QED BY <3>3 DEF TwinFollows
  <2>3. CASE Passes(statements[i])
    <3>1. /\ row'.reported = row.reported /\ Pending' = Pending /\ Differs' = Differs
          /\ Refreshing => Refreshing'
      BY <1>1, <2>3 DEF Passes, Pending, Differs, Refreshing, Runs, Gone
    <3>2. LastIsStored'
      BY <1>1, <1>2, <1>5, <3>1 DEF LastIsStored, Runs
    <3> QED BY <3>2 DEF TwinFollows
  <2> QED BY <1>3, <2>1, <2>2, <2>3
<1>6. CASE unheard
  BY <1>1, <1>6 DEF TwinFollows, Runs
<1> QED BY <1>4, <1>5, <1>6 DEF TwinFollows

(* What a rejected query loses is made up for by a report still to be        *)
(* stored, or was asked for by a client.                                     *)
LEMMA QueuedIsSent ==
    ASSUME LastReportQueued(statements'), device' = device
    PROVE  TwinFollows'
  BY DEF LastReportQueued, LastIsSent, Reports, TwinFollows

LEMMA FailsFollow ==
    ASSUME Typed, Typed', TwinFollows, ServerStatementFails
    PROVE  TwinFollows'
<1> SUFFICES ASSUME ~unheard' PROVE TwinFollows'
  BY DEF TwinFollows
<1>1. PICK i \in DOMAIN statements :
         /\ Gone(i)
         /\ UNCHANGED <<row, answers, subscribed, deltas, device, announce, ota, acks, up>>
         /\ unheard \/ statements[i].op \in {"report", "refresh"} =>
               unheard' \/ (~unheard /\ LastReportQueued(statements'))
  BY FailsGone
<1>2. CASE statements[i].op \in {"report", "refresh"}
  BY <1>1, <1>2, QueuedIsSent
<1>3. CASE statements[i].op \notin {"report", "refresh"}
  <2>1. ~unheard
    BY <1>1
  <2>2. CASE LastIsSent
    <3>1. PICK last \in Reports : /\ \A j \in Reports : j <= last
                                  /\ Away \/ statements[last].arg = device
      BY <2>2 DEF LastIsSent
    <3>2. last # i
      BY <1>3 DEF Reports
    <3> QED BY <1>1, <3>1, <3>2, OtherGone DEF TwinFollows
  <2>3. CASE LastIsStored
    <3>1. /\ Away' = Away /\ Pending' = Pending /\ Differs' = Differs
          /\ Reports = {} => Reports' = {}
          /\ Refreshing => Refreshing'
      BY <1>1, <1>3 DEF Away, Pending, Differs, Reports, Refreshing, Gone
    <3>2. LastIsStored'
      BY <1>1, <2>3, <3>1 DEF LastIsStored
    <3> QED BY <3>2 DEF TwinFollows
  <2> QED BY <2>1, <2>2, <2>3 DEF TwinFollows
<1> QED BY <1>2, <1>3

LEMMA AnswerLostFollows ==
    ASSUME Typed, ServerAnswerLost
    PROVE  TwinFollows'
<1>1. CASE unheard'
  BY <1>1 DEF TwinFollows
<1>2. CASE LastReportQueued(statements)
  <2>1. LastReportQueued(statements') /\ device' = device
    BY <1>2, LostGone
  <2> QED BY <2>1, QueuedIsSent
<1> QED BY <1>1, <1>2, LostGone

LEMMA TwinStep ==
    Typed /\ Typed' /\ DownIsSilent /\ Untouched /\ TwinFollows /\ [Next]_vars => TwinFollows'
  BY ReportFollows, ConnectFollows, SilentFollows, LostFollows, StopFollows, StartFollows,
     EmitFollows, DatabaseFollows, FailsFollow, AnswerLostFollows DEF Next

-----------------------------------------------------------------------------
(* The theorems. *)

LEMMA InitSync == Init => SyncInv
<1> SUFFICES ASSUME Init PROVE SyncInv
  OBVIOUS
<1>1. Typed
  BY InitTyped
<1>2. statements = << >> /\ acks = << >> /\ deltas = << >> /\ BagToSet(answers) = {}
  BY BagEmpty DEF Init, StoreInit
<1>3. PatchesRead /\ AcksInTurn /\ DownIsSilent /\ NoUpdateUnasked
  BY <1>2 DEF Init, StoreInit, PatchesRead, AcksInTurn, OtaAcks, DownIsSilent, Reports,
              NoUpdateUnasked
<1>4. Untouched
  BY <1>2 DEF Init, StoreInit, Untouched, Reports, Range
<1>5. ~Differs
  <2>1. row.desired = Empty /\ row.desired \in Shadow /\ row.reported \in Shadow
    BY <1>1 DEF Init, StoreInit, Typed, Rows
  <2>2. \A k \in Keys : row.desired[k] \in {None, row.reported[k]}
    BY <2>1, ShadowKeys
  <2> QED BY <2>1, <2>2, DeltaEmpty DEF Differs
<1>6. LastIsStored
  BY <1>5 DEF LastIsStored, Init, StoreInit
<1> QED BY <1>1, <1>3, <1>4, <1>6 DEF SyncInv, TwinFollows

LEMMA SyncStep == SyncInv /\ [Next]_vars => SyncInv'
<1> SUFFICES ASSUME SyncInv, [Next]_vars PROVE SyncInv'
  OBVIOUS
<1>1. Typed'
  BY NextTyped DEF SyncInv
<1>2. DownIsSilent'
  BY <1>1, DownStep DEF SyncInv
<1> QED BY <1>1, <1>2, PatchesStep, AcksStep, UntouchedStep, NoUpdateStep, TwinStep DEF SyncInv

(* The inductive invariant of a device and its shadow. *)
THEOREM SyncSafety == Spec => []SyncInv
  BY InitSync, SyncStep, PTL DEF Spec

(* The types of the rows, statements, answers and acknowledgements. *)
THEOREM SyncTypes == Spec => []SyncTypeOK
<1>1. SyncInv => SyncTypeOK
  BY TypedIsTypeOK DEF SyncInv
<1> QED BY <1>1, SyncSafety, PTL

(* When nothing is under way any more, the row holds what the device runs    *)
(* with and the device runs with what is desired (store.ts, device.ts),      *)
(* however many statements overtook one another and however often either     *)
(* side restarted, unless the server has lost something since the device's   *)
(* last report: a report while it was down or stopped, or a report, a        *)
(* refresh or a delta to a query that rejected.                              *)
THEOREM TwinIsExact == Spec => []QuietIsInSync
<1>1. SyncInv => QuietIsInSync
  <2> SUFFICES ASSUME SyncInv, Quiet, ~unheard PROVE InSync
    BY DEF QuietIsInSync
  <2>1. /\ up /\ subscribed /\ ~Away /\ ~Pending /\ ~Refreshing /\ Reports = {}
    BY BagEmpty DEF Quiet, Away, Pending, Refreshing, Reports
  <2>2. LastIsStored
    BY <2>1 DEF SyncInv, TwinFollows, LastIsSent
  <2>3. row.reported = device /\ ~Differs
    BY <2>1, <2>2 DEF LastIsStored
  <2>4. row.desired \in Shadow /\ row.reported \in Shadow /\ DOMAIN device = Keys
    BY DEF SyncInv, Typed, Rows, Keys
  <2>5. \A k \in Keys : row.desired[k] \in {None, row.reported[k]}
    BY <2>3, <2>4, DeltaEmpty DEF Differs
  <2> QED BY <2>3, <2>4, <2>5 DEF InSync
<1> QED BY <1>1, SyncSafety, PTL

(* A patch that is accepted changes the desired state its client has read    *)
(* (patchDesired's WHERE shadow_version = $3): no edit is lost.              *)
THEOREM EditsAreKept == Spec => NoLostEdit
<1> DEFINE Kept == \A i \in DOMAIN statements :
                      (/\ statements[i].op = "patch"
                       /\ statements' = RemoveAt(statements, i)
                       /\ row'.version # row.version) => row.desired = statements[i].seen
<1>1. SyncInv /\ SyncInv' /\ [Next]_vars => Kept
  <2> SUFFICES ASSUME SyncInv, SyncInv', [Next]_vars, NEW i \in DOMAIN statements,
                      statements[i].op = "patch", statements' = RemoveAt(statements, i),
                      row'.version # row.version
               PROVE  row.desired = statements[i].seen
    OBVIOUS
  <2>1. ServerDatabase
    BY DEF Next, Connect, Announce, HandleDelta, DeltaAcked, OtaReboots, OtaCompletes, OtaReports,
           OtaAcked, ServerRequest, Request, PatchShadow, Deploy, ServerEmit, EmitStep, Emit,
           ServerStatementFails, StatementFails, ServerAnswerLost, AnswerLost, ServerStops, ServerStarts, ConnectionBreaks, RpcReboots, DeviceRestarts, Disconnect,
           storeRest, vars, storeVars
  <2>2. PICK j \in DOMAIN statements :
           Statement(statements[j]) /\ statements' = RemoveAt(statements, j)
    BY <2>1 DEF ServerDatabase, DatabaseStep, Running
  <2>3. statements[j] = statements[i] /\ statements[j] \in Statements
    <3>1. statements \in Seq(Statements) /\ i \in 1 .. Len(statements) /\ j \in 1 .. Len(statements)
      BY DEF SyncInv, Typed, StatementsOK
    <3>2. RemoveAt(statements, i) = RemoveAt(statements, j)
      BY <2>2
    <3> QED BY <3>1, <3>2, SameRemoved, ElementOfSeq
  <2>4. Edits(statements[j])
    BY <2>2, <2>3, StatementEffect DEF SyncInv, Stores, Rereads, Passes
  <2>5. statements[i].version = row.version
    BY <2>3, <2>4 DEF Edits
  <2> QED BY <2>5 DEF SyncInv, PatchesRead
<1> QED BY <1>1, SyncSafety, PTL DEF Spec, NoLostEdit

(* An update starts only for a version the device does not run already       *)
(* (handleShadowDelta decides before an await and acts after it).            *)
THEOREM UpdatesNeeded == Spec => UpdatesOnlyWhenNeeded
<1>1. SyncInv /\ [Next]_vars => (ota = Idle /\ ota' # Idle => ota'.target # device.firmware)
  <2> SUFFICES ASSUME SyncInv, [Next]_vars, ota = Idle, ota' # Idle
               PROVE  ota'.target # device.firmware
    OBVIOUS
  <2>1. DeltaAcked
    BY IdleOK DEF Next, Connect, Announce, HandleDelta, DeltaAcked, OtaReboots, OtaCompletes,
       OtaReports, OtaAcked, ServerRequest, ServerDatabase, ServerEmit, ServerStatementFails,
       ServerAnswerLost, ServerStops, ServerStarts, ConnectionBreaks, RpcReboots, DeviceRestarts, StoreUnchanged, vars
  <2>2. /\ acks[1].then = "delta" /\ 1 \in DOMAIN acks
        /\ ota'.target = acks[1].target
    BY <2>1, AcksTaken DEF DeltaAcked, SyncInv, Typed
  <2>3. OtaAcks = {}
    BY IdleOK DEF SyncInv, AcksInTurn
  <2> QED BY <2>2, <2>3 DEF SyncInv, AcksInTurn
<1> QED BY <1>1, SyncSafety, PTL DEF Spec, UpdatesOnlyWhenNeeded
===============================================================================
