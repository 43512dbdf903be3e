----------------------------- MODULE IngestProof -----------------------------
(***************************************************************************)
(* The batcher, and the telemetry path around it, for every threshold, cap, *)
(* number of callers and of rows, any payloads and any clock.               *)
(*                                                                          *)
(* The key of the batcher's inductive invariant is that the buffer is the   *)
(* interval of the newest rows: everything older than it is in a batch or   *)
(* was dropped, and nothing in a batch is as young as the buffer.  The path *)
(* implements the batcher, and its invariant adds that stop() waits for     *)
(* every batch, because nothing is pushed after it; that a batch counts as  *)
(* ok only with its rows in the table; and that a row's key follows from    *)
(* its payload and the server's time when it came.                          *)
(***************************************************************************)
EXTENDS Ingest, SequenceTheorems, FiniteSetTheorems, TLAPS

-----------------------------------------------------------------------------
(* The batcher. *)

(* The rows up to n that are in none of the batches. *)
Missing(n, ts) == {r \in 1 .. n : \A i \in 1 .. Len(ts) : r \notin RowsOf(ts[i].rows)}

(* `rows` are the newest of n rows, in order, and every batch is older. *)
Newest(rows, n) ==
    /\ n \in Nat /\ rows \in Seq(Nat) /\ Len(rows) <= n
    /\ \A i \in 1 .. Len(rows) : rows[i] = n - Len(rows) + i
    /\ \A i \in 1 .. Len(tasks) : RowsOf(tasks[i].rows) \subseteq 1 .. n - Len(rows)

(* Batches are increasing and ordered among themselves. *)
TasksInOrder ==
    \A i \in 1 .. Len(tasks) :
        /\ \A p, q \in 1 .. Len(tasks[i].rows) :
              p < q => tasks[i].rows[p] < tasks[i].rows[q]
        /\ \A a \in RowsOf(tasks[i].rows) :
              \A j \in i + 1 .. Len(tasks) : \A b \in RowsOf(tasks[j].rows) : a < b

(* What a caller that called flush() may count on. *)
Promise(c) ==
    /\ calls[c].on \subseteq 1 .. Len(tasks)
    /\ calls[c].st # "idle" =>
          /\ calls[c].upTo <= pushes - Len(buffer)
          /\ \A i \in (1 .. Len(tasks)) \ calls[c].on :
                \A r \in RowsOf(tasks[i].rows) : r > calls[c].upTo
    /\ calls[c].st = "resolved" => \A i \in calls[c].on : Settled(i)

IInv ==
    /\ TypeOK
    /\ pending = 1 .. Len(tasks)
    /\ TimerArmed
    /\ Newest(buffer, pushes)
    /\ TasksInOrder
    /\ dropped = Cardinality(Missing(pushes - Len(buffer), tasks))
    /\ \A c \in Callers : Promise(c)

-----------------------------------------------------------------------------
(* What doFlush does to the batches when it is handed the newest of n rows. *)
LEMMA FlushTasks ==
    ASSUME TypeOK, pending = 1 .. Len(tasks), TasksInOrder,
           NEW n \in Nat, NEW rows \in Seq(Nat), Newest(rows, n), DoFlush(rows)
    PROVE  /\ buffer' = << >>
           /\ tasks' \in Seq(Task)
           /\ pending' = 1 .. Len(tasks')
           /\ Len(tasks') >= Len(tasks)
           /\ \A i \in 1 .. Len(tasks) : tasks'[i] = tasks[i]
           /\ \A i \in 1 .. Len(tasks') : RowsOf(tasks'[i].rows) \subseteq 1 .. n
           /\ TasksInOrder'
           /\ Missing(n, tasks') = Missing(n - Len(rows), tasks)
<1>1. CASE rows = << >>
  <2>1. UNCHANGED <<tasks, pending>> /\ Len(rows) = 0
    BY <1>1 DEF DoFlush
  <2> QED
    BY <1>1, <2>1 DEF DoFlush, TypeOK, TasksInOrder, Newest, Missing, RowsOf
<1>2. CASE rows # << >>
  <2> DEFINE t == [rows |-> rows, status |-> "running"]
  <2>1. /\ buffer' = << >>
        /\ tasks' = Append(tasks, t)
        /\ pending' = pending \cup {Len(tasks) + 1}
    BY <1>2 DEF DoFlush
  <2>2. t \in Task
    BY <1>2 DEF Newest, Task
  <2>3. /\ tasks' \in Seq(Task)
        /\ Len(tasks') = Len(tasks) + 1
        /\ \A i \in 1 .. Len(tasks) : tasks'[i] = tasks[i]
        /\ tasks'[Len(tasks) + 1] = t
        /\ Len(tasks) \in Nat
    BY <2>1, <2>2, AppendProperties, LenProperties DEF TypeOK
  <2> HIDE DEF t
  <2>4. pending' = 1 .. Len(tasks')
    BY <2>1, <2>3
  <2>5. t.rows = rows
    BY DEF t
  <2>6. /\ Len(rows) \in Nat /\ n \in Nat /\ Len(rows) <= n
        /\ \A i \in 1 .. Len(rows) : rows[i] = n - Len(rows) + i
        /\ RowsOf(rows) = n - Len(rows) + 1 .. n
    <3>1. /\ Len(rows) \in Nat /\ n \in Nat /\ Len(rows) <= n
          /\ \A i \in 1 .. Len(rows) : rows[i] = n - Len(rows) + i
      BY LenProperties DEF Newest
    <3>2. ASSUME NEW r \in n - Len(rows) + 1 .. n
          PROVE  r \in RowsOf(rows)
      <4>1. PICK k \in 1 .. Len(rows) : r = n - Len(rows) + k
        <5>1. /\ r - (n - Len(rows)) \in 1 .. Len(rows)
              /\ r = n - Len(rows) + (r - (n - Len(rows)))
          BY <3>1
        <5> QED BY <5>1
      <4> QED BY <3>1, <4>1 DEF RowsOf
    <3>3. ASSUME NEW r \in RowsOf(rows)
          PROVE  r \in n - Len(rows) + 1 .. n
      BY <3>1 DEF RowsOf
    <3> QED BY <3>1, <3>2, <3>3
  <2>7. \A i \in 1 .. Len(tasks) : RowsOf(tasks[i].rows) \subseteq 1 .. n - Len(rows)
    BY DEF Newest
  <2>8. \A i \in 1 .. Len(tasks') :
            \/ i \in 1 .. Len(tasks) /\ tasks'[i] = tasks[i]
            \/ i = Len(tasks) + 1 /\ tasks'[i].rows = rows
    BY <2>3, <2>5
  <2>9. \A i \in 1 .. Len(tasks') : RowsOf(tasks'[i].rows) \subseteq 1 .. n
    <3> SUFFICES ASSUME NEW i \in 1 .. Len(tasks'), NEW r \in RowsOf(tasks'[i].rows)
                 PROVE  r \in 1 .. n
      OBVIOUS
    <3>1. r \in 1 .. n - Len(rows) \/ r \in n - Len(rows) + 1 .. n
      BY <2>6, <2>7, <2>8
    <3> QED BY <3>1, <2>6
  <2>10. TasksInOrder'
    <3> SUFFICES ASSUME NEW i \in 1 .. Len(tasks')
                 PROVE  /\ \A p, q \in 1 .. Len(tasks'[i].rows) :
                              p < q => tasks'[i].rows[p] < tasks'[i].rows[q]
                        /\ \A a \in RowsOf(tasks'[i].rows) :
                              \A j \in i + 1 .. Len(tasks') :
                                 \A b \in RowsOf(tasks'[j].rows) : a < b
      BY DEF TasksInOrder, RowsOf
    <3>1. CASE i \in 1 .. Len(tasks) /\ tasks'[i] = tasks[i]
      <4>1. ASSUME NEW a \in RowsOf(tasks[i].rows),
                   NEW j \in i + 1 .. Len(tasks'), NEW b \in RowsOf(tasks'[j].rows)
            PROVE  a < b
        <5>1. CASE j \in 1 .. Len(tasks) /\ tasks'[j] = tasks[j]
          <6>1. j \in i + 1 .. Len(tasks)
            BY <5>1, <3>1, <2>3
          <6> QED BY <5>1, <6>1, <3>1 DEF TasksInOrder
        <5>2. CASE tasks'[j].rows = rows
          <6>1. a \in 1 .. n - Len(rows) /\ b \in n - Len(rows) + 1 .. n
            BY <5>2, <3>1, <2>6, <2>7
          <6> QED BY <6>1, <2>6
        <5>3. j \in 1 .. Len(tasks')
          BY <3>1, <2>3
        <5> QED BY <5>1, <5>2, <5>3, <2>8
      <4> QED BY <4>1, <3>1 DEF TasksInOrder
    <3>2. CASE i = Len(tasks) + 1 /\ tasks'[i].rows = rows
      <4>1. \A p, q \in 1 .. Len(rows) : p < q => rows[p] < rows[q]
        <5> SUFFICES ASSUME NEW p \in 1 .. Len(rows), NEW q \in 1 .. Len(rows), p < q
                     PROVE  rows[p] < rows[q]
          OBVIOUS
        <5>1. rows[p] = n - Len(rows) + p /\ rows[q] = n - Len(rows) + q
          BY <2>6
        <5> QED BY <5>1, <2>6
      <4>2. \A j \in i + 1 .. Len(tasks') : FALSE
        BY <3>2, <2>3
      <4> QED BY <3>2, <4>1, <4>2
    <3> QED BY <3>1, <3>2, <2>8
  <2>11. Missing(n, tasks') = Missing(n - Len(rows), tasks)
    <3>1. ASSUME NEW r \in Missing(n, tasks')
          PROVE  r \in Missing(n - Len(rows), tasks)
      <4>1. /\ r \in 1 .. n
            /\ \A i \in 1 .. Len(tasks') : r \notin RowsOf(tasks'[i].rows)
        BY DEF Missing
      <4>2. r \notin RowsOf(rows)
        BY <4>1, <2>3, <2>5
      <4>3. r \in 1 .. n - Len(rows)
        BY <4>1, <4>2, <2>6
      <4>4. \A i \in 1 .. Len(tasks) : r \notin RowsOf(tasks[i].rows)
        BY <4>1, <2>3
      <4> QED BY <4>3, <4>4 DEF Missing
    <3>2. ASSUME NEW r \in Missing(n - Len(rows), tasks)
          PROVE  r \in Missing(n, tasks')
      <4>1. /\ r \in 1 .. n - Len(rows)
            /\ \A i \in 1 .. Len(tasks) : r \notin RowsOf(tasks[i].rows)
        BY DEF Missing
      <4>2. r \in 1 .. n /\ r \notin RowsOf(rows)
        BY <4>1, <2>6
      <4>3. \A i \in 1 .. Len(tasks') : r \notin RowsOf(tasks'[i].rows)
        BY <4>1, <4>2, <2>8
      <4> QED BY <4>2, <4>3 DEF Missing
    <3> QED BY <3>1, <3>2
  <2> QED
    BY <2>1, <2>3, <2>4, <2>9, <2>10, <2>11
<1> QED BY <1>1, <1>2

(* createBatcher() establishes the invariant.                                *)
LEMMA InitIInv == Init => IInv
<1> SUFFICES ASSUME Init PROVE IInv
  OBVIOUS
<1>1. TypeOK
  <2>1. buffer \in Seq(Nat) /\ tasks \in Seq(Task)
    BY EmptySeq DEF Init
  <2>2. calls \in [Callers -> Call]
    BY DEF Init, NoCall, Call
  <2> QED BY <2>1, <2>2 DEF Init, TypeOK
<1>2. Len(buffer) = 0 /\ Len(tasks) = 0 /\ pushes = 0
  BY DEF Init
<1>3. dropped = Cardinality(Missing(pushes - Len(buffer), tasks))
  <2>1. Missing(pushes - Len(buffer), tasks) = {}
    BY <1>2 DEF Missing
  <2> QED BY <2>1, FS_EmptySet DEF Init
<1>4. Newest(buffer, pushes) /\ TasksInOrder
  BY <1>2 DEF Init, Newest, TasksInOrder
<1>5. \A c \in Callers : Promise(c)
  BY DEF Init, Promise, NoCall
<1> QED BY <1>1, <1>2, <1>3, <1>4, <1>5 DEF IInv, Init, TimerArmed

(* The buffer a push leaves, before a flush it may start, is the newest rows. *)
LEMMA PushedNewest ==
    ASSUME IInv
    PROVE  /\ Newest(Pushed(pushes + 1), pushes + 1)
           /\ Len(Pushed(pushes + 1)) =
                 IF Len(buffer) >= BufferCap THEN Len(buffer) ELSE Len(buffer) + 1
           /\ Pushed(pushes + 1) # << >>
<1> DEFINE kept == IF Len(buffer) >= BufferCap THEN Tail(buffer) ELSE buffer
           rows == Append(kept, pushes + 1)
           gone == IF Len(buffer) >= BufferCap THEN 1 ELSE 0
<1>1. /\ buffer \in Seq(Nat) /\ pushes \in Nat /\ Len(buffer) \in Nat /\ Len(buffer) <= pushes
      /\ \A i \in 1 .. Len(buffer) : buffer[i] = pushes - Len(buffer) + i
      /\ \A i \in 1 .. Len(tasks) : RowsOf(tasks[i].rows) \subseteq 1 .. pushes - Len(buffer)
  BY LenProperties DEF IInv, TypeOK, Newest
<1>2. /\ kept \in Seq(Nat)
      /\ Len(kept) = Len(buffer) - gone
      /\ \A i \in 1 .. Len(kept) : kept[i] = buffer[i + gone]
  <2>1. CASE Len(buffer) >= BufferCap
    <3>1. buffer # << >>
      BY <2>1, <1>1, BatcherAssumption
    <3> QED BY <3>1, <2>1, <1>1, HeadTailProperties
  <2>2. CASE ~(Len(buffer) >= BufferCap)
    BY <2>2, <1>1
  <2> QED BY <2>1, <2>2
<1>3. /\ rows \in Seq(Nat)
      /\ Len(rows) = Len(kept) + 1
      /\ \A i \in 1 .. Len(kept) : rows[i] = kept[i]
      /\ rows[Len(kept) + 1] = pushes + 1
  <2>1. pushes + 1 \in Nat
    BY <1>1
  <2> HIDE DEF kept
  <2> QED BY <1>2, <2>1, AppendProperties
<1> HIDE DEF kept, rows
<1>4. gone \in 0 .. 1 /\ (gone = 1 => Len(buffer) >= 1)
  BY <1>1, BatcherAssumption
<1> HIDE DEF gone
<1>5. \A i \in 1 .. Len(rows) : rows[i] = pushes + 1 - Len(rows) + i
  <2> SUFFICES ASSUME NEW i \in 1 .. Len(rows)
               PROVE  rows[i] = pushes + 1 - Len(rows) + i
    OBVIOUS
  <2>1. CASE i \in 1 .. Len(kept)
    <3>0. i + gone \in 1 .. Len(buffer)
      BY <2>1, <1>1, <1>2, <1>4
    <3>1. rows[i] = buffer[i + gone] /\ i + gone \in 1 .. Len(buffer)
      BY ONLY <3>0, <2>1, <1>2, <1>3
    <3>2. rows[i] = pushes - Len(buffer) + (i + gone)
      BY <3>1, <1>1
    <3> QED BY <3>2, <1>1, <1>2, <1>3, <1>4
  <2>2. CASE i = Len(kept) + 1
    BY <2>2, <1>1, <1>2, <1>3, <1>4
  <2> QED BY <2>1, <2>2, <1>1, <1>2, <1>3, <1>4
<1>6. \A i \in 1 .. Len(tasks) : RowsOf(tasks[i].rows) \subseteq 1 .. pushes + 1 - Len(rows)
  <2>1. pushes + 1 - Len(rows) >= pushes - Len(buffer)
    BY <1>1, <1>2, <1>3, <1>4
  <2>2. 1 .. pushes - Len(buffer) \subseteq 1 .. pushes + 1 - Len(rows)
    BY <2>1, <1>1, <1>2, <1>3, <1>4
  <2> QED BY <2>2, <1>1
<1>7. Newest(rows, pushes + 1)
  BY <1>1, <1>2, <1>3, <1>4, <1>5, <1>6 DEF Newest
<1>8. Len(rows) = (IF Len(buffer) >= BufferCap THEN Len(buffer) ELSE Len(buffer) + 1)
  BY <1>1, <1>2, <1>3 DEF gone
<1>9. rows # << >>
  BY <1>1, <1>2, <1>3, <1>4
<1> QED BY <1>7, <1>8, <1>9 DEF Pushed, rows, kept

(* What a push drops, it counts. *)
LEMMA PushCounts ==
    ASSUME IInv
    PROVE  Cardinality(Missing(pushes + 1 - Len(Pushed(pushes + 1)), tasks))
              = IF Len(buffer) >= BufferCap THEN dropped + 1 ELSE dropped
<1> DEFINE base == pushes - Len(buffer)
<1>1. /\ base \in Nat /\ pushes \in Nat /\ Len(buffer) \in Nat
      /\ dropped = Cardinality(Missing(base, tasks))
      /\ \A i \in 1 .. Len(tasks) : RowsOf(tasks[i].rows) \subseteq 1 .. base
  BY LenProperties DEF IInv, TypeOK, Newest
<1>2. pushes + 1 - Len(Pushed(pushes + 1)) =
         IF Len(buffer) >= BufferCap THEN base + 1 ELSE base
  <2>1. CASE Len(buffer) >= BufferCap
    <3>1. Len(Pushed(pushes + 1)) = Len(buffer)
      BY <2>1, PushedNewest
    <3> QED BY <3>1, <2>1, <1>1
  <2>2. CASE ~(Len(buffer) >= BufferCap)
    <3>1. Len(Pushed(pushes + 1)) = Len(buffer) + 1
      BY <2>2, PushedNewest
    <3> QED BY <3>1, <2>2, <1>1
  <2> QED BY <2>1, <2>2
<1> HIDE DEF base
<1>3. IsFiniteSet(Missing(base, tasks))
  <2>1. IsFiniteSet(1 .. base)
    BY <1>1, FS_Interval
  <2>2. Missing(base, tasks) \subseteq 1 .. base
    BY DEF Missing
  <2> QED BY <2>1, <2>2, FS_Subset
<1>4. Missing(base + 1, tasks) = Missing(base, tasks) \cup {base + 1}
  <2>1. \A i \in 1 .. Len(tasks) : base + 1 \notin RowsOf(tasks[i].rows)
    <3>1. base + 1 \notin 1 .. base
      BY <1>1
    <3>2. \A i \in 1 .. Len(tasks) : RowsOf(tasks[i].rows) \subseteq 1 .. base
      BY <1>1
    <3> QED BY ONLY <3>1, <3>2
  <2>2. 1 .. base + 1 = (1 .. base) \cup {base + 1}
    BY <1>1
  <2> QED BY <2>1, <2>2 DEF Missing
<1>5. base + 1 \notin Missing(base, tasks)
  BY <1>1 DEF Missing
<1>6. Cardinality(Missing(base + 1, tasks)) = dropped + 1
  BY <1>1, <1>3, <1>4, <1>5, FS_AddElement
<1> QED BY <1>1, <1>2, <1>6

(* A flush keeps every promise: the rows of the new batch are younger than   *)
(* what the earlier callers were promised.                                   *)
LEMMA FlushPromises ==
    ASSUME IInv, NEW n, NEW rows, Newest(rows, n), DoFlush(rows), rows # << >>,
           pushes - Len(buffer) <= n - Len(rows), pushes' = n,
           NEW c \in Callers, calls'[c] = calls[c]
    PROVE  Promise(c)'
<1> DEFINE t == [rows |-> rows, status |-> "running"]
<1>1. tasks' = Append(tasks, t) /\ t \in Task /\ buffer' = << >>
  BY DEF DoFlush, Newest, Task
<1>2. /\ Len(tasks) \in Nat
      /\ Len(tasks') = Len(tasks) + 1
      /\ \A i \in 1 .. Len(tasks) : tasks'[i] = tasks[i]
      /\ tasks'[Len(tasks) + 1].rows = rows
  BY <1>1, AppendProperties, LenProperties DEF IInv, TypeOK
<1>3. /\ calls[c] \in Call /\ Promise(c)
      /\ pushes \in Nat /\ Len(buffer) \in Nat /\ Len(buffer) <= pushes
      /\ n \in Nat /\ Len(rows) \in Nat /\ Len(rows) <= n
  BY LenProperties DEF IInv, TypeOK, Newest
<1>4. calls[c].upTo \in Nat
  BY <1>3 DEF Call
<1>5. \A r \in RowsOf(rows) : r > n - Len(rows)
  BY <1>3 DEF Newest, RowsOf
<1>6. calls[c].on \subseteq 1 .. Len(tasks')
  BY <1>2, <1>3 DEF Promise
<1>7. ASSUME calls[c].st # "idle"
      PROVE  /\ calls[c].upTo <= n - Len(<< >>)
             /\ \A i \in (1 .. Len(tasks')) \ calls[c].on :
                   \A r \in RowsOf(tasks'[i].rows) : r > calls[c].upTo
  <2>1. calls[c].upTo <= pushes - Len(buffer)
    BY <1>3, <1>7 DEF Promise
  <2>2. calls[c].upTo <= n - Len(rows)
    BY <2>1, <1>3, <1>4
  <2>3. ASSUME NEW i \in (1 .. Len(tasks')) \ calls[c].on, NEW r \in RowsOf(tasks'[i].rows)
        PROVE  r > calls[c].upTo
    <3>1. CASE i \in 1 .. Len(tasks)
      BY <3>1, <2>3, <1>2, <1>3, <1>7 DEF Promise
    <3>2. CASE i = Len(tasks) + 1
      <4>1. r \in RowsOf(rows)
        BY <3>2, <2>3, <1>2
      <4>2. r \in Nat
        <5>1. rows \in [1 .. Len(rows) -> Nat]
          BY LenProperties DEF Newest
        <5> QED BY <4>1, <5>1 DEF RowsOf
      <4> QED BY <4>1, <4>2, <2>2, <1>3, <1>4, <1>5
    <3> QED BY <3>1, <3>2, <1>2
  <2> QED BY <2>2, <2>3, <1>3, <1>4
<1>8. ASSUME calls[c].st = "resolved", NEW i \in calls[c].on
      PROVE  tasks'[i].status # "running"
  BY <1>2, <1>3, <1>8 DEF Promise, Settled
<1> QED BY <1>1, <1>3, <1>6, <1>7, <1>8 DEF Promise, Settled

(* push() keeps the invariant, whether or not it flushes or drops.           *)
LEMMA PushStep == ASSUME IInv, Push PROVE IInv'
<1> DEFINE rows == Pushed(pushes + 1)
<1>1. /\ Newest(rows, pushes + 1) /\ rows # << >>
      /\ Len(rows) = IF Len(buffer) >= BufferCap THEN Len(buffer) ELSE Len(buffer) + 1
      /\ Cardinality(Missing(pushes + 1 - Len(rows), tasks)) = dropped'
  BY PushedNewest, PushCounts DEF Push
<1>2. pushes' = pushes + 1 /\ calls' = calls
  BY DEF Push
<1> HIDE DEF rows
<1>3. /\ rows \in Seq(Nat) /\ Len(rows) \in Nat /\ Len(rows) <= pushes + 1
      /\ pushes \in Nat /\ Len(buffer) \in Nat /\ dropped \in Nat /\ dropped' \in Nat
      /\ pushes - Len(buffer) <= pushes + 1 - Len(rows)
  <2>1. rows \in Seq(Nat) /\ Len(rows) \in Nat /\ Len(rows) <= pushes + 1
    BY <1>1, LenProperties DEF Newest
  <2>2. pushes \in Nat /\ Len(buffer) \in Nat /\ dropped \in Nat
    BY LenProperties DEF IInv, TypeOK
  <2>3. dropped' \in Nat
    BY <2>2 DEF Push
  <2>4. pushes - Len(buffer) <= pushes + 1 - Len(rows)
    BY <1>1, <2>1, <2>2
  <2> QED BY <2>1, <2>2, <2>3, <2>4
<1>4. \/ DoFlush(rows)
      \/ Keep(rows)
  BY DEF Push, rows
<1>5. CASE DoFlush(rows)
  <2>0. timer' = FALSE
    BY <1>5 DEF DoFlush
  <2>1. /\ buffer' = << >>
        /\ tasks' \in Seq(Task)
        /\ pending' = 1 .. Len(tasks')
        /\ \A i \in 1 .. Len(tasks') : RowsOf(tasks'[i].rows) \subseteq 1 .. pushes + 1
        /\ TasksInOrder'
        /\ Missing(pushes + 1, tasks') = Missing(pushes + 1 - Len(rows), tasks)
    <3>1. TypeOK /\ pending = 1 .. Len(tasks) /\ TasksInOrder
      BY DEF IInv
    <3>2. Newest(rows, pushes + 1)
      BY <1>1
    <3>3. pushes + 1 \in Nat
      BY <1>3
    <3> QED BY <3>1, <3>2, <3>3, <1>3, <1>5, FlushTasks
  <2>2. pending' \in SUBSET Nat /\ << >> \in Seq(Nat) /\ Len(<< >>) = 0
    BY <2>1, LenProperties, EmptySeq
  <2>3. TypeOK'
    <3>1. calls' \in [Callers -> Call]
      BY <1>2 DEF IInv, TypeOK
    <3>2. buffer' \in Seq(Nat) /\ pushes' \in Nat
      BY <1>2, <1>3, <2>1, <2>2
    <3>3. timer' \in BOOLEAN
      BY <2>0
    <3> QED BY <3>1, <3>2, <3>3, <1>3, <2>1, <2>2 DEF TypeOK
  <2>4. Newest(buffer, pushes)'
    BY <1>2, <1>3, <2>1, <2>2 DEF Newest
  <2>5. dropped' = Cardinality(Missing(pushes' - Len(buffer'), tasks'))
    <3>1. Len(buffer') = 0 /\ pushes' - 0 = pushes + 1
      BY <1>2, <1>3, <2>1, <2>2
    <3> QED BY <3>1, <1>1, <1>2, <2>1
  <2>6. \A c \in Callers : Promise(c)'
    BY <1>1, <1>2, <1>3, <1>5, FlushPromises
  <2>7. TimerArmed'
    BY <2>0, <2>1 DEF TimerArmed
  <2> QED BY <2>1, <2>3, <2>4, <2>5, <2>6, <2>7 DEF IInv
<1>6. CASE Keep(rows)
  <2>0. timer' = TRUE
    BY <1>6 DEF Keep
  <2>1. buffer' = rows /\ tasks' = tasks /\ pending' = pending
    BY <1>6 DEF Keep
  <2>2. TypeOK'
    <3>1. timer' \in BOOLEAN
      BY <2>0
    <3>2. pushes' \in Nat
      BY <1>2, <1>3
    <3> QED BY <3>1, <3>2, <1>2, <1>3, <2>1 DEF IInv, TypeOK
  <2>3. Newest(buffer, pushes)'
    BY <1>1, <1>2, <2>1 DEF Newest
  <2>4. \A c \in Callers : Promise(c)'
    <3> SUFFICES ASSUME NEW c \in Callers PROVE Promise(c)'
      OBVIOUS
    <3>1. Promise(c) /\ calls[c].upTo \in Nat
      BY DEF IInv, TypeOK, Call
    <3> QED BY <3>1, <1>2, <1>3, <2>1 DEF Promise, Settled
  <2>5. TasksInOrder' /\ (pending = 1 .. Len(tasks))'
    BY <2>1 DEF IInv, TasksInOrder
  <2>6. dropped' = Cardinality(Missing(pushes' - Len(buffer'), tasks'))
    <3>1. pushes' - Len(buffer') = pushes + 1 - Len(rows)
      BY <1>2, <1>3, <2>1
    <3>2. tasks' = tasks
      BY <2>1
    <3> QED BY <3>1, <3>2, <1>1
  <2>7. TimerArmed'
    BY <1>1, <2>0, <2>1 DEF TimerArmed
  <2> QED BY <2>2, <2>3, <2>4, <2>5, <2>6, <2>7 DEF IInv
<1> QED BY <1>4, <1>5, <1>6

(* doFlush started by the timer or by a caller: the whole buffer is detached. *)
LEMMA FlushBuffer ==
    ASSUME IInv, DoFlush(buffer), pushes' = pushes
    PROVE  /\ buffer' = << >> /\ tasks' \in Seq(Task)
           /\ pending' = 1 .. Len(tasks')
           /\ Newest(buffer, pushes)' /\ TasksInOrder' /\ TimerArmed'
           /\ Cardinality(Missing(pushes', tasks')) = dropped
           /\ \A c \in Callers : calls'[c] = calls[c] => Promise(c)'
<1>1. TypeOK /\ pending = 1 .. Len(tasks) /\ TasksInOrder /\ Newest(buffer, pushes)
  BY DEF IInv
<1>2. /\ pushes \in Nat /\ buffer \in Seq(Nat) /\ Len(buffer) \in Nat /\ Len(buffer) <= pushes
      /\ dropped = Cardinality(Missing(pushes - Len(buffer), tasks))
  BY LenProperties DEF IInv, TypeOK, Newest
<1>3. /\ buffer' = << >> /\ tasks' \in Seq(Task)
      /\ pending' = 1 .. Len(tasks')
      /\ \A i \in 1 .. Len(tasks') : RowsOf(tasks'[i].rows) \subseteq 1 .. pushes
      /\ TasksInOrder'
      /\ Missing(pushes, tasks') = Missing(pushes - Len(buffer), tasks)
  BY <1>1, <1>2, FlushTasks
<1>4. Newest(buffer, pushes)'
  <2>1. << >> \in Seq(Nat) /\ Len(<< >>) = 0
    BY EmptySeq
  <2> QED BY <1>2, <1>3, <2>1 DEF Newest
<1>5. TimerArmed'
  <2>1. timer' = FALSE
    BY DEF DoFlush
  <2> QED BY <1>3, <2>1 DEF TimerArmed
<1>6. Cardinality(Missing(pushes', tasks')) = dropped
  BY <1>2, <1>3
<1>7. ASSUME NEW c \in Callers, calls'[c] = calls[c]
      PROVE  Promise(c)'
  <2>1. CASE buffer # << >>
    BY <2>1, <1>1, <1>2, <1>7, FlushPromises
  <2>2. CASE buffer = << >>
    <3>1. tasks' = tasks /\ buffer' = buffer
      BY <2>2 DEF DoFlush
    <3> QED BY <3>1, <1>7 DEF IInv, Promise, Settled
  <2> QED BY <2>1, <2>2
<1> QED BY <1>3, <1>4, <1>5, <1>6, <1>7

(* The flush timer keeps the invariant.                                      *)
LEMMA TimerStep == ASSUME IInv, TimerFires PROVE IInv'
<1>1. DoFlush(buffer) /\ pushes' = pushes /\ calls' = calls /\ dropped' = dropped
  BY DEF TimerFires
<1>2. timer' = FALSE
  BY <1>1 DEF DoFlush
<1>3. /\ buffer' = << >> /\ tasks' \in Seq(Task) /\ pending' = 1 .. Len(tasks')
      /\ Newest(buffer, pushes)' /\ TasksInOrder' /\ TimerArmed'
      /\ Cardinality(Missing(pushes', tasks')) = dropped
      /\ \A c \in Callers : Promise(c)'
  BY <1>1, FlushBuffer
<1>4. TypeOK'
  <2>1. << >> \in Seq(Nat) /\ pending' \in SUBSET Nat
    BY <1>3, EmptySeq, LenProperties
  <2> QED BY <1>1, <1>2, <1>3, <2>1 DEF IInv, TypeOK
<1>5. dropped' = Cardinality(Missing(pushes' - Len(buffer'), tasks'))
  <2>1. Len(buffer') = 0 /\ pushes' = pushes
    BY <1>1, <1>3, EmptySeq
  <2>2. pushes' - Len(buffer') = pushes'
    <3>1. pushes - 0 = pushes
      BY DEF IInv, TypeOK
    <3> QED BY <2>1, <3>1
  <2> QED BY <2>2, <1>1, <1>3
<1> QED BY <1>3, <1>4, <1>5 DEF IInv

(* A call of flush() or stop() keeps the invariant, and is promised its rows. *)
LEMMA FlushStep == ASSUME IInv, NEW d \in Callers, Flush(d) PROVE IInv'
<1>1. /\ DoFlush(buffer) /\ pushes' = pushes /\ dropped' = dropped
      /\ calls' = [calls EXCEPT ![d] = [st |-> "waiting", on |-> pending', upTo |-> pushes]]
  BY DEF Flush
<1>2. timer' = FALSE
  BY <1>1 DEF DoFlush
<1>3. /\ buffer' = << >> /\ tasks' \in Seq(Task) /\ pending' = 1 .. Len(tasks')
      /\ Newest(buffer, pushes)' /\ TasksInOrder' /\ TimerArmed'
      /\ Cardinality(Missing(pushes', tasks')) = dropped
      /\ \A c \in Callers : calls'[c] = calls[c] => Promise(c)'
  BY <1>1, FlushBuffer
<1>4. pending' \in SUBSET Nat /\ << >> \in Seq(Nat) /\ Len(<< >>) = 0 /\ pushes \in Nat
  BY <1>3, EmptySeq, LenProperties DEF IInv, TypeOK
<1>5. calls \in [Callers -> Call]
  BY DEF IInv, TypeOK
<1>6. TypeOK'
  <2>1. [st |-> "waiting", on |-> pending', upTo |-> pushes] \in Call
    BY <1>4 DEF Call
  <2>2. calls' \in [Callers -> Call]
    BY <1>1, <1>5, <2>1
  <2> QED BY <1>1, <1>2, <1>3, <1>4, <2>2 DEF IInv, TypeOK
<1>7. dropped' = Cardinality(Missing(pushes' - Len(buffer'), tasks'))
  <2>1. pushes' - Len(buffer') = pushes'
    <3>1. Len(buffer') = 0
      BY <1>3, <1>4
    <3>2. pushes' = pushes /\ pushes - 0 = pushes
      BY <1>1, <1>4
    <3> QED BY <3>1, <3>2
  <2> QED BY <2>1, <1>1, <1>3
<1>8. ASSUME NEW c \in Callers
      PROVE  Promise(c)'
  <2>1. CASE c # d
    BY <2>1, <1>1, <1>3, <1>5
  <2>2. CASE c = d
    <3>1. calls'[c] = [st |-> "waiting", on |-> pending', upTo |-> pushes]
      BY <2>2, <1>1, <1>5
    <3>2. pushes <= pushes' - Len(buffer')
      BY <1>1, <1>3, <1>4
    <3> QED BY <3>1, <3>2, <1>3 DEF Promise
  <2> QED BY <2>1, <2>2
<1> QED BY <1>3, <1>6, <1>7, <1>8 DEF IInv

(* A resolved promise had every batch it stands for settled.                 *)
LEMMA ResolveStep == ASSUME IInv, NEW d \in Callers, FlushResolves(d) PROVE IInv'
<1>1. /\ UNCHANGED <<buffer, dropped, timer, tasks, pending, pushes>>
      /\ calls' = [calls EXCEPT ![d].st = "resolved"]
      /\ calls[d].st = "waiting" /\ \A i \in calls[d].on : Settled(i)
  BY DEF FlushResolves
<1>2. calls \in [Callers -> Call]
  BY DEF IInv, TypeOK
<1>3. calls' \in [Callers -> Call]
  BY <1>1, <1>2 DEF Call
<1>4. TypeOK'
  BY <1>1, <1>3 DEF IInv, TypeOK
<1>5. ASSUME NEW c \in Callers
      PROVE  Promise(c)'
  <2>0. Promise(c)
    BY DEF IInv
  <2>1. CASE c # d
    BY <2>0, <2>1, <1>1, <1>2 DEF Promise, Settled
  <2>2. CASE c = d
    <3>1. /\ calls'[c].on = calls[c].on /\ calls'[c].upTo = calls[c].upTo
          /\ calls[c].st # "idle"
      BY <2>2, <1>1, <1>2 DEF Call
    <3> QED BY <2>0, <2>2, <3>1, <1>1 DEF Promise, Settled
  <2> QED BY <2>1, <2>2
<1> QED BY <1>1, <1>4, <1>5 DEF IInv, TimerArmed, Newest, TasksInOrder

(* A settled write changes no row of any batch. *)
LEMMA SettleStep ==
    ASSUME IInv, NEW k \in 1 .. Len(tasks), NEW status \in {"ok", "failed"},
           WriterSettles(k, status)
    PROVE  IInv'
<1>1. /\ UNCHANGED <<buffer, dropped, timer, pending, pushes, calls>>
      /\ tasks' = [tasks EXCEPT ![k].status = status]
  BY DEF WriterSettles
<1>2. tasks \in Seq(Task) /\ Len(tasks) \in Nat
  BY LenProperties DEF IInv, TypeOK
<1> DEFINE t == [tasks[k] EXCEPT !.status = status]
<1>3. /\ tasks' = [tasks EXCEPT ![k] = t]
      /\ t \in Task /\ t.rows = tasks[k].rows /\ t.status # "running"
  <2>1. tasks[k] \in Task
    BY <1>2, ElementOfSeq
  <2> QED BY <1>1, <2>1 DEF Task
<1> HIDE DEF t
<1>4. /\ tasks' \in Seq(Task) /\ Len(tasks') = Len(tasks)
      /\ \A i \in 1 .. Len(tasks) : /\ tasks'[i].rows = tasks[i].rows
                                    /\ tasks[i].status # "running" => tasks'[i].status # "running"
  BY <1>2, <1>3, ExceptSeq
<1>5. TypeOK'
  BY <1>1, <1>4 DEF IInv, TypeOK
<1>6. Newest(buffer, pushes)'
  BY <1>1, <1>4 DEF IInv, Newest
<1>7. TasksInOrder'
  <2>1. \A i \in 1 .. Len(tasks) : \A j \in i + 1 .. Len(tasks) : j \in 1 .. Len(tasks)
    BY <1>2
  <2> QED BY <1>4, <2>1 DEF IInv, TasksInOrder
<1>8. \A n : Missing(n, tasks') = Missing(n, tasks)
  BY <1>4 DEF Missing
<1>9. dropped' = Cardinality(Missing(pushes' - Len(buffer'), tasks'))
  BY <1>1, <1>8 DEF IInv
<1>10. \A c \in Callers : Promise(c)'
  BY <1>1, <1>4 DEF IInv, Promise, Settled
<1> QED BY <1>1, <1>4, <1>5, <1>6, <1>7, <1>9, <1>10 DEF IInv, TimerArmed

(* Every step keeps the invariant.                                           *)
LEMMA StepIInv == IInv /\ [Next]_batcherVars => IInv'
<1> SUFFICES ASSUME IInv, [Next]_batcherVars PROVE IInv'
  OBVIOUS
<1>1. CASE Push
  BY <1>1, PushStep
<1>2. CASE TimerFires
  BY <1>2, TimerStep
<1>3. ASSUME NEW c \in Callers, Flush(c) PROVE IInv'
  BY <1>3, FlushStep
<1>4. ASSUME NEW c \in Callers, FlushResolves(c) PROVE IInv'
  BY <1>4, ResolveStep
<1>5. ASSUME NEW i \in 1 .. Len(tasks), NEW status \in {"ok", "failed"},
             WriterSettles(i, status)
      PROVE  IInv'
  BY <1>5, SettleStep
<1>6. CASE UNCHANGED batcherVars
  BY <1>6 DEF batcherVars, IInv, TypeOK, TimerArmed, Newest, TasksInOrder, Promise, Settled, Missing
<1> QED BY <1>1, <1>2, <1>3, <1>4, <1>5, <1>6 DEF Next

(* The inductive invariant holds in every state the batcher can reach. *)
THEOREM Invariance == Spec => []IInv
<1> QED BY InitIInv, StepIInv, PTL DEF Spec

(* The batcher's state keeps its types and no batch is ever empty. *)
THEOREM TypeCorrect == Spec => []TypeOK
<1>1. IInv => TypeOK
  BY DEF IInv
<1> QED BY <1>1, Invariance, PTL

(* Rows wait exactly when a flush is scheduled. *)
THEOREM NoRowStranded == Spec => []TimerArmed
<1>1. IInv => TimerArmed
  BY DEF IInv
<1> QED BY <1>1, Invariance, PTL

(* The buffer is always the newest rows, whatever was dropped or flushed. *)
THEOREM KeepsNewest == Spec => []NewestKept
<1>1. IInv => NewestKept
  BY DEF IInv, Newest, NewestKept
<1> QED BY <1>1, Invariance, PTL

(* The counter of dropped rows is exact, for every cap and threshold. *)
THEOREM CountsDrops == Spec => []Accounting
<1>1. ASSUME IInv PROVE Unheld = Missing(pushes - Len(buffer), tasks)
  <2>1. /\ pushes \in Nat /\ Len(buffer) \in Nat /\ Len(buffer) <= pushes
        /\ \A i \in 1 .. Len(buffer) : buffer[i] = pushes - Len(buffer) + i
    BY <1>1, LenProperties DEF IInv, TypeOK, Newest
  <2>2. ASSUME NEW r \in 1 .. pushes
        PROVE  r \in RowsOf(buffer) <=> r > pushes - Len(buffer)
    <3>1. ASSUME r \in RowsOf(buffer) PROVE r > pushes - Len(buffer)
      BY <2>1, <3>1 DEF RowsOf
    <3>2. ASSUME r > pushes - Len(buffer) PROVE r \in RowsOf(buffer)
      <4>1. PICK k \in 1 .. Len(buffer) : r = pushes - Len(buffer) + k
        <5>1. /\ r - (pushes - Len(buffer)) \in 1 .. Len(buffer)
              /\ r = pushes - Len(buffer) + (r - (pushes - Len(buffer)))
          BY <2>1, <3>2
        <5> QED BY <5>1
      <4> QED BY <2>1, <4>1 DEF RowsOf
    <3> QED BY <3>1, <3>2
  <2>3. \A r : r \in 1 .. pushes - Len(buffer) <=>
               r \in 1 .. pushes /\ ~(r > pushes - Len(buffer))
    BY <2>1
  <2> QED BY <2>2, <2>3 DEF Unheld, Missing, InTask
<1>2. IInv => Accounting
  BY <1>1 DEF IInv, Accounting
<1> QED BY <1>2, Invariance, PTL

(* No row is written twice and batches follow the order of arrival, however  *)
(* many writes are in flight.                                                *)
THEOREM WritesInOrder == Spec => []WrittenInOrder
<1>1. ASSUME IInv PROVE WrittenInOrder
  <2>1. /\ pushes \in Nat /\ Len(buffer) \in Nat /\ Len(buffer) <= pushes
        /\ \A i \in 1 .. Len(buffer) : buffer[i] = pushes - Len(buffer) + i
        /\ \A i \in 1 .. Len(tasks) : RowsOf(tasks[i].rows) \subseteq 1 .. pushes - Len(buffer)
        /\ TasksInOrder
    BY <1>1, LenProperties DEF IInv, TypeOK, Newest
  <2>2. ASSUME NEW i \in 1 .. Len(tasks), NEW a \in RowsOf(tasks[i].rows),
               NEW b \in RowsOf(buffer)
        PROVE  a < b
    <3>1. a \in 1 .. pushes - Len(buffer)
      BY <2>1
    <3>2. PICK k \in 1 .. Len(buffer) : b = pushes - Len(buffer) + k
      BY <2>1 DEF RowsOf
    <3> QED BY <3>1, <3>2, <2>1
  <2> QED BY <2>1, <2>2 DEF TasksInOrder, WrittenInOrder
<1>2. IInv => WrittenInOrder
  BY <1>1
<1> QED BY <1>2, Invariance, PTL

(* When the promise of flush() or stop() has resolved, every row pushed      *)
(* before the call was dropped or its write has settled.                     *)
THEOREM StopWaits == Spec => []FlushWaits
<1>1. ASSUME IInv, NEW c \in Callers, calls[c].st = "resolved"
      PROVE  /\ \A r \in RowsOf(buffer) : r > calls[c].upTo
             /\ \A i \in 1 .. Len(tasks) :
                   (\E r \in RowsOf(tasks[i].rows) : r <= calls[c].upTo) => Settled(i)
  <2>1. /\ Promise(c) /\ calls[c].upTo \in Nat
        /\ pushes \in Nat /\ Len(buffer) \in Nat /\ Len(buffer) <= pushes
        /\ \A i \in 1 .. Len(buffer) : buffer[i] = pushes - Len(buffer) + i
        /\ tasks \in Seq(Task)
    BY <1>1, LenProperties DEF IInv, TypeOK, Newest, Call
  <2>2. calls[c].upTo <= pushes - Len(buffer)
    BY <1>1, <2>1 DEF Promise
  <2>3. \A r \in RowsOf(buffer) : r > calls[c].upTo
    BY <2>1, <2>2 DEF RowsOf
  <2>4. ASSUME NEW i \in 1 .. Len(tasks), NEW r \in RowsOf(tasks[i].rows),
               r <= calls[c].upTo
        PROVE  Settled(i)
    <3>1. r \in Nat
      <4>1. tasks[i] \in Task
        BY <2>1, ElementOfSeq
      <4> QED BY <4>1 DEF Task, RowsOf
    <3>2. i \in calls[c].on
      BY <1>1, <2>1, <2>4, <3>1 DEF Promise
    <3> QED BY <1>1, <2>1, <3>2 DEF Promise
  <2> QED BY <2>3, <2>4
<1>2. IInv => FlushWaits
  BY <1>1 DEF FlushWaits
<1> QED BY <1>2, Invariance, PTL

-----------------------------------------------------------------------------
(* The buffer stays below the flush threshold and nothing was dropped. *)
ShortBuffer == Len(buffer) < MaxRows /\ dropped = 0

(* A push that fills the buffer up to maxRows empties it. *)
LEMMA StaysShort ==
    ASSUME MaxRows <= BufferCap, IInv, ShortBuffer, [Next]_batcherVars
    PROVE  ShortBuffer'
<1>1. MaxRows \in Nat /\ MaxRows > 0 /\ BufferCap \in Nat
  BY BatcherAssumption
<1>2. CASE Push
  <2>1. Len(buffer) \in Nat /\ ~(Len(buffer) >= BufferCap)
    BY <1>1 DEF IInv, TypeOK, ShortBuffer
  <2>2. dropped' = 0
    BY <1>2, <2>1 DEF Push, ShortBuffer
  <2>3. \/ Len(Pushed(pushes + 1)) < MaxRows /\ buffer' = Pushed(pushes + 1)
        \/ buffer' = << >>
    BY <1>2 DEF Push, DoFlush, Keep
  <2> QED BY <1>1, <2>2, <2>3 DEF ShortBuffer
<1>3. CASE TimerFires \/ \E c \in Callers : Flush(c)
  BY <1>1, <1>3 DEF TimerFires, Flush, DoFlush, ShortBuffer
<1>4. CASE \/ \E c \in Callers : FlushResolves(c)
           \/ \E i \in 1 .. Len(tasks) :
                 WriterSettles(i, "ok") \/ WriterSettles(i, "failed")
  BY <1>4 DEF FlushResolves, WriterSettles, ShortBuffer
<1>5. CASE UNCHANGED batcherVars
  BY <1>5 DEF batcherVars, ShortBuffer
<1> QED BY <1>2, <1>3, <1>4, <1>5 DEF Next

(* As the server is configured (LIMITS: 500 rows against a cap of 10000) the *)
(* drop-oldest branch of push is never taken: a push that fills the buffer   *)
(* up to maxRows empties it, whether or not the earlier batches are written. *)
THEOREM NeverDropsAsConfigured ==
    ASSUME MaxRows <= BufferCap
    PROVE  Spec => [](dropped = 0)
<1> DEFINE Short == IInv /\ ShortBuffer
<1>1. Init => Short
  <2>1. Init => ShortBuffer
    BY BatcherAssumption DEF Init, ShortBuffer
  <2> QED BY <2>1, InitIInv
<1>2. Short /\ [Next]_batcherVars => Short'
  BY StepIInv, StaysShort
<1>3. Short => dropped = 0
  BY DEF ShortBuffer
<1> QED BY <1>1, <1>2, <1>3, PTL DEF Spec

-----------------------------------------------------------------------------
(* The telemetry path.                                                       *)

(* Nothing is buffered once shutdown() has stopped the batcher, and what its *)
(* stop() is waiting for is every batch there is.                            *)
StopWaitsForAll ==
    /\ phase = "up" => \A c \in Callers : calls[c].st = "idle"
    /\ phase # "up" =>
          /\ buffer = << >>
          /\ \A c \in Callers : calls[c].st # "idle" => calls[c].on = 1 .. Len(tasks)
    /\ phase \in {"ending", "closed"} => \A i \in 1 .. Len(tasks) : Settled(i)

(* The time a payload gets when it comes at t. *)
StampedAt(m, t) == IF Stamp[m] # NoStamp /\ Apart(Stamp[m], t) <= Skew THEN Stamp[m] ELSE t

RowsStamped ==
    \A q \in 1 .. pushes :
        /\ rowOf[q].at <= clock
        /\ rowOf[q].key = <<DeviceOf[rowOf[q].msg], StampedAt(rowOf[q].msg, rowOf[q].at)>>

(* The rows of a batch that was inserted are in the table. *)
InsertedStored ==
    \A i \in inserted : \A r \in RowsOf(tasks[i].rows) : rowOf[r].key \in telemetry

(* A batch that counts as written was inserted and its devices touched. *)
OkTouched ==
    \A i \in 1 .. Len(tasks) : tasks[i].status = "ok" =>
        /\ i \in inserted
        /\ \A r \in RowsOf(tasks[i].rows) : lastSeen[rowOf[r].key[1]] >= rowOf[r].at

SeenByNow == \A d \in Devices : lastSeen[d] <= clock

JInv ==
    /\ IInv /\ IngestTypeOK /\ StopWaitsForAll /\ RowsStamped
    /\ InsertedStored /\ OkTouched /\ SeenByNow

-----------------------------------------------------------------------------
(* A step of the path is a step of the batcher, or leaves it alone. *)
LEMMA StepsOfBatcher == [IngestNext]_vars => [Next]_batcherVars
<1> SUFFICES ASSUME [IngestNext]_vars PROVE [Next]_batcherVars
  OBVIOUS
<1> USE DEF Next
<1>1. ASSUME NEW m, IngestTelemetry(m) PROVE Push \/ UNCHANGED batcherVars
  BY <1>1 DEF IngestTelemetry
<1>2. ASSUME NEW m \in MqttMessages, MqttDelivers(m) PROVE Push \/ UNCHANGED batcherVars
  BY <1>1, <1>2 DEF MqttDelivers
<1>3. ASSUME NEW m \in HttpMessages, HttpPosts(m) \/ HttpHandled(m)
      PROVE  Push \/ UNCHANGED batcherVars
  BY <1>1, <1>3 DEF HttpPosts, HttpHandled
<1>4. ASSUME NEW i \in 1 .. Len(tasks), WriterStep(i)
      PROVE  WriterSettles(i, "ok") \/ WriterSettles(i, "failed") \/ UNCHANGED batcherVars
  BY <1>4 DEF WriterStep, InsertBatch, TouchLastSeen, WriterFails
<1>5. ASSUME NEW c \in Callers, Shutdown(c) \/ BatcherStopped(c)
      PROVE  Flush(c) \/ FlushResolves(c)
  BY <1>5 DEF Shutdown, BatcherStopped
<1>6. FlushTimer => TimerFires
  BY DEF FlushTimer
<1>7. PoolEnds \/ Tick \/ UNCHANGED vars => UNCHANGED batcherVars
  BY DEF PoolEnds, Tick, vars
<1> QED
  BY <1>2, <1>3, <1>4, <1>5, <1>6, <1>7 DEF IngestNext

(* The telemetry path implements the batcher as it is specified. *)
THEOREM PathImplementsBatcher == IngestSpec => Spec
<1>1. IngestInit => Init
  BY DEF IngestInit
<1> QED
  BY <1>1, StepsOfBatcher, PTL DEF IngestSpec, Spec

(* What detaching a batch does to the batches before it. *)
LEMMA Detached ==
    ASSUME tasks \in Seq(Task), NEW rows \in Seq(Nat), DoFlush(rows)
    PROVE  /\ Len(tasks) \in Nat /\ Len(tasks') \in Nat /\ Len(tasks') >= Len(tasks)
           /\ \A i \in 1 .. Len(tasks) : tasks'[i] = tasks[i]
           /\ \A i \in 1 .. Len(tasks') : i \in 1 .. Len(tasks) \/ tasks'[i].status = "running"
<1>1. Len(tasks) \in Nat
  BY LenProperties
<1>2. CASE rows = << >>
  BY <1>1, <1>2 DEF DoFlush
<1>3. CASE rows # << >>
  <2> DEFINE t == [rows |-> rows, status |-> "running"]
  <2>1. tasks' = Append(tasks, t) /\ t \in Task /\ t.status = "running"
    BY <1>3 DEF DoFlush, Task
  <2> HIDE DEF t
  <2>2. /\ Len(tasks') = Len(tasks) + 1
        /\ \A i \in 1 .. Len(tasks) : tasks'[i] = tasks[i]
        /\ tasks'[Len(tasks) + 1] = t
    BY <2>1, AppendProperties
  <2> QED
    BY <1>1, <2>1, <2>2
<1> QED
  BY <1>2, <1>3

(* The rows of a batch came before now. *)
LEMMA BatchedRows ==
    ASSUME IInv
    PROVE  /\ \A i \in 1 .. Len(tasks) : RowsOf(tasks[i].rows) \subseteq 1 .. pushes
           /\ pushes \in Nat /\ tasks \in Seq(Task) /\ buffer \in Seq(Nat) /\ Len(tasks) \in Nat
<1>1. /\ pushes \in Nat /\ tasks \in Seq(Task) /\ buffer \in Seq(Nat)
      /\ Len(buffer) \in Nat /\ Len(tasks) \in Nat
      /\ \A i \in 1 .. Len(tasks) : RowsOf(tasks[i].rows) \subseteq 1 .. pushes - Len(buffer)
  BY LenProperties DEF IInv, TypeOK, Newest
<1>2. 1 .. pushes - Len(buffer) \subseteq 1 .. pushes
  BY <1>1
<1> QED
  BY <1>1, <1>2

(* What a push does to the batches: it may start one. *)
LEMMA PushDetaches ==
    ASSUME IInv, Push
    PROVE  /\ pushes' = pushes + 1 /\ calls' = calls
           /\ Len(tasks') \in Nat /\ Len(tasks') >= Len(tasks)
           /\ \A i \in 1 .. Len(tasks) : tasks'[i] = tasks[i]
           /\ \A i \in 1 .. Len(tasks') : i \in 1 .. Len(tasks) \/ tasks'[i].status = "running"
<1>1. Pushed(pushes + 1) \in Seq(Nat) /\ tasks \in Seq(Task) /\ Len(tasks) \in Nat
  BY PushedNewest, BatchedRows DEF Newest
<1>2. CASE DoFlush(Pushed(pushes + 1))
  BY <1>1, <1>2, Detached DEF Push
<1>3. CASE Keep(Pushed(pushes + 1))
  BY <1>1, <1>3 DEF Push, Keep
<1> QED
  BY <1>2, <1>3 DEF Push

-----------------------------------------------------------------------------
(* Nothing is stored, posted or seen when the server starts. *)
LEMMA InitJInv == IngestInit => JInv
<1> SUFFICES ASSUME IngestInit PROVE JInv
  OBVIOUS
<1>1. IInv
  BY InitIInv DEF IngestInit
<1>2. rowOf = << >> /\ Len(rowOf) = 0 /\ pushes = 0 /\ inserted = {} /\ Len(tasks) = 0 /\ phase = "up"
  BY DEF IngestInit, Init
<1>3. IngestTypeOK
  <2>1. rowOf \in Seq([key : Devices \X Nat, at : Nat, msg : Messages])
    BY <1>2, EmptySeq
  <2>2. 0 \in 0 .. MaxClock
    BY IngestAssumption
  <2> QED
    BY <1>1, <1>2, <2>1, <2>2 DEF IngestInit, IngestTypeOK, IInv
<1>4. StopWaitsForAll
  BY <1>2 DEF IngestInit, Init, StopWaitsForAll, NoCall
<1> QED
  BY <1>1, <1>2, <1>3, <1>4 DEF IngestInit, JInv, RowsStamped, InsertedStored, OkTouched, SeenByNow

(* A payload is accepted or refused: an accepted one gets the next row. *)
LEMMA TelemetryStep ==
    ASSUME JInv, NEW m \in Messages, IngestTelemetry(m), posting' \subseteq HttpMessages,
           UNCHANGED <<clock, inserted, telemetry, lastSeen, phase>>
    PROVE  JInv'
<1> DEFINE RowType == [key : Devices \X Nat, at : Nat, msg : Messages]
<1>1. IInv'
  BY StepIInv DEF JInv, IngestTelemetry, Next
<1>2. CASE UNCHANGED <<batcherVars, rowOf>>
  BY <1>1, <1>2 DEF JInv, IngestTypeOK, IInv, batcherVars, StopWaitsForAll, Settled, RowsStamped,
                    InsertedStored, OkTouched, SeenByNow
<1>3. CASE IntakeOpen /\ rowOf' = Append(rowOf, Row(m)) /\ Push
  <2>1. /\ pushes' = pushes + 1 /\ calls' = calls
        /\ Len(tasks') \in Nat /\ Len(tasks') >= Len(tasks) /\ Len(tasks) \in Nat /\ pushes \in Nat
        /\ \A i \in 1 .. Len(tasks) : tasks'[i] = tasks[i] /\ RowsOf(tasks[i].rows) \subseteq 1 .. pushes
        /\ \A i \in 1 .. Len(tasks') : i \in 1 .. Len(tasks) \/ tasks'[i].status = "running"
    BY <1>3, PushDetaches, BatchedRows DEF JInv
  <2>2. clock \in 0 .. MaxClock /\ clock \in Nat /\ clock <= clock
    BY IngestAssumption DEF JInv, IngestTypeOK
  <2>3. /\ Row(m) \in RowType /\ Row(m).at = clock /\ Row(m).msg = m
        /\ Row(m).key = <<DeviceOf[m], StampedAt(m, clock)>>
    <3>1. DeviceOf[m] \in Devices /\ Stamp[m] \in Nat \cup {NoStamp}
      BY IngestAssumption
    <3>2. RowTime(m) = StampedAt(m, clock) /\ RowTime(m) \in Nat
      BY <2>2, <3>1 DEF RowTime, StampedAt
    <3> QED
      BY <2>2, <3>1, <3>2 DEF Row
  <2>4. rowOf \in Seq(RowType) /\ Len(rowOf) = pushes
    BY DEF JInv, IngestTypeOK
  <2>5. /\ rowOf' \in Seq(RowType) /\ Len(rowOf') = pushes'
        /\ \A q \in 1 .. pushes : rowOf'[q] = rowOf[q]
        /\ rowOf'[pushes + 1] = Row(m)
    <3> HIDE DEF RowType
    <3> QED
      BY <1>3, <2>1, <2>3, <2>4, AppendProperties
  <2>6. inserted \subseteq 1 .. Len(tasks) /\ 1 .. Len(tasks) \subseteq 1 .. Len(tasks')
    BY <2>1 DEF JInv, IngestTypeOK
  <2>7. IngestTypeOK'
    BY <1>1, <2>5, <2>6 DEF JInv, IngestTypeOK, IInv
  <2>8. StopWaitsForAll'
    BY <1>3, <2>1 DEF JInv, StopWaitsForAll, IntakeOpen
  <2>9. RowsStamped'
    <3> SUFFICES ASSUME NEW q \in 1 .. pushes'
                 PROVE  /\ rowOf'[q].at <= clock
                        /\ rowOf'[q].key = <<DeviceOf[rowOf'[q].msg], StampedAt(rowOf'[q].msg, rowOf'[q].at)>>
      BY DEF RowsStamped, StampedAt, Apart
    <3>1. CASE q \in 1 .. pushes
      BY <2>5, <3>1 DEF JInv, RowsStamped
    <3>2. CASE q = pushes + 1
      BY <2>2, <2>3, <2>5, <3>2
    <3> QED
      BY <2>1, <3>1, <3>2
  <2>10. InsertedStored'
    BY <2>1, <2>5, <2>6 DEF JInv, InsertedStored
  <2>11. OkTouched'
    BY <2>1, <2>5 DEF JInv, OkTouched
  <2>12. SeenByNow'
    BY DEF JInv, SeenByNow
  <2> QED
    BY <1>1, <2>7, <2>8, <2>9, <2>10, <2>11, <2>12 DEF JInv
<1> QED
  BY <1>2, <1>3 DEF IngestTelemetry

(* The INSERT of a batch puts its rows into the table. *)
LEMMA InsertStep ==
    ASSUME JInv, NEW i \in 1 .. Len(tasks), InsertBatch(i)
    PROVE  JInv'
<1>1. /\ UNCHANGED <<batcherVars, clock, posting, rowOf, lastSeen, phase>>
      /\ inserted' = inserted \cup {i} /\ telemetry' = telemetry \cup KeysOf(tasks[i].rows)
  BY DEF InsertBatch
<1>2. UNCHANGED <<buffer, dropped, timer, tasks, pending, pushes, calls>>
  BY <1>1 DEF batcherVars
<1>3. IInv'
  BY <1>1, StepIInv DEF JInv
<1>4. \A r \in RowsOf(tasks[i].rows) : r \in 1 .. Len(rowOf) /\ rowOf[r].key \in Devices \X Nat
  <2>1. \A r \in 1 .. Len(rowOf) : rowOf[r] \in [key : Devices \X Nat, at : Nat, msg : Messages]
    BY ElementOfSeq DEF JInv, IngestTypeOK
  <2> QED
    BY <2>1, BatchedRows DEF JInv, IngestTypeOK
<1>5. IngestTypeOK'
  BY <1>1, <1>2, <1>3, <1>4 DEF JInv, IngestTypeOK, IInv, KeysOf
<1>6. InsertedStored'
  BY <1>1, <1>2 DEF JInv, InsertedStored, KeysOf
<1>7. StopWaitsForAll' /\ RowsStamped' /\ OkTouched' /\ SeenByNow'
  BY <1>1, <1>2 DEF JInv, StopWaitsForAll, Settled, RowsStamped, OkTouched, SeenByNow
<1> QED
  BY <1>3, <1>5, <1>6, <1>7 DEF JInv

(* A writer call that settles changes no row of any batch. *)
LEMMA SettledTasks ==
    ASSUME JInv, NEW i \in 1 .. Len(tasks), NEW status \in {"ok", "failed"}, WriterSettles(i, status)
    PROVE  /\ UNCHANGED <<buffer, dropped, timer, pending, pushes, calls>>
           /\ Len(tasks') = Len(tasks) /\ tasks'[i].status = status /\ IInv'
           /\ \A j \in 1 .. Len(tasks) : tasks'[j].rows = tasks[j].rows
           /\ \A j \in 1 .. Len(tasks) : j # i => tasks'[j] = tasks[j]
<1>1. IInv'
  BY StepIInv DEF JInv, Next
<1>2. /\ UNCHANGED <<buffer, dropped, timer, pending, pushes, calls>>
      /\ tasks' = [tasks EXCEPT ![i].status = status] /\ tasks \in Seq(Task)
  BY DEF WriterSettles, JInv, IInv, TypeOK
<1>3. tasks[i] \in Task
  BY <1>2, ElementOfSeq
<1> DEFINE t == [tasks[i] EXCEPT !.status = status]
<1>4. t \in Task /\ t.rows = tasks[i].rows /\ t.status = status /\ tasks' = [tasks EXCEPT ![i] = t]
  BY <1>2, <1>3 DEF Task
<1> HIDE DEF t
<1>5. /\ Len(tasks') = Len(tasks)
      /\ \A j \in 1 .. Len(tasks) : tasks'[j] = IF j = i THEN t ELSE tasks[j]
  BY <1>2, <1>4, ExceptSeq
<1> QED
  BY <1>1, <1>2, <1>4, <1>5

(* A settled batch leaves what shutdown waits for. *)
LEMMA SettlingKeeps ==
    ASSUME JInv, NEW i \in 1 .. Len(tasks), NEW status \in {"ok", "failed"}, WriterSettles(i, status),
           UNCHANGED <<phase, rowOf, clock, inserted, telemetry, posting>>,
           lastSeen' \in [Devices -> 0 .. MaxClock]
    PROVE  IngestTypeOK' /\ StopWaitsForAll' /\ RowsStamped' /\ InsertedStored'
<1>1. /\ UNCHANGED <<buffer, dropped, timer, pending, pushes, calls>>
      /\ Len(tasks') = Len(tasks) /\ tasks'[i].status = status /\ IInv'
      /\ \A j \in 1 .. Len(tasks) : tasks'[j].rows = tasks[j].rows
      /\ \A j \in 1 .. Len(tasks) : j # i => tasks'[j] = tasks[j]
  BY SettledTasks
<1>2. IngestTypeOK'
  BY <1>1 DEF JInv, IngestTypeOK, IInv
<1>3. StopWaitsForAll'
  BY <1>1 DEF JInv, StopWaitsForAll, Settled
<1>4. RowsStamped'
  BY <1>1 DEF JInv, RowsStamped, StampedAt
<1>5. InsertedStored'
  BY <1>1 DEF JInv, InsertedStored, IngestTypeOK
<1> QED
  BY <1>2, <1>3, <1>4, <1>5

(* touchLastSeen: the batch counts as written, its devices as seen now. *)
LEMMA TouchStep ==
    ASSUME JInv, NEW i \in 1 .. Len(tasks), TouchLastSeen(i)
    PROVE  JInv'
<1>1. /\ i \in inserted /\ WriterSettles(i, "ok")
      /\ lastSeen' = [d \in Devices |-> IF d \in DevicesOf(tasks[i].rows) THEN clock ELSE lastSeen[d]]
      /\ UNCHANGED <<clock, posting, rowOf, inserted, telemetry, phase>>
  BY DEF TouchLastSeen
<1>2. /\ clock \in 0 .. MaxClock /\ lastSeen \in [Devices -> 0 .. MaxClock] /\ MaxClock \in Nat
      /\ \A d \in Devices : lastSeen[d] <= clock
  BY IngestAssumption DEF JInv, IngestTypeOK, SeenByNow
<1>3. /\ lastSeen' \in [Devices -> 0 .. MaxClock]
      /\ \A d \in Devices : lastSeen[d] <= lastSeen'[d] /\ lastSeen'[d] <= clock
  BY <1>1, <1>2
<1>4. IngestTypeOK' /\ StopWaitsForAll' /\ RowsStamped' /\ InsertedStored'
  BY <1>1, <1>3, SettlingKeeps
<1>5. /\ Len(tasks') = Len(tasks) /\ IInv' /\ UNCHANGED pushes
      /\ \A j \in 1 .. Len(tasks) : tasks'[j].rows = tasks[j].rows
      /\ \A j \in 1 .. Len(tasks) : j # i => tasks'[j] = tasks[j]
  BY <1>1, SettledTasks
<1>6. \A j \in 1 .. Len(tasks) : \A r \in RowsOf(tasks[j].rows) :
         /\ r \in 1 .. pushes /\ rowOf[r].at \in Nat /\ rowOf[r].at <= clock /\ rowOf[r].key[1] \in Devices
  <2>1. \A r \in 1 .. Len(rowOf) : rowOf[r] \in [key : Devices \X Nat, at : Nat, msg : Messages]
    BY ElementOfSeq DEF JInv, IngestTypeOK
  <2>2. \A r \in 1 .. pushes : rowOf[r].at \in Nat /\ rowOf[r].key[1] \in Devices /\ rowOf[r].at <= clock
    BY <2>1 DEF JInv, IngestTypeOK, RowsStamped
  <2> QED
    BY <2>2, BatchedRows DEF JInv
<1>7. OkTouched'
  <2> SUFFICES ASSUME NEW j \in 1 .. Len(tasks), tasks'[j].status = "ok"
               PROVE  /\ j \in inserted
                      /\ \A r \in RowsOf(tasks[j].rows) : lastSeen'[rowOf[r].key[1]] >= rowOf[r].at
    BY <1>1, <1>5 DEF OkTouched
  <2>1. CASE j = i
    <3> SUFFICES ASSUME NEW r \in RowsOf(tasks[i].rows) PROVE lastSeen'[rowOf[r].key[1]] >= rowOf[r].at
      BY <1>1, <2>1
    <3>1. lastSeen'[rowOf[r].key[1]] = clock
      BY <1>1, <1>6 DEF DevicesOf
    <3> QED
      BY <1>2, <1>6, <3>1
  <2>2. CASE j # i
    <3>1. j \in inserted /\ \A r \in RowsOf(tasks[j].rows) : lastSeen[rowOf[r].key[1]] >= rowOf[r].at
      BY <1>5, <2>2 DEF JInv, OkTouched
    <3> SUFFICES ASSUME NEW r \in RowsOf(tasks[j].rows) PROVE lastSeen'[rowOf[r].key[1]] >= rowOf[r].at
      BY <3>1
    <3>2. /\ lastSeen[rowOf[r].key[1]] \in Nat /\ lastSeen'[rowOf[r].key[1]] \in Nat /\ rowOf[r].at \in Nat
          /\ lastSeen[rowOf[r].key[1]] <= lastSeen'[rowOf[r].key[1]]
          /\ lastSeen[rowOf[r].key[1]] >= rowOf[r].at
      BY <1>2, <1>3, <1>6, <3>1
    <3> QED
      BY <3>2
  <2> QED
    BY <2>1, <2>2
<1>8. SeenByNow'
  BY <1>1, <1>3 DEF SeenByNow
<1> QED
  BY <1>4, <1>5, <1>7, <1>8 DEF JInv

(* A batch that failed is given up. *)
LEMMA FailStep ==
    ASSUME JInv, NEW i \in 1 .. Len(tasks), WriterFails(i)
    PROVE  JInv'
<1>1. WriterSettles(i, "failed") /\ UNCHANGED <<clock, posting, rowOf, inserted, telemetry, lastSeen, phase>>
  BY DEF WriterFails, ingestVars
<1>2. IngestTypeOK' /\ StopWaitsForAll' /\ RowsStamped' /\ InsertedStored'
  BY <1>1, SettlingKeeps DEF JInv, IngestTypeOK
<1>3. /\ Len(tasks') = Len(tasks) /\ tasks'[i].status = "failed" /\ IInv'
      /\ \A j \in 1 .. Len(tasks) : j # i => tasks'[j] = tasks[j]
  BY <1>1, SettledTasks
<1>4. OkTouched' /\ SeenByNow'
  BY <1>1, <1>3 DEF JInv, OkTouched, SeenByNow
<1> QED
  BY <1>2, <1>3, <1>4 DEF JInv

(* The flush timer fires, which it does only while the intake is open. *)
LEMMA TimerKeeps ==
    ASSUME JInv, FlushTimer
    PROVE  JInv'
<1>1. /\ timer /\ DoFlush(buffer) /\ UNCHANGED <<dropped, pushes, calls>>
      /\ UNCHANGED <<clock, posting, rowOf, inserted, telemetry, lastSeen, phase>>
  BY DEF FlushTimer, TimerFires, ingestVars
<1>2. IInv'
  BY StepIInv DEF JInv, FlushTimer, Next
<1>3. phase = "up"
  BY <1>1 DEF JInv, IInv, TimerArmed, StopWaitsForAll
<1>4. /\ Len(tasks') \in Nat /\ Len(tasks') >= Len(tasks) /\ Len(tasks) \in Nat
      /\ \A i \in 1 .. Len(tasks) : tasks'[i] = tasks[i]
      /\ \A i \in 1 .. Len(tasks') : i \in 1 .. Len(tasks) \/ tasks'[i].status = "running"
  BY <1>1, Detached, BatchedRows DEF JInv
<1>5. inserted \subseteq 1 .. Len(tasks) /\ inserted \subseteq 1 .. Len(tasks')
  BY <1>4 DEF JInv, IngestTypeOK
<1>6. IngestTypeOK' /\ StopWaitsForAll' /\ RowsStamped' /\ SeenByNow'
  BY <1>1, <1>2, <1>3, <1>5 DEF JInv, IngestTypeOK, IInv, StopWaitsForAll, RowsStamped, SeenByNow
<1>7. InsertedStored' /\ OkTouched'
  BY <1>1, <1>4, <1>5 DEF JInv, InsertedStored, OkTouched
<1> QED
  BY <1>2, <1>6, <1>7 DEF JInv

(* shutdown() stops the batcher: what stop() waits for is every batch. *)
LEMMA ShutdownStep ==
    ASSUME JInv, NEW c \in Callers, Shutdown(c)
    PROVE  JInv'
<1>1. /\ phase = "up" /\ phase' = "draining" /\ DoFlush(buffer) /\ UNCHANGED <<dropped, pushes>>
      /\ calls' = [calls EXCEPT ![c] = [st |-> "waiting", on |-> pending', upTo |-> pushes]]
      /\ UNCHANGED <<clock, posting, rowOf, inserted, telemetry, lastSeen>>
  BY DEF Shutdown, Flush
<1>2. IInv'
  BY StepIInv DEF JInv, Shutdown, Next
<1>3. /\ Len(tasks') \in Nat /\ Len(tasks') >= Len(tasks) /\ Len(tasks) \in Nat
      /\ \A i \in 1 .. Len(tasks) : tasks'[i] = tasks[i]
      /\ \A i \in 1 .. Len(tasks') : i \in 1 .. Len(tasks) \/ tasks'[i].status = "running"
  BY <1>1, Detached, BatchedRows DEF JInv
<1>4. inserted \subseteq 1 .. Len(tasks) /\ inserted \subseteq 1 .. Len(tasks')
  BY <1>3 DEF JInv, IngestTypeOK
<1>5. StopWaitsForAll'
  <2>1. buffer' = << >> /\ pending' = 1 .. Len(tasks')
    BY <1>1, <1>2 DEF DoFlush, IInv
  <2>2. \A d \in Callers : calls[d].st = "idle" /\ calls \in [Callers -> Call]
    BY <1>1 DEF JInv, StopWaitsForAll, IInv, TypeOK
  <2>3. \A d \in Callers : calls'[d].st # "idle" => calls'[d].on = 1 .. Len(tasks')
    BY <1>1, <2>1, <2>2
  <2> QED
    BY <1>1, <2>1, <2>3 DEF StopWaitsForAll
<1>6. IngestTypeOK' /\ RowsStamped' /\ SeenByNow'
  BY <1>1, <1>2, <1>4 DEF JInv, IngestTypeOK, IInv, RowsStamped, SeenByNow
<1>7. InsertedStored' /\ OkTouched'
  BY <1>1, <1>3, <1>4 DEF JInv, InsertedStored, OkTouched
<1> QED
  BY <1>2, <1>5, <1>6, <1>7 DEF JInv

(* stop() resolved: every batch has settled. *)
LEMMA StoppedStep ==
    ASSUME JInv, NEW c \in Callers, BatcherStopped(c)
    PROVE  JInv'
<1>1. /\ phase = "draining" /\ phase' = "ending"
      /\ calls[c].st = "waiting" /\ \A i \in calls[c].on : Settled(i)
      /\ calls' = [calls EXCEPT ![c].st = "resolved"]
      /\ UNCHANGED <<buffer, dropped, timer, tasks, pending, pushes>>
      /\ UNCHANGED <<clock, posting, rowOf, inserted, telemetry, lastSeen>>
  BY DEF BatcherStopped, FlushResolves
<1>2. IInv'
  BY StepIInv DEF JInv, BatcherStopped, Next
<1>3. calls \in [Callers -> Call] /\ calls[c].on = 1 .. Len(tasks)
  BY <1>1 DEF JInv, IInv, TypeOK, StopWaitsForAll
<1>4. StopWaitsForAll'
  <2>1. \A d \in Callers : calls'[d].on = calls[d].on /\ (calls'[d].st # "idle" => calls[d].st # "idle")
    BY <1>1, <1>3 DEF Call
  <2> QED
    BY <1>1, <1>3, <2>1 DEF JInv, StopWaitsForAll, Settled
<1>5. IngestTypeOK' /\ RowsStamped' /\ SeenByNow' /\ InsertedStored' /\ OkTouched'
  BY <1>1, <1>2 DEF JInv, IngestTypeOK, IInv, RowsStamped, SeenByNow, InsertedStored, OkTouched
<1> QED
  BY <1>2, <1>4, <1>5 DEF JInv

(* The other steps change nothing the invariant speaks of but the clock, the *)
(* requests and the phase.                                                   *)
LEMMA QuietSteps ==
    ASSUME JInv, \/ PoolEnds
                 \/ Tick
                 \/ \E m \in HttpMessages : HttpPosts(m)
                 \/ UNCHANGED vars
    PROVE  JInv'
<1>1. /\ UNCHANGED <<batcherVars, rowOf, inserted, telemetry, lastSeen>>
      /\ posting' \subseteq HttpMessages /\ clock' \in 0 .. MaxClock /\ clock <= clock'
      /\ phase' = phase \/ (phase = "ending" /\ phase' = "closed")
  BY IngestAssumption DEF PoolEnds, Tick, HttpPosts, vars, ingestVars, JInv, IngestTypeOK
<1>2. UNCHANGED <<buffer, dropped, timer, tasks, pending, pushes, calls>>
  BY <1>1 DEF batcherVars
<1>3. IInv'
  BY <1>1, StepIInv DEF JInv
<1>4. IngestTypeOK' /\ StopWaitsForAll' /\ InsertedStored' /\ OkTouched'
  BY <1>1, <1>2, <1>3 DEF JInv, IngestTypeOK, IInv, StopWaitsForAll, Settled, InsertedStored, OkTouched
<1>5. clock \in Nat /\ clock' \in Nat
  BY <1>1, IngestAssumption DEF JInv, IngestTypeOK
<1>6. SeenByNow'
  <2>1. \A d \in Devices : lastSeen[d] \in Nat
    BY DEF JInv, IngestTypeOK
  <2> QED
    BY <1>1, <1>5, <2>1 DEF JInv, SeenByNow
<1>7. RowsStamped'
  <2>0. \A r \in 1 .. Len(rowOf) : rowOf[r] \in [key : Devices \X Nat, at : Nat, msg : Messages]
    BY ElementOfSeq DEF JInv, IngestTypeOK
  <2>1. \A q \in 1 .. pushes : rowOf[q].at \in Nat
    BY <2>0 DEF JInv, IngestTypeOK
  <2>2. \A q \in 1 .. pushes : rowOf[q].at <= clock'
    BY <1>1, <1>5, <2>1 DEF JInv, RowsStamped
  <2> QED
    BY <1>1, <1>2, <2>2 DEF JInv, RowsStamped, StampedAt
<1> QED
  BY <1>3, <1>4, <1>6, <1>7 DEF JInv

LEMMA NextJInv == JInv /\ [IngestNext]_vars => JInv'
<1> SUFFICES ASSUME JInv, [IngestNext]_vars PROVE JInv'
  OBVIOUS
<1>1. ASSUME NEW m \in MqttMessages, MqttDelivers(m) PROVE JInv'
  <2>1. m \in Messages /\ posting' \subseteq HttpMessages
    BY <1>1 DEF MqttDelivers, Messages, JInv, IngestTypeOK
  <2> QED
    BY <1>1, <2>1, TelemetryStep DEF MqttDelivers
<1>2. ASSUME NEW m \in HttpMessages, HttpHandled(m) PROVE JInv'
  <2>1. m \in Messages /\ posting' \subseteq HttpMessages
    BY <1>2 DEF HttpHandled, Messages, JInv, IngestTypeOK
  <2>2. CASE IngestTelemetry(m)
    BY <1>2, <2>1, <2>2, TelemetryStep DEF HttpHandled
  <2>3. CASE UNCHANGED <<batcherVars, rowOf>>
    <3>1. UNCHANGED <<batcherVars, rowOf, clock, inserted, telemetry, lastSeen, phase>>
      BY <1>2, <2>3 DEF HttpHandled
    <3>2. IInv'
      BY <3>1, StepIInv DEF JInv
    <3> QED
      BY <2>1, <3>1, <3>2 DEF JInv, IngestTypeOK, IInv, batcherVars, StopWaitsForAll, Settled, RowsStamped,
                              InsertedStored, OkTouched, SeenByNow
  <2> QED
    BY <1>2, <2>2, <2>3 DEF HttpHandled
<1>3. ASSUME NEW i \in 1 .. Len(tasks), WriterStep(i) PROVE JInv'
  BY <1>3, InsertStep, TouchStep, FailStep DEF WriterStep
<1>4. ASSUME NEW c \in Callers, Shutdown(c) \/ BatcherStopped(c) PROVE JInv'
  BY <1>4, ShutdownStep, StoppedStep
<1>5. CASE FlushTimer
  BY <1>5, TimerKeeps
<1>6. CASE \/ PoolEnds
           \/ Tick
           \/ \E m \in HttpMessages : HttpPosts(m)
           \/ UNCHANGED vars
  BY <1>6, QuietSteps
<1> QED
  BY <1>1, <1>2, <1>3, <1>4, <1>5, <1>6 DEF IngestNext

(* Everything above holds in every state of the path. *)
THEOREM IngestSafety == IngestSpec => []JInv
<1> QED
  BY InitJInv, NextJInv, PTL DEF IngestSpec

(* The type invariant of the path. *)
THEOREM IngestTypes == IngestSpec => []IngestTypeOK
<1>1. JInv => IngestTypeOK
  BY DEF JInv
<1> QED
  BY <1>1, IngestSafety, PTL

(* A batch that counts as flushed is in the table, and its devices were seen  *)
(* no earlier than its rows came.                                             *)
THEOREM FlushedStays == IngestSpec => []FlushedIsDurable
<1>1. JInv => FlushedIsDurable
  BY DEF JInv, InsertedStored, OkTouched, FlushedIsDurable
<1> QED
  BY <1>1, IngestSafety, PTL

(* Redeliveries of a payload whose own time counts all have one key. *)
THEOREM StoredOnce == IngestSpec => []StampedStoredOnce
<1>1. JInv => StampedStoredOnce
  <2> SUFFICES ASSUME JInv, NEW m \in Messages, AlwaysInSkew(m) PROVE Cardinality(StoredFor(m)) <= 1
    BY DEF StampedStoredOnce
  <2> DEFINE key == <<DeviceOf[m], Stamp[m]>>
  <2>1. clock \in Nat /\ Len(rowOf) = pushes
        /\ rowOf \in Seq([key : Devices \X Nat, at : Nat, msg : Messages])
    BY IngestAssumption DEF JInv, IngestTypeOK
  <2>2. ASSUME NEW q \in 1 .. pushes, rowOf[q].msg = m PROVE rowOf[q].key = key
    <3>0. \A r \in 1 .. Len(rowOf) : rowOf[r] \in [key : Devices \X Nat, at : Nat, msg : Messages]
      BY <2>1, ElementOfSeq
    <3>1. rowOf[q].at \in Nat
      BY <2>1, <3>0
    <3>2. rowOf[q].at \in 0 .. clock
      BY <2>1, <3>1 DEF JInv, RowsStamped
    <3>3. StampedAt(m, rowOf[q].at) = Stamp[m]
      BY <3>2 DEF AlwaysInSkew, StampedAt
    <3> QED
      BY <2>2, <3>3 DEF JInv, RowsStamped
  <2>3. StoredFor(m) \subseteq {key}
    BY <2>2 DEF StoredFor
  <2> HIDE DEF key
  <2>4. IsFiniteSet({key}) /\ Cardinality({key}) = 1
    BY FS_Singleton
  <2> QED
    BY <2>3, <2>4, FS_Subset
<1> QED
  BY <1>1, IngestSafety, PTL

(* shutdown() loses no accepted row, as the server is configured: the buffer  *)
(* flushes below its cap, stop() comes after the intake closed and waits for  *)
(* every batch.                                                               *)
THEOREM GracefulShutdown ==
    ASSUME MaxRows <= BufferCap
    PROVE  IngestSpec => []ShutdownDrains
<1> DEFINE Short == JInv /\ ShortBuffer
<1>1. IngestInit => Short
  <2>1. Init => ShortBuffer
    BY BatcherAssumption DEF Init, ShortBuffer
  <2> QED
    BY <2>1, InitJInv DEF IngestInit
<1>2. Short /\ [IngestNext]_vars => Short'
  BY NextJInv, StepsOfBatcher, StaysShort DEF JInv
<1>3. Short => ShutdownDrains
  <2> SUFFICES ASSUME JInv, dropped = 0, phase = "closed" PROVE ShutdownDrains
    BY DEF ShutdownDrains, ShortBuffer
  <2>1. buffer = << >> /\ ~timer /\ \A i \in 1 .. Len(tasks) : Settled(i)
    BY DEF JInv, StopWaitsForAll, IInv, TimerArmed
  <2>2. pushes \in Nat /\ Len(buffer) = 0 /\ tasks \in Seq(Task) /\ pushes - 0 = pushes
    BY <2>1, BatchedRows DEF JInv
  <2>3. Missing(pushes, tasks) = {}
    <3>1. Cardinality(Missing(pushes, tasks)) = 0
      BY <2>2 DEF JInv, IInv
    <3>2. IsFiniteSet(1 .. pushes)
      BY <2>2, FS_Interval
    <3>3. IsFiniteSet(Missing(pushes, tasks))
      BY <3>2, FS_Subset DEF Missing
    <3> QED
      BY <3>1, <3>3, FS_EmptySet
  <2>4. ASSUME NEW r \in 1 .. pushes
        PROVE  \/ rowOf[r].key \in telemetry
               \/ \E i \in 1 .. Len(tasks) : r \in RowsOf(tasks[i].rows) /\ tasks[i].status = "failed"
    <3>1. PICK i \in 1 .. Len(tasks) : r \in RowsOf(tasks[i].rows)
      BY <2>3 DEF Missing
    <3>2. tasks[i].status = "ok" \/ tasks[i].status = "failed"
      <4>1. tasks[i] \in Task
        BY <2>2, ElementOfSeq
      <4> QED
        BY <2>1, <4>1 DEF Task, Settled
    <3> QED
      BY <3>1, <3>2 DEF JInv, OkTouched, InsertedStored
  <2> QED
    BY <2>1, <2>4 DEF ShutdownDrains
<1> QED
  BY <1>1, <1>2, <1>3, PTL DEF IngestSpec
==============================================================================
