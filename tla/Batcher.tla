------------------------------- MODULE Batcher -------------------------------
(***************************************************************************)
(* The ingest batcher (apps/server/src/ingest/batcher.ts): rows are         *)
(* buffered, detached as a batch when the buffer is long enough or a timer  *)
(* fires, and written by an asynchronous writer that may fail.  The batcher *)
(* is generic in its rows, so a row is its arrival number 1, 2, 3, ...      *)
(* One handler of the event loop is one action; several writer calls may    *)
(* be in flight at once and settle in any order.                            *)
(***************************************************************************)
EXTENDS Naturals, Sequences, FiniteSets

CONSTANTS
    MaxRows,     \* flush when the buffer holds this many rows
    BufferCap,   \* drop the oldest row when the buffer holds this many
    Callers,     \* the calls of flush() and stop() made by the rest of the server
    MaxPushes    \* bound of the model: rows pushed in a behaviour

ASSUME BatcherAssumption ==
    /\ MaxRows \in Nat \ {0}
    /\ BufferCap \in Nat \ {0}
    /\ MaxPushes \in Nat

VARIABLES
    buffer,      \* the rows waiting to be written, oldest first
    dropped,     \* droppedCount()
    timer,       \* whether the flush timer is armed
    tasks,       \* every call made of the writer: its rows and how it settled
    pending,     \* the tasks chained into the promise `pending`
    pushes,      \* history: rows pushed so far
    calls        \* the promises handed to the callers of flush() and stop()

batcherVars == <<buffer, dropped, timer, tasks, pending, pushes, calls>>

RowsOf(s) == {s[i] : i \in 1 .. Len(s)}
Settled(i) == tasks[i].status # "running"
InTask(r) == \E i \in 1 .. Len(tasks) : r \in RowsOf(tasks[i].rows)
NoCall == [st |-> "idle", on |-> {}, upTo |-> 0]

Init ==
    /\ buffer = << >>
    /\ dropped = 0
    /\ timer = FALSE
    /\ tasks = << >>
    /\ pending = {}
    /\ pushes = 0
    /\ calls = [c \in Callers |-> NoCall]

-----------------------------------------------------------------------------
(* Slips a change of the code could make, one per property that catches it.  *)

(* The buffer is not replaced when its rows are handed to the writer. *)
DoFlushKeeping(rows) ==
    /\ timer' = FALSE
    /\ buffer' = rows
    /\ IF rows = << >>
         THEN UNCHANGED <<tasks, pending>>
         ELSE /\ tasks' = Append(tasks, [rows |-> rows, status |-> "running"])
              /\ pending' = pending \cup {Len(tasks) + 1}

(* `pending = task` instead of chaining the task behind the earlier ones. *)
DoFlushUnchained(rows) ==
    /\ timer' = FALSE
    /\ buffer' = << >>
    /\ IF rows = << >>
         THEN UNCHANGED <<tasks, pending>>
         ELSE /\ tasks' = Append(tasks, [rows |-> rows, status |-> "running"])
              /\ pending' = {Len(tasks) + 1}

(* `buffer.pop()` where `buffer.shift()` makes room. *)
PushedNewestOut(row) ==
    Append(IF Len(buffer) >= BufferCap THEN SubSeq(buffer, 1, Len(buffer) - 1)
           ELSE buffer, row)

(* A full buffer is emptied where one row should go. *)
PushedAllOut(row) ==
    Append(IF Len(buffer) >= BufferCap THEN << >> ELSE buffer, row)

(* The timer is not armed by a push that does not flush. *)
KeepUnarmed(rows) ==
    /\ buffer' = rows
    /\ UNCHANGED <<timer, tasks, pending>>

(* A failed write rejects the promise: the .catch of the task is gone. *)
FlushResolvesOk(c) ==
    /\ calls[c].st = "waiting"
    /\ \A i \in calls[c].on : tasks[i].status = "ok"
    /\ calls' = [calls EXCEPT ![c].st = "resolved"]
    /\ UNCHANGED <<buffer, dropped, timer, tasks, pending, pushes>>

-----------------------------------------------------------------------------
(***************************************************************************)
(* doFlush on a buffer that holds `rows`: the timer is cleared, and unless  *)
(* there is nothing to write the rows are detached into a new task that is  *)
(* chained behind the ones before it.                                       *)
(***************************************************************************)
DoFlush(rows) ==
    /\ timer' = FALSE
    /\ buffer' = << >>
    /\ IF rows = << >>
         THEN UNCHANGED <<tasks, pending>>
         ELSE /\ tasks' = Append(tasks, [rows |-> rows, status |-> "running"])
              /\ pending' = pending \cup {Len(tasks) + 1}

(* The buffer once the new row is in it: the oldest one makes room for it. *)
Pushed(row) ==
    Append(IF Len(buffer) >= BufferCap THEN Tail(buffer) ELSE buffer, row)

(* A push that does not flush leaves the timer armed. *)
Keep(rows) ==
    /\ buffer' = rows
    /\ timer' = TRUE
    /\ UNCHANGED <<tasks, pending>>

Push ==
    /\ pushes < MaxPushes
    /\ pushes' = pushes + 1
    /\ dropped' = IF Len(buffer) >= BufferCap THEN dropped + 1 ELSE dropped
    /\ LET rows == Pushed(pushes + 1)
       IN  \/ Len(rows) >= MaxRows /\ DoFlush(rows)
           \/ Len(rows) < MaxRows /\ Keep(rows)
    /\ UNCHANGED calls

(* The flush timer fires. *)
TimerFires ==
    /\ timer
    /\ DoFlush(buffer)
    /\ UNCHANGED <<dropped, pushes, calls>>

(* flush() or stop(): the caller is handed `pending` as doFlush leaves it. *)
Flush(c) ==
    /\ calls[c].st = "idle"
    /\ DoFlush(buffer)
    /\ calls' = [calls EXCEPT ![c] =
                    [st |-> "waiting", on |-> pending', upTo |-> pushes]]
    /\ UNCHANGED <<dropped, pushes>>

(* The promise handed to c resolves once every task chained in it settled. *)
FlushResolves(c) ==
    /\ calls[c].st = "waiting"
    /\ \A i \in calls[c].on : Settled(i)
    /\ calls' = [calls EXCEPT ![c].st = "resolved"]
    /\ UNCHANGED <<buffer, dropped, timer, tasks, pending, pushes>>

(* A call of the writer settles; a failed batch is logged, never retried. *)
WriterSettles(i, status) ==
    /\ ~Settled(i)
    /\ tasks' = [tasks EXCEPT ![i].status = status]
    /\ UNCHANGED <<buffer, dropped, timer, pending, pushes, calls>>

Next ==
    \/ Push
    \/ TimerFires
    \/ \E c \in Callers : Flush(c) \/ FlushResolves(c)
    \/ \E i \in 1 .. Len(tasks) :
          WriterSettles(i, "ok") \/ WriterSettles(i, "failed")

(* An armed timer fires, a writer call settles (the database answers or the *)
(* connection fails) and a resolved promise is delivered.                   *)
Fairness ==
    /\ WF_batcherVars(TimerFires)
    /\ \A i \in 1 .. MaxPushes :
          WF_batcherVars(/\ i <= Len(tasks)
                         /\ WriterSettles(i, "ok") \/ WriterSettles(i, "failed"))
    /\ \A c \in Callers : WF_batcherVars(FlushResolves(c))

Spec == Init /\ [][Next]_batcherVars
FairSpec == Spec /\ Fairness

-----------------------------------------------------------------------------
(* Every task has something to write: no path hands the writer an empty batch. *)
Task == [rows : Seq(Nat) \ {<< >>}, status : {"running", "ok", "failed"}]
Call == [st : {"idle", "waiting", "resolved"}, on : SUBSET Nat, upTo : Nat]

TypeOK ==
    /\ buffer \in Seq(Nat)
    /\ dropped \in Nat
    /\ timer \in BOOLEAN
    /\ tasks \in Seq(Task)
    /\ pending \in SUBSET Nat
    /\ pushes \in Nat
    /\ calls \in [Callers -> Call]

(* Drop-oldest keeps order and recency (push): the buffer is always the      *)
(* newest rows pushed, in arrival order and without a gap.                   *)
NewestKept == \A i \in 1 .. Len(buffer) : buffer[i] = pushes - Len(buffer) + i

(* droppedCount() is exact: a row that was pushed and is neither waiting nor *)
(* in a batch was dropped and counted; none is lost between push and doFlush. *)
Unheld == {r \in 1 .. pushes : r \notin RowsOf(buffer) /\ ~InTask(r)}

Accounting == dropped = Cardinality(Unheld)

(* Rows are written at most once and in arrival order, however calls of the  *)
(* writer overlap: a batch is increasing, older than every later batch and   *)
(* older than the buffer.                                                    *)
WrittenInOrder ==
    \A i \in 1 .. Len(tasks) :
        /\ \A p, q \in 1 .. Len(tasks[i].rows) :
              p < q => tasks[i].rows[p] < tasks[i].rows[q]
        /\ \A a \in RowsOf(tasks[i].rows) :
              /\ \A j \in i + 1 .. Len(tasks) : \A b \in RowsOf(tasks[j].rows) : a < b
              /\ \A b \in RowsOf(buffer) : a < b

(* Shutdown may rely on stop(): when the promise it returned resolves,       *)
(* every row pushed before the call was dropped or its write has settled,    *)
(* even when later batches settle before earlier ones.                       *)
FlushWaits ==
    \A c \in Callers : calls[c].st = "resolved" =>
        /\ \A r \in RowsOf(buffer) : r > calls[c].upTo
        /\ \A i \in 1 .. Len(tasks) :
              (\E r \in RowsOf(tasks[i].rows) : r <= calls[c].upTo) => Settled(i)

(* A flush is scheduled exactly when rows are waiting.                       *)
TimerArmed == timer <=> buffer # << >>

(* Every row pushed leaves the server, with no further push and no call of   *)
(* flush(): it is written, its write fails, or it is dropped.                *)
Gone(r) ==
    /\ r \notin RowsOf(buffer)
    /\ \A i \in 1 .. Len(tasks) : r \in RowsOf(tasks[i].rows) => Settled(i)

RowsSettle == \A r \in 1 .. MaxPushes : (r <= pushes) ~> Gone(r)

(* What constants.ts says of BATCH_BUFFER_CAP, "Bounded ingest buffer -      *)
(* beyond this, oldest rows are dropped (counted)": the rows the server      *)
(* holds, waiting or being written, never exceed the cap.                    *)
RunningRows == UNION {RowsOf(tasks[i].rows) : i \in {j \in 1 .. Len(tasks) : ~Settled(j)}}

HeldWithinCap == Len(buffer) + Cardinality(RunningRows) <= BufferCap
==============================================================================
