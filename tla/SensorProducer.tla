--------------------------- MODULE SensorProducer ---------------------------
(***************************************************************************)
(* producer.py, class SensorEventProducer: a thread that replays the rows  *)
(* of the sensor database into the shared queue, in batches, and ends the  *)
(* stream with a sentinel.  One action per step between two accesses to    *)
(* state another thread can see: the stop event, the queue, the counter.   *)
(***************************************************************************)
EXTENDS SharedQueue

CONSTANTS
    Rows,          \* the stored readings: their timestamps, in query order
    BatchSize,     \* batch_size of the producer
    EventKinds,    \* what _row_to_event may make of a row (errors injected)
    ConnectMayFail, \* whether sqlite3.connect can raise
    ReadMayFail,   \* whether the query, a fetch or a row can raise
    MaxRuns        \* bound on how often start() begins a run

ASSUME ProducerAssumption ==
    /\ Rows \in Seq(1..MaxTimestamp)
    /\ BatchSize \in Nat \ {0}
    /\ EventKinds \subseteq Kinds
    /\ ConnectMayFail \in BOOLEAN /\ ReadMayFail \in BOOLEAN
    /\ MaxRuns \in Nat

VARIABLES
    ppc,            \* where the producer thread is, "idle" when not alive
    row,            \* index of the next row of the cursor
    batch,          \* events built and not yet handed to _publish_batch
    out,            \* events _publish_batch still has to put
    resume,         \* where _produce goes on when _publish_batch returns
    pstop,          \* the producer's _stop_event
    produced,       \* _events_produced
    producerError,  \* whether _producer_error holds an exception
    minted,         \* number of event ids drawn (uuid4 never repeats)
    runs,           \* number of runs begun by start()
    sentinels       \* number of sentinels put, over all runs

pvars == <<ppc, row, batch, out, resume, pstop, produced, producerError,
           minted, runs, sentinels>>

ProducerAlive == ppc # "idle"

ProducerInit ==
    /\ ppc = "idle" /\ resume = "read"
    /\ row = 1 /\ batch = <<>> /\ out = <<>>
    /\ pstop = FALSE /\ producerError = FALSE
    /\ produced = 0 /\ minted = 0 /\ runs = 0 /\ sentinels = 0

-----------------------------------------------------------------------------
(* The event built from the current row: its own timestamp, a fresh id, and *)
(* any kind error injection may give it.  A payload that is missing its     *)
(* required fields carries no timestamp either.                             *)
EventOf(kind) ==
    [id |-> minted + 1, kind |-> kind,
     ts |-> IF kind = "malformed" THEN 0 ELSE Rows[row]]

(* sleep_time > 0: the row is later than the one before it. *)
GapBeforeRow == row > 1 /\ Rows[row] > Rows[row - 1]

(* random.shuffle or the batch as it is: any reordering of s. *)
Reorderings(s) ==
    {[i \in DOMAIN s |-> s[f[i]]] :
        f \in {g \in [DOMAIN s -> DOMAIN s] :
                  \A i, j \in DOMAIN s : g[i] = g[j] => i = j}}

(* _publish_batch(b), then continue at next; an empty batch is a no-op. *)
PublishThen(b, next) ==
    IF b = <<>>
    THEN ppc' = next /\ UNCHANGED <<out, resume>>
    ELSE ppc' = "publish" /\ resume' = next /\ out' \in Reorderings(b)

-----------------------------------------------------------------------------
(* start(): raises when the thread is alive, else begins a new run.  It does *)
(* not clear _producer_error.                                                *)
StartProducer ==
    /\ ~ProducerAlive /\ runs < MaxRuns
    /\ pstop' = FALSE /\ produced' = 0
    /\ runs' = runs + 1 /\ ppc' = "connect"
    /\ UNCHANGED <<queue, row, batch, out, resume, producerError, minted, sentinels>>

(* stop(): set the event, then join for at most 5 s, which changes nothing. *)
StopProducer ==
    /\ ProducerAlive /\ ~pstop
    /\ pstop' = TRUE
    /\ UNCHANGED <<queue, ppc, row, batch, out, resume, produced, producerError,
                   minted, runs, sentinels>>

(* sqlite3.connect succeeds; the query starts at the first row. *)
Connect ==
    /\ ppc = "connect"
    /\ ppc' = "read" /\ row' = 1 /\ batch' = <<>> /\ out' = <<>> /\ resume' = "read"
    /\ UNCHANGED <<queue, pstop, produced, producerError, minted, runs, sentinels>>

(* sqlite3.connect raises.  The call is before the try, so neither the     *)
(* except nor the finally clause runs: the thread dies without a trace.    *)
ConnectFails ==
    /\ ConnectMayFail /\ ppc = "connect"
    /\ ppc' = "idle"
    /\ UNCHANGED <<queue, row, batch, out, resume, pstop, produced, producerError,
                   minted, runs, sentinels>>

(* The while and for loops see the stop event: batched events are dropped. *)
SeeStop ==
    /\ ppc = "read" /\ pstop
    /\ ppc' = "sentinel"
    /\ UNCHANGED <<queue, row, batch, out, resume, pstop, produced, producerError,
                   minted, runs, sentinels>>

(* No rows left: flush the batch and leave the loop. *)
FlushAtEnd ==
    /\ ppc = "read" /\ ~pstop /\ row > Len(Rows)
    /\ PublishThen(batch, "sentinel")
    /\ UNCHANGED <<queue, row, batch, pstop, produced, producerError, minted,
                   runs, sentinels>>

(* Mutant of ReadFails: the thread dies without the finally clause. *)
ReadFailsSilently ==
    /\ ReadMayFail /\ ppc = "read" /\ ~pstop
    /\ producerError' = TRUE /\ ppc' = "idle"
    /\ UNCHANGED <<queue, row, batch, out, resume, pstop, produced, minted, runs,
                   sentinels>>

(* Mutant of ReadFails: the exception is swallowed. *)
ReadFailsUnrecorded ==
    /\ ReadMayFail /\ ppc = "read" /\ ~pstop
    /\ ppc' = "sentinel"
    /\ UNCHANGED <<queue, row, batch, out, resume, pstop, produced, producerError,
                   minted, runs, sentinels>>

(* The query, a fetch or the row's timestamp raises inside the try. *)
ReadFails ==
    /\ ReadMayFail /\ ppc = "read" /\ ~pstop
    /\ producerError' = TRUE /\ ppc' = "sentinel"
    /\ UNCHANGED <<queue, row, batch, out, resume, pstop, produced, minted, runs,
                   sentinels>>

(* Build the row's event; publish the batch when that fills it. *)
AppendRow(kind) ==
    LET grown == Append(batch, EventOf(kind)) IN
    /\ minted' = minted + 1 /\ row' = row + 1
    /\ IF Len(grown) >= BatchSize
       THEN PublishThen(grown, "read") /\ batch' = <<>>
       ELSE ppc' = "read" /\ batch' = grown /\ UNCHANGED <<out, resume>>
    /\ UNCHANGED <<queue, pstop, produced, producerError, runs, sentinels>>

(* A row that follows at once is batched; one that follows a gap is batched *)
(* after the accumulated batch has been published and the sleep is over.    *)
ReadRow ==
    /\ ppc = "read" /\ ~pstop /\ row <= Len(Rows)
    /\ IF GapBeforeRow
       THEN /\ PublishThen(batch, "append") /\ batch' = <<>>
            /\ UNCHANGED <<queue, row, pstop, produced, producerError, minted,
                           runs, sentinels>>
       ELSE \E kind \in EventKinds : AppendRow(kind)

AppendAfterGap == ppc = "append" /\ \E kind \in EventKinds : AppendRow(kind)

(* Mutant of PublishNext: only the stop event ends the loop. *)
PublishNextUnchecked ==
    /\ ppc = "publish"
    /\ IF pstop THEN ppc' = resume /\ out' = <<>> ELSE ppc' = "put" /\ UNCHANGED out
    /\ UNCHANGED <<queue, row, batch, resume, pstop, produced, producerError,
                   minted, runs, sentinels>>

(* Top of the for loop of _publish_batch: return when done or stopped. *)
PublishNext ==
    /\ ppc = "publish"
    /\ IF out = <<>> \/ pstop
       THEN ppc' = resume /\ out' = <<>>
       ELSE ppc' = "put" /\ UNCHANGED out
    /\ UNCHANGED <<queue, row, batch, resume, pstop, produced, producerError,
                   minted, runs, sentinels>>

(* Mutant of PutEvent: put_nowait, with the Full exception swallowed. *)
PutEventOrDrop ==
    /\ ppc = "put"
    /\ queue' = IF Len(queue) < QueueMax THEN Append(queue, Head(out)) ELSE queue
    /\ out' = Tail(out) /\ ppc' = "count"
    /\ UNCHANGED <<row, batch, resume, pstop, produced, producerError, minted,
                   runs, sentinels>>

(* The blocking put of one event: waits while the queue is full, and does  *)
(* not look at the stop event while it waits.                              *)
PutEvent ==
    /\ ppc = "put"
    /\ Put(Head(out)) /\ out' = Tail(out)
    /\ ppc' = "count"
    /\ UNCHANGED <<row, batch, resume, pstop, produced, producerError, minted,
                   runs, sentinels>>

(* The counter is bumped under its own lock, after the put. *)
CountEvent ==
    /\ ppc = "count"
    /\ produced' = produced + 1 /\ ppc' = "publish"
    /\ UNCHANGED <<queue, row, batch, out, resume, pstop, producerError, minted,
                   runs, sentinels>>

(* finally: close the connection and put the sentinel, a blocking put too. *)
PutSentinel ==
    /\ ppc = "sentinel"
    /\ Put(Sentinel) /\ sentinels' = sentinels + 1
    /\ ppc' = "ending"
    /\ UNCHANGED <<row, batch, out, resume, pstop, produced, producerError,
                   minted, runs>>

(* Only after _produce has returned does is_alive() turn False: until then *)
(* the sentinel can be taken while start() is still refused.               *)
ProducerEnds ==
    /\ ppc = "ending"
    /\ ppc' = "idle"
    /\ UNCHANGED <<queue, row, batch, out, resume, pstop, produced, producerError,
                   minted, runs, sentinels>>

ProducerThread ==
    \/ Connect \/ ConnectFails \/ SeeStop \/ FlushAtEnd \/ ReadFails \/ ReadRow
    \/ AppendAfterGap \/ PublishNext \/ PutEvent \/ CountEvent \/ PutSentinel
    \/ ProducerEnds

ProducerNext == StartProducer \/ StopProducer \/ ProducerThread

-----------------------------------------------------------------------------
ProducerTypeOK ==
    /\ ppc \in {"idle", "connect", "read", "append", "publish", "put", "count",
                "sentinel", "ending"}
    /\ row \in Nat \ {0} /\ batch \in Seq(Message) /\ out \in Seq(Message)
    /\ resume \in {"read", "append", "sentinel"}
    /\ pstop \in BOOLEAN /\ producerError \in BOOLEAN
    /\ produced \in Nat /\ minted \in Nat /\ runs \in Nat /\ sentinels \in Nat
    \* a row is read, and an event put, only where there is one
    /\ ppc = "append" \/ (resume = "append" /\ ppc \in {"publish", "put", "count"})
          => row <= Len(Rows)
    /\ ppc = "put" => out # <<>>
=============================================================================
