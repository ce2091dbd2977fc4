----------------------------- MODULE EventStream -----------------------------
(***************************************************************************)
(* run_with_producer.py: the producer thread, the shared bounded queue and *)
(* the consumer of the application, together with anyone else who puts     *)
(* messages into the queue (the tests, an external producer).              *)
(***************************************************************************)
EXTENDS SensorProducer, StreamConsumer

CONSTANTS
    External,    \* messages others may put into the queue
    MaxExternal  \* bound on how many they put

ASSUME ExternalAssumption == External \subseteq Message /\ MaxExternal \in Nat

VARIABLE externals  \* number of messages others have put

vars == <<queue, externals, pvars, cvars>>

Init == queue = <<>> /\ externals = 0 /\ ProducerInit /\ ConsumerInit

ExternalPut ==
    /\ externals < MaxExternal
    /\ \E m \in External : Put(m)
    /\ externals' = externals + 1
    /\ UNCHANGED <<pvars, cvars>>

ProducerStep == ProducerNext /\ UNCHANGED <<externals, cvars>>
ConsumerStep == ConsumerNext /\ UNCHANGED <<externals, pvars>>

Next == ExternalPut \/ ProducerStep \/ ConsumerStep

Spec == Init /\ [][Next]_vars

(* Each thread runs as long as it can take a step: the operating system's   *)
(* scheduler and the timeouts of get() and join() guarantee no less.  Calls *)
(* from outside (start, stop, run_until_empty, puts) are never owed.        *)
Fairness ==
    /\ WF_vars(ProducerThread /\ UNCHANGED <<externals, cvars>>)
    /\ WF_vars(LoopThread /\ UNCHANGED <<externals, pvars>>)
    /\ WF_vars(DrainThread /\ UNCHANGED <<externals, pvars>>)
    /\ WF_vars(MainReturns /\ UNCHANGED <<externals, pvars>>)

FairSpec == Spec /\ Fairness

TypeOK ==
    /\ QueueTypeOK /\ externals \in Nat
    /\ ProducerTypeOK /\ ConsumerTypeOK

-----------------------------------------------------------------------------
(* What the stream promises: see Settlement.                               *)

HoldingLabels ==
    {"consume", "size", "depth", "handle", "hour", "day", "remember", "error", "settle"}

(* What each thread holds, and how many messages ended which way. *)
Hand == [t \in Threads |-> IF pc[t] \in HoldingLabels THEN msg[t] ELSE Sentinel]
Tally == [o \in Verdicts |-> CASE o = "ok"        -> succeeded
                               [] o = "malformed" -> malformed
                               [] o = "failed"    -> failed]

Promise == INSTANCE Settlement WITH Workers <- Threads, hand <- Hand, tally <- Tally

(* Every message is taken in order and settled exactly once, with the       *)
(* verdict its payload deserves, on every path of _process_message          *)
(* (consumer.py:129-161) and whatever the other threads do.                 *)
KeepsPromise == Promise!SettlementSpec

-----------------------------------------------------------------------------
(* Accounting                                                              *)

(* A thread has counted its message and not yet settled it.                *)
InFlight(t) == IF pc[t] \in HoldingLabels \ {"consume"} THEN 1 ELSE 0

(* Every consumed event is settled exactly once: the three outcome counters *)
(* add up to events_consumed but for the one event each thread has in hand, *)
(* on every path through _process_message, whatever the payload.            *)
Accounted ==
    consumed = succeeded + malformed + failed + InFlight("loop") + InFlight("drain")

(* No item is lost or invented between the producer's counter and the       *)
(* consumer's, whatever is stopped and whenever, as long as the producer's  *)
(* counter has not been reset by a second run: what was put, as both sides  *)
(* count it, is what was taken plus what is queued.                         *)
Conserved ==
    runs <= 1 =>
        produced + (IF ppc = "count" THEN 1 ELSE 0) + externals + sentinels
          = consumed + Taken("loop") + Taken("drain") + sentinelsTaken + Len(queue)

(* The error list and the counters agree: the list holds one entry for each *)
(* rejected event, up to its cap, including those recorded and not yet      *)
(* counted (consumer.py:138-158).                                           *)
ErrorsPending == Cardinality({t \in Threads : pc[t] = "settle" /\ verdict[t] # "ok"})
ErrorsMatchCounters ==
    LET n == malformed + failed + ErrorsPending
    IN Len(errors) = IF n > ErrorCap THEN ErrorCap ELSE n

-----------------------------------------------------------------------------
(* Aggregates, duplicates and the watermark                                *)

(* No aggregate holds an event newer than the watermark /processing/status  *)
(* reports, whatever order the producer's shuffle and the threads give.     *)
WatermarkCoversAggregates ==
    \A b \in Buckets : \A i \in DOMAIN upserted[b] : upserted[b][i].ts <= watermark

Times(b, id) == Cardinality({i \in DOMAIN upserted[b] : upserted[b][i].id = id})
Ids == {m.id : m \in External} \cup 1..minted

(* An event put any number of times is aggregated once per bucket           *)
(* (handler.py:77-78).                                                      *)
ReplayCannotInflate == \A b \in Buckets, id \in Ids : Times(b, id) <= 1

(* ... which holds with one consuming thread while the cache has room for   *)
(* every id: the two conditions under which the duplicate check is exact.   *)
FitsCache == IsFiniteSet(Ids) /\ Cardinality(Ids) <= DedupMax
AggregatedOnce == drains = 0 /\ FitsCache => ReplayCannotInflate

(* The hour and the day aggregates hold the same events, except for those a *)
(* thread has put into the first and not yet into the second.               *)
BucketsAgree ==
    \A id \in Ids : Times("hour", id) = Times("day", id)
        + Cardinality({t \in Threads : pc[t] = "day" /\ msg[t].id = id})

(* An event_id stands for one event: two messages that carry it may differ  *)
(* in how they fail, but one is not a reading and the other an event without *)
(* values, and an id the producer drew (uuid4, producer.py:238) is no one   *)
(* else's.                                                                  *)
IdsNameEvents ==
    /\ \A m, n \in External : m.kind = "reading" /\ n.kind = "no_value" => m.id # n.id
    /\ \A m \in External : m.id \notin 1..minted

(* A valid reading is reported as a success only when it is in all its      *)
(* aggregates, put there by this delivery or by an earlier one: the         *)
(* duplicate check never skips what has not been counted (handler.py:99).   *)
SuccessMeansAggregated ==
    IdsNameEvents =>
        \A t \in Threads :
            pc[t] = "settle" /\ verdict[t] = "ok" /\ msg[t].kind = "reading"
            => \A b \in Buckets : Times(b, msg[t].id) >= 1

-----------------------------------------------------------------------------
(* Starting, stopping and the end of the stream                            *)

(* consumer_running is only reported while the loop thread exists or main   *)
(* is about to start it: neither a sentinel found at once nor the stop of   *)
(* an earlier thread leaves the flag set with nobody consuming.             *)
RunningMeansAlive == running => LoopAlive \/ mpc = "spawn"

(* start_background never spawns a second loop thread beside a live one,     *)
(* not even one that is on its way out (test_consumer.py:155).              *)
OneLoopThread == mpc \in {"setrunning", "spawn"} => ~LoopAlive

(* After start_background returns, and until the next stop or the end of    *)
(* the stream, there is a thread that consumes and has not been told to     *)
(* stop ("Already running", consumer.py:74).                                *)
StartedMeansConsuming ==
    wanted /\ mpc = "idle" /\ ~sentinelReceived => LoopAlive /\ ~cstop

LoopEndsByItself ==
    ~cstop /\ pc["loop"] \in {"exitsize", "exitdepth", "exitrunning", "ending"}

(* The loop leaves without being told to only when every run of the producer *)
(* has put its sentinel and puts nothing more, and nothing it put is left    *)
(* ("Producer finished; no more messages will arrive", consumer.py:101).  Its *)
(* thread may still be alive: is_alive() turns False some time after the put. *)
ProducerIsDone == sentinels = runs /\ ppc \in {"ending", "idle"}
EndsOnlyAfterProducer == LoopEndsByItself => ProducerIsDone /\ queue = <<>>

(* ... which holds when the producer is the only source and runs once.      *)
EndsOnlyAfterSoleRun ==
    runs <= 1 /\ externals = 0 => EndsOnlyAfterProducer

(* When the loop of such a stream has ended by itself, every event the      *)
(* producer counted has been consumed and settled, the flag is off and the  *)
(* depth reported is 0 (consumer.py:107-109).                               *)
StreamDrained ==
    /\ starts > 0 /\ mpc = "idle" /\ ~cstop /\ ~LoopAlive
    /\ runs = 1 /\ externals = 0 /\ drains = 0
    => consumed = produced /\ depth = 0 /\ ~running

(* run_until_empty returns only when every event that was put before it was *)
(* called has been processed (consumer.py:114).                             *)
ProcessesAllAvailable ==
    drains > 0 /\ pc["drain"] = "idle" => succeeded + malformed + failed >= goal

(* ... which holds when no other thread consumes and no sentinel is queued. *)
ProcessesAllAlone == starts = 0 /\ sentinels = 0 => ProcessesAllAvailable

(* The producer's thread never ends without putting its sentinel            *)
(* (producer.py:159-160).                                                   *)
SentinelOnEveryExit == ~ProducerAlive => sentinels = runs

(* What GET /health says of the producer. *)
Health == IF producerError THEN "degraded" ELSE "ok"

(* Whoever takes a sentinel can tell at once whether the stream it ends is  *)
(* complete: if nobody stopped the producer and some row was not handed     *)
(* over, the error is there before the sentinel is ("check whether it was   *)
(* sent due to a crash", producer.py:301; routes.py:53).                    *)
TruncationExplained ==
    runs = 1 /\ sentinels = 1 /\ ~pstop /\ produced < Len(Rows) => Health = "degraded"

(* A stream whose producer was able to connect ends: the producer finishes, *)
(* and the consumer notices, stops by itself, says so and leaves the queue  *)
(* empty, unless it is told to stop.                                        *)
StreamEnds ==
    runs = 1 /\ starts > 0 /\ (ppc \notin {"idle", "connect"} \/ sentinels = 1)
        ~> cstop \/ (~ProducerAlive /\ ~LoopAlive /\ ~running /\ queue = <<>>)

(* A producer told to stop does finish (producer.py:147), even when it is   *)
(* waiting for room in the queue, while the application's consumer runs and *)
(* makes room: put() itself never looks at the stop event (producer.py:223).*)
ProducerStopsWhileConsumed ==
    pstop /\ runs = 1 /\ starts > 0 ~> cstop \/ ~ProducerAlive

(* A consumer told to stop does finish, and takes at most one more message  *)
(* first, however many are queued or still arrive: the stop event is looked *)
(* at after every message and after every poll that found none, so that     *)
(* neither a full nor a silent queue holds it (consumer.py:92-95).          *)
MostConsumed == Len(Rows) * MaxRuns + MaxExternal
ConsumerStops ==
    \A n \in 0..MostConsumed :
        cstop /\ LoopAlive /\ drains = 0 /\ consumed = n
            ~> drains > 0 \/ (~LoopAlive /\ consumed <= n + 1)
=============================================================================
