-------------------------- MODULE EventAggregation --------------------------
(***************************************************************************)
(* ingestion/handler.py, _process_reading: how one accepted event becomes  *)
(* data points, and how they reach the store while queries read it.  The   *)
(* upserts of an event are separate steps: the store's lock is released    *)
(* between them, so /metrics/stations/{id} can see some and not others.    *)
(*                                                                         *)
(* Which events get here, and how often, is StreamConsumer's subject.      *)
(***************************************************************************)
EXTENDS AggregateStore

CONSTANTS
    Events,     \* the events of an instance: [device, ts, offset, values]
    Metrics,    \* the sensor columns, in the order they are processed
    ValidRange, \* the values the schema accepts (valid_range, both ends in)
    NoValue,    \* a reading that is null or not a number
    HourTicks,  \* length of an hour bucket
    DayTicks,   \* length of a day bucket
    Bounds,     \* the instants the window of a query may start or end at
    MaxEvents   \* bound on the events processed

ASSUME AggregationAssumption ==
    /\ \A e \in Events : e.ts \in Nat /\ e.offset \in Nat
    /\ HourTicks \in Nat \ {0} /\ DayTicks \in Nat \ {0}
    /\ DayTicks % HourTicks = 0
    /\ ValidRange \subseteq Int /\ NoValue \notin ValidRange
    /\ Metrics \in Seq(Range(Metrics)) /\ MaxEvents \in Nat
    /\ Bounds \subseteq Int /\ NoFilter \notin {"hour", "day"}

VARIABLES
    todo,     \* the upserts the current event still has to make, in order
    points,   \* history: every data point that was upserted
    evicted,  \* history: the keys that were evicted, ever
    handled   \* number of events processed

aggVars == <<data, todo, points, evicted, handled>>

Ticks(bucket) == IF bucket = "hour" THEN HourTicks ELSE DayTicks

(* Mutant of FloorToBucket: the local time is used as if it were UTC.      *)
FloorLocal(ts, offset, bucket) ==
    (ts + offset) - ((ts + offset) % Ticks(bucket))

(* _floor_to_bucket: dt.replace(minute=0, ...) keeps the event's own UTC    *)
(* offset, so the bucket starts on the hour, or at midnight, of the         *)
(* sender's clock.                                                          *)
FloorToBucket(ts, offset, bucket) == ts - ((ts + offset) % Ticks(bucket))

Point(e, metric, bucket) ==
    [key |-> [series |-> <<e.device, metric>>, bucket |-> bucket,
              start |-> FloorToBucket(e.ts, e.offset, bucket)],
     value |-> e.values[metric], ts |-> e.ts, offset |-> e.offset]

(* The columns of the event, in order: each whose value survives            *)
(* _nullify_if_out_of_range gets an upsert for the hour and one for the day. *)
PointsOf(e) ==
    LET upTo[i \in 0..Len(Metrics)] ==
            IF i = 0 THEN <<>>
            ELSE IF e.values[Metrics[i]] \notin ValidRange THEN upTo[i - 1]
            ELSE upTo[i - 1] \o
                 <<Point(e, Metrics[i], "hour"), Point(e, Metrics[i], "day")>>
    IN upTo[Len(Metrics)]

Keys(s) == {s[i].key : i \in DOMAIN s}

AggInit ==
    data = <<>> /\ todo = <<>> /\ points = <<>> /\ evicted = {} /\ handled = 0

BeginEvent ==
    /\ todo = <<>> /\ handled < MaxEvents
    /\ \E e \in Events : todo' = PointsOf(e)
    /\ handled' = handled + 1
    /\ UNCHANGED <<data, points, evicted>>

UpsertNext ==
    /\ todo # <<>>
    /\ UpsertAggregate(Head(todo))
    /\ todo' = Tail(todo)
    /\ points' = Append(points, Head(todo))
    /\ evicted' = evicted \cup ((Keys(data) \cup {Head(todo).key}) \ Keys(data'))
    /\ UNCHANGED handled

AggNext == BeginEvent \/ UpsertNext

AggSpec == AggInit /\ [][AggNext]_aggVars
-----------------------------------------------------------------------------
(* An entry that was never evicted is the summary of the points of its key, *)
(* all of them and nothing else, in whatever order they came, late events   *)
(* and interleaved devices included; and one that was, and was begun anew   *)
(* by a late event, never claims points its key did not have                *)
(* (metrics_aggregate.py:127-173).                                          *)
PointsAt(key) == {i \in DOMAIN points : points[i].key = key}
SummaryOf(key) ==
    LET at == PointsAt(key)
        values == {points[i].value : i \in at}
        Value(i) == points[i].value
    IN [key |-> key, count |-> Cardinality(at), total |-> MapThenSumSet(Value, at),
        low |-> Min(values), high |-> Max(values),
        latest |-> Max({points[i].ts : i \in at})]

AggregatesAreExact ==
    /\ \A key \in Keys(points) \ evicted : SummaryOf(key) \in ToSet(data)
    /\ \A i \in DOMAIN data :
          LET all == SummaryOf(data[i].key)
          IN /\ data[i].count <= all.count /\ data[i].latest <= all.latest
             /\ all.low <= data[i].low /\ data[i].high <= all.high

(* What leaves the store, including an entry evicted as it is inserted, is  *)
(* at least as old as everything that stays, and only one entry leaves per  *)
(* step ("the oldest buckets are evicted first", metrics_aggregate.py:91).  *)
OldestLeavesFirst ==
    [][LET gone == (Keys(data) \cup {Head(todo).key}) \ Keys(data')
       IN todo # <<>> =>
            /\ Cardinality(gone) <= 1
            /\ \A g \in gone, i \in DOMAIN data' : g.start <= data'[i].key.start]_aggVars

(* A query whose window starts and ends where buckets do answers with       *)
(* exactly the events of that window, be it asked for hours or for days,    *)
(* for all devices and metrics or for some: between events, as long as      *)
(* nothing was evicted and the senders use one UTC offset.  With other      *)
(* bounds it cannot: the bucket its window starts in is left out            *)
(* (metrics_aggregate.py:204-207, handler.py:121-137).                      *)
OneClock == \A i, j \in DOMAIN points : points[i].offset = points[j].offset
BucketStarts(bucket) == {b \in Bounds : (b + points[1].offset) % Ticks(bucket) = 0}
PointsFor(q) ==
    {i \in DOMAIN points :
        /\ q.device \in {NoFilter, points[i].key.series[1]}
        /\ q.metric \in {NoFilter, points[i].key.series[2]}
        /\ points[i].key.bucket = "hour"
        /\ q.start # NoFilter => q.start <= points[i].ts
        /\ q.end # NoFilter => points[i].ts < q.end}
AlignedQueries ==
    UNION {[device : {points[i].key.series[1] : i \in DOMAIN points} \cup {NoFilter},
            metric : ToSet(Metrics) \cup {NoFilter}, bucket : {bucket},
            start : BucketStarts(bucket) \cup {NoFilter},
            end : BucketStarts(bucket) \cup {NoFilter}] : bucket \in {"hour", "day"}}
AlignedQueriesAreExact ==
    todo = <<>> /\ evicted = {} /\ points # <<>> /\ OneClock =>
        \A q \in AlignedQueries :
            LET found == Query(q)
                at == PointsFor(q)
                Count(e) == e.count
                Total(e) == e.total
                Value(i) == points[i].value
            IN /\ MapThenSumSet(Count, found) = Cardinality(at)
               /\ MapThenSumSet(Total, found) = MapThenSumSet(Value, at)
               /\ found # {} =>
                     Max({e.latest : e \in found}) = Max({points[i].ts : i \in at})

(* Every aggregate's events lie inside its bucket, whatever their offset.  *)
LatestInBucket ==
    \A i \in DOMAIN data :
        LET e == data[i]
        IN e.key.start <= e.latest /\ e.latest < e.key.start + Ticks(e.key.bucket)
=============================================================================
