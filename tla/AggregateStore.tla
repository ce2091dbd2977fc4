--------------------------- MODULE AggregateStore ---------------------------
(***************************************************************************)
(* repositories/metrics_aggregate.py, InMemoryMetricsAggregateRepository:  *)
(* running aggregates per series (station, device, metric), bucket kind    *)
(* and bucket start, capped at max_buckets entries.  Both operations hold  *)
(* the lock throughout, so each is one atomic step.                        *)
(*                                                                         *)
(* data is a sequence because a Python dict iterates in insertion order,   *)
(* and min() over it returns the first of several oldest keys.  Values are *)
(* integers, so totals do not depend on rounding; avg, which is assigned   *)
(* total / count in the same step, is left out.                            *)
(***************************************************************************)
EXTENDS Integers, SequencesExt

CONSTANTS
    MaxBuckets,  \* max_buckets
    NoFilter     \* a filter of a query that is not given

ASSUME MaxBucketsAssumption == MaxBuckets \in Nat \ {0} /\ NoFilter \notin Int

VARIABLE data  \* entries, oldest insertion first

(* A data point p is [key, value, ts, offset]; a key [series, bucket, start]. *)
NewEntry(p) ==
    [key |-> p.key, count |-> 1, total |-> p.value,
     low |-> p.value, high |-> p.value, latest |-> p.ts]

Updated(e, p) ==
    [e EXCEPT !.count = @ + 1, !.total = @ + p.value,
              !.low = Min({@, p.value}), !.high = Max({@, p.value}),
              !.latest = Max({@, p.ts})]

Position(key) == {i \in DOMAIN data : data[i].key = key}

(* Mutant of Oldest: the entry that was inserted first. *)
FirstInserted(s) == 1

(* min(data, key=bucket_start): the first of the entries that start first. *)
Oldest(s) ==
    CHOOSE i \in DOMAIN s :
        \A j \in DOMAIN s : \/ s[i].key.start < s[j].key.start
                            \/ s[i].key.start = s[j].key.start /\ i <= j

(* A new key is inserted first and the oldest entry evicted after that, so *)
(* the entry evicted may be the one just inserted.                         *)
Inserted(p) ==
    LET grown == Append(data, NewEntry(p))
    IN IF Len(grown) > MaxBuckets THEN RemoveAt(grown, Oldest(grown)) ELSE grown

(* Mutant of UpsertAggregate: a new entry is updated with the point it was   *)
(* created from.                                                            *)
UpsertTwice(p) ==
    LET base == IF Position(p.key) = {} THEN Inserted(p) ELSE data
    IN data' = [i \in DOMAIN base |->
                   IF base[i].key = p.key THEN Updated(base[i], p) ELSE base[i]]

UpsertAggregate(p) ==
    data' = IF Position(p.key) = {}
            THEN Inserted(p)
            ELSE [i \in DOMAIN data |->
                     IF i \in Position(p.key) THEN Updated(data[i], p) ELSE data[i]]

(* Mutant of Query: the end of the window is a bucket of it. *)
QueryClosed(q) ==
    {e \in ToSet(data) :
        /\ q.device \in {NoFilter, e.key.series[1]} /\ q.metric \in {NoFilter, e.key.series[2]}
        /\ q.bucket \in {NoFilter, e.key.bucket}
        /\ q.start # NoFilter => q.start <= e.key.start
        /\ q.end # NoFilter => e.key.start <= q.end}

(* query(): the entries that pass every filter given; a window selects them *)
(* by where their bucket starts and leaves out its end.                     *)
Query(q) ==
    {e \in ToSet(data) :
        /\ q.device \in {NoFilter, e.key.series[1]} /\ q.metric \in {NoFilter, e.key.series[2]}
        /\ q.bucket \in {NoFilter, e.key.bucket}
        /\ q.start # NoFilter => q.start <= e.key.start
        /\ q.end # NoFilter => e.key.start < q.end}
=============================================================================
