--------------------------- MODULE MetricQueries ---------------------------
(***************************************************************************)
(* Reading the stored metrics back: get_metric_results (storage/sqlite.py) *)
(* as GET /metrics, the station summary and natural-language queries call  *)
(* it, and the aggregation of what a query finds (llm/use_cases.py).  A    *)
(* query is one SELECT, so it sees one state of the table: what it may     *)
(* answer is a function of the state, and no query changes it.             *)
(***************************************************************************)
EXTENDS MetricStore

CONSTANTS
    None,    \* a filter that is not given
    Bounds   \* the instants time filters may name

ASSUME QueriesAssumption == Bounds \subseteq Nat /\ None \notin Nat

Devices == {x.device : x \in Measurements}

(* MetricQuery; a window that is empty or inverted is rejected with 422, or *)
(* with a clarification, before the store is asked.                         *)
Queries ==
    {q \in [device : Devices \cup {None}, metric : Metrics \cup {None},
            start : Bounds \cup {None}, end : Bounds \cup {None}] :
        None \in {q.start, q.end} \/ q.start < q.end}

(* Mutant of Overlaps: a row that ends where the query starts is left out.  *)
OverlapsStrictly(k, q) ==
    /\ q.start # None => k.window_end > q.start
    /\ q.end # None => k.window_start <= q.end

(* Both ends count: a stored window is that of the labels of its bins, and  *)
(* the label of a bin is where it starts.                                   *)
Overlaps(k, q) ==
    /\ q.start # None => k.window_end >= q.start
    /\ q.end # None => k.window_start <= q.end

Found(q) ==
    {k \in DOMAIN table :
        q.device \in {None, k.device} /\ q.metric \in {None, k.metric} /\ Overlaps(k, q)}

-----------------------------------------------------------------------------
(* _aggregate, as the set of values it may answer with.  A row is worth the *)
(* readings it stands for, so that a sum is right when it counts each once. *)

Worth(k) == Cardinality(table[k].readings)

(* Mutant of LatestRows: what was computed last. *)
ComputedLast(rows) ==
    {k \in rows : \A j \in rows : table[j].computed_at <= table[k].computed_at}

(* max(key=window_end) takes the first of several, and of one device the    *)
(* one that starts first (ORDER BY); the order of equal rows is open.       *)
LatestRows(rows) ==
    {k \in rows : \A j \in rows :
        /\ j.window_end <= k.window_end
        /\ j.device = k.device /\ j.window_end = k.window_end =>
              k.window_start <= j.window_start}

(* A mean is given as what is divided by what. *)
Aggregate(rows, how) ==
    LET total == MapThenSumSet(Worth, rows) IN
    CASE rows = {}       -> {None}
      [] how = "mean"    -> {<<total, Cardinality(rows)>>}
      [] how = "max"     -> {Max({Worth(k) : k \in rows})}
      [] how = "sum"     -> {total}
      [] how = "latest"  -> {Worth(k) : k \in LatestRows(rows)}
-----------------------------------------------------------------------------
(* What a run has just stored is found by asking for the window it was      *)
(* asked to process, with or without the device and the metric: after a     *)
(* successful run neither a summary nor a query of that window comes back   *)
(* empty.  The window must start where a bin does: with a later start the   *)
(* label of a lone bin lies before it (sqlite.py:113, resampling.py:28).    *)
ProcessedIsFound ==
    \A r \in Runs : pc[r] = "200" /\ req[r].from % req[r].freq = 0 =>
        \A k \in KeysOf(r), q \in Queries :
            /\ q.device \in {None, k.device} /\ q.metric \in {None, k.metric}
            /\ q.start \in {None, req[r].from} /\ q.end \in {None, req[r].to}
            => k \in Found(q) /\ Aggregate(Found(q), "max") # {None}

Asked(k) == req[table[k].run]
Apart(q1, q2) == q1.to < q2.from \/ (q1.to = q2.from /\ OffsetText)
Holding(rows, x) == {k \in rows : x \in table[k].readings}

(* A reading is counted once: as long as the requests whose rows a query    *)
(* finds have disjoint windows, no reading is in two of the rows and their  *)
(* sum counts every reading.  Windows that meet are disjoint only when the  *)
(* end is left out: a database that writes no offsets gives both the        *)
(* reading between them (use_cases.py:293, ingestion/repositories/sqlite.py:58). *)
TiledBy(rows) ==
    \A j, k \in rows : j = k \/ Apart(Asked(j), Asked(k)) \/ Apart(Asked(k), Asked(j))
SeriesQueries == {q \in Queries : q.device # None /\ q.metric # None}
DisjointWindowsCountOnce ==
    \A q \in SeriesQueries :
        LET rows == Found(q)
            all == UNION {table[k].readings : k \in rows}
        IN rows # {} /\ TiledBy(rows) =>
             /\ Aggregate(rows, "sum") = {Cardinality(all)}
             /\ \A x \in all : Cardinality(Holding(rows, x)) = 1

(* The latest value is that of the row with the newest reading, in whatever *)
(* order the windows were processed, as long as no bin is in two of them.   *)
(* Rows that end in the same bin are told apart by where they start, and    *)
(* the older window starts first (use_cases.py:480, resampling.py:28).      *)
WholeBins(q) == [q EXCEPT !.from = Bin(@, q.freq)]
BinnedApart(q1, q2) == Apart(q1, WholeBins(q2))
TiledByBins(rows) ==
    \A j, k \in rows :
        j = k \/ BinnedApart(Asked(j), Asked(k)) \/ BinnedApart(Asked(k), Asked(j))
LatestIsNewest ==
    \A q \in SeriesQueries :
        LET rows == Found(q)
            all == UNION {table[k].readings : k \in rows}
        IN TiledByBins(rows) =>
             \A x \in all : (\A y \in all : y.ts <= x.ts) =>
                 LatestRows(rows) \subseteq Holding(rows, x)
=============================================================================
