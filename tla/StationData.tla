---------------------------- MODULE StationData ----------------------------
(***************************************************************************)
(* The batch algorithms, as functions on tables of readings: validation    *)
(* (ingestion/validators.py), cleaning (cleaners.py), quality checks       *)
(* (quality.py) and resampling (resampling.py).                            *)
(*                                                                         *)
(* A table is a set of rows [device, ts, v] of one station, v a function   *)
(* from the numeric columns.  Times are minutes and values integers, taken *)
(* so that the means and interpolations of an instance are integers too;   *)
(* the rounding of floats is left out.  No two rows of a device share a    *)
(* timestamp, but for unreadable ones, one per device at most.             *)
(***************************************************************************)
EXTENDS Integers, FiniteSets, FiniteSetsExt, Sequences

CONSTANTS
    Columns,      \* the numeric columns of the schema
    Low, High,    \* valid_range of each column
    Null,         \* a value that is missing
    Bad,          \* a value that is not a number
    Unreadable    \* a timestamp that cannot be parsed

ASSUME SchemaAssumption ==
    /\ IsFiniteSet(Columns) /\ Low \in [Columns -> Int] /\ High \in [Columns -> Int]
    /\ Null \notin Int /\ Bad \notin Int /\ Null # Bad /\ Unreadable \notin Int

Devices(table) == {r.device : r \in table}
Of(device, table) == {r \in table : r.device = device}
Readable(table) == {r \in table : r.ts # Unreadable}

(* The rows of a table hold such values, and two of a device differ in time. *)
IsTable(table, Value) ==
    /\ IsFiniteSet(table)
    /\ table \subseteq
         [device : Devices(table), ts : Int \cup {Unreadable}, v : [Columns -> Value]]
    /\ \A r, q \in table : r.device = q.device /\ r.ts = q.ts => r = q

-----------------------------------------------------------------------------
(* Validation: pd.to_numeric(errors="coerce") and the counts taken of it.  *)

NormalizeTable(raw) ==
    {[r EXCEPT !.v = [c \in Columns |-> IF r.v[c] = Bad THEN Null ELSE r.v[c]]] : r \in raw}

OutOfRange(c, value) == value # Null /\ (value < Low[c] \/ value > High[c])

MalformedCount(raw, c) == Quantify(raw, LAMBDA r : r.v[c] = Bad)
OutOfRangeCount(table, c) == Quantify(table, LAMBDA r : OutOfRange(c, r.v[c]))

(* Mutant of NullifyTable: the ends of the range are outside it. *)
NullifyStrictly(table) ==
    {[r EXCEPT !.v = [c \in Columns |->
        IF r.v[c] # Null /\ (r.v[c] <= Low[c] \/ r.v[c] >= High[c])
        THEN Null ELSE r.v[c]]] : r \in table}

NullifyTable(table) ==
    {[r EXCEPT !.v = [c \in Columns |->
        IF OutOfRange(c, r.v[c]) THEN Null ELSE r.v[c]]] : r \in table}

MissingCount(table, c) == Quantify(table, LAMBDA r : r.v[c] = Null)

-----------------------------------------------------------------------------
(* Missing-data strategies, per device.                                    *)

KnownBefore(rows, c, ts) == {r \in rows : r.ts <= ts /\ r.v[c] # Null}
KnownAfter(rows, c, ts) == {r \in rows : r.ts >= ts /\ r.v[c] # Null}
Latest(rows) == CHOOSE r \in rows : \A q \in rows : q.ts <= r.ts
Earliest(rows) == CHOOSE r \in rows : \A q \in rows : r.ts <= q.ts

(* Mutant of Filled: what is missing at the start is filled backwards. *)
FilledBothWays(rows, c, ts) ==
    IF KnownBefore(rows, c, ts) # {} THEN Latest(KnownBefore(rows, c, ts)).v[c]
    ELSE IF KnownAfter(rows, c, ts) # {} THEN Earliest(KnownAfter(rows, c, ts)).v[c]
    ELSE Null

(* ffill() *)
Filled(rows, c, ts) ==
    IF KnownBefore(rows, c, ts) = {} THEN Null ELSE Latest(KnownBefore(rows, c, ts)).v[c]

(* Mutant of Interpolated: by position, as method="linear" does. *)
InterpolatedByRow(rows, c, ts) ==
    IF KnownBefore(rows, c, ts) = {} THEN Null
    ELSE LET a == Latest(KnownBefore(rows, c, ts)) IN
         IF KnownAfter(rows, c, ts) = {} THEN a.v[c]
         ELSE LET b == Earliest(KnownAfter(rows, c, ts))
                  Steps(from, to) == Cardinality({r \in rows : from < r.ts /\ r.ts <= to})
              IN IF a = b THEN a.v[c]
                 ELSE a.v[c] + ((b.v[c] - a.v[c]) * Steps(a.ts, ts)) \div Steps(a.ts, b.ts)

(* interpolate(method="time", limit_direction="forward"): linear in time    *)
(* between two known values, the last one after it, nothing before the      *)
(* first.                                                                   *)
Interpolated(rows, c, ts) ==
    IF KnownBefore(rows, c, ts) = {} THEN Null
    ELSE LET a == Latest(KnownBefore(rows, c, ts)) IN
         IF KnownAfter(rows, c, ts) = {} THEN a.v[c]
         ELSE LET b == Earliest(KnownAfter(rows, c, ts))
              IN IF a = b THEN a.v[c]
                 ELSE a.v[c] + ((b.v[c] - a.v[c]) * (ts - a.ts)) \div (b.ts - a.ts)

Strategies == {"drop", "fill", "interpolate"}

ApplyStrategy(table, strategy) ==
    LET rows == Readable(table) IN
    IF strategy = "drop"
    THEN {r \in rows : \A c \in Columns : r.v[c] # Null}
    ELSE {[r EXCEPT !.v = [c \in Columns |->
              IF strategy = "fill" THEN Filled(Of(r.device, rows), c, r.ts)
              ELSE Interpolated(Of(r.device, rows), c, r.ts)]] : r \in rows}

-----------------------------------------------------------------------------
(* Timestamps: the expected interval, gaps and flatlines.                  *)

(* The timestamps of some rows in order, as a sequence. *)
Ordered(rows) ==
    LET times == {r.ts : r \in rows}
    IN [i \in 1..Cardinality(times) |->
          CHOOSE t \in times : Cardinality({u \in times : u <= t}) = i]

Differences(s) == {s[i] - s[i - 1] : i \in 2..Len(s)}
TimesSeen(s, diff) == Cardinality({i \in 2..Len(s) : s[i] - s[i - 1] = diff})

(* infer_expected_interval: the most common difference, the shorter one of  *)
(* several, 0 (None) if there is none.                                      *)
ExpectedInterval(s) ==
    IF Len(s) < 2 THEN 0
    ELSE CHOOSE d \in Differences(s) :
            \A e \in Differences(s) :
                \/ TimesSeen(s, d) > TimesSeen(s, e)
                \/ TimesSeen(s, d) = TimesSeen(s, e) /\ d <= e

(* round(): to the nearest integer, halves to the even one. *)
RoundedQuotient(a, b) ==
    LET q == a \div b
        r == 2 * (a % b)
    IN IF r > b \/ (r = b /\ q % 2 = 1) THEN q + 1 ELSE q

(* Mutant of MissingIntervals: the interval the gap ends with is missing. *)
MissingIntervalsOneMore(diff, expected) == RoundedQuotient(diff, expected)

MissingIntervals(diff, expected) == Max({RoundedQuotient(diff, expected) - 1, 1})

GapsOf(device, table) ==
    LET s == Ordered(Of(device, Readable(table)))
        expected == ExpectedInterval(s)
    IN {[device |-> device, start |-> s[i - 1], end |-> s[i],
         missing |-> MissingIntervals(s[i] - s[i - 1], expected)] :
           i \in {j \in 2..Len(s) : s[j] - s[j - 1] > expected}}

TimestampGaps(table) == UNION {GapsOf(d, table) : d \in Devices(table)}

(* Mutant of RunId: equal values on both sides of a gap are one run. *)
RunIdAcrossGaps(s, value, i, expected) ==
    <<Cardinality({j \in 2..i : value[j] # value[j - 1]}), 0>>

(* The two cumsum() of detect_flatlines: how often, up to a row, the value  *)
(* changed and the cadence broke (a step over 1.5 times the expected one).  *)
RunId(s, value, i, expected) ==
    <<Cardinality({j \in 2..i : value[j] # value[j - 1]}),
      Cardinality({j \in 2..i : 2 * (s[j] - s[j - 1]) > 3 * expected})>>

(* thresholds.get(column) or default_window_minutes *)
Threshold(sensor, default) == IF sensor \in {Null, 0} THEN default ELSE sensor

(* Rows with a value only; an issue is a run of several rows that lasts     *)
(* long enough.                                                             *)
FlatlinesOf(device, c, table, threshold) ==
    LET rows == {r \in Of(device, Readable(table)) : r.v[c] # Null}
        s == Ordered(rows)
        value == [i \in DOMAIN s |-> (CHOOSE r \in rows : r.ts = s[i]).v[c]]
        expected == ExpectedInterval(s)
        Run(i) == {j \in DOMAIN s : RunId(s, value, j, expected) = RunId(s, value, i, expected)}
        issues == {[device |-> device, column |-> c, start |-> s[Min(Run(i))],
                    end |-> s[Max(Run(i))], value |-> value[i]] : i \in DOMAIN s}
    IN {f \in issues : f.start < f.end /\ f.end - f.start >= threshold}

(* Mutant of Flatlines: the readings of the other devices are not told apart. *)
FlatlinesUngrouped(table, sensor, default) ==
    UNION {FlatlinesOf(d, c, {[r EXCEPT !.device = d] : r \in table},
                       Threshold(sensor[c], default)) :
              d \in Devices(table), c \in Columns}

Flatlines(table, sensor, default) ==
    UNION {FlatlinesOf(d, c, table, Threshold(sensor[c], default)) :
              d \in Devices(table), c \in Columns}

-----------------------------------------------------------------------------
(* Resampling: the mean of each column over the bins of each device; bins   *)
(* are labelled by their start and dropped when they have no value at all.  *)

Bin(ts, freq) == ts - (ts % freq)

MeanOf(rows, c) ==
    LET known == {r \in rows : r.v[c] # Null}
    IN IF known = {} THEN Null
       ELSE MapThenSumSet(LAMBDA r : r.v[c], known) \div Cardinality(known)

(* Mutant of HasValues: a bin must have a value in every column. *)
HasAllValues(v) == \A c \in Columns : v[c] # Null

(* dropna(how="all") *)
HasValues(v) == \E c \in Columns : v[c] # Null

ResampleTable(table, freq) ==
    LET bins == {<<r.device, Bin(r.ts, freq)>> : r \in table}
        InBin(b) == {r \in table : r.device = b[1] /\ Bin(r.ts, freq) = b[2]}
        all == {[device |-> b[1], ts |-> b[2],
                 v |-> [c \in Columns |-> MeanOf(InBin(b), c)]] : b \in bins}
    IN {r \in all : HasValues(r.v)}
=============================================================================
