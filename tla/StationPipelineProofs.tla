------------------------ MODULE StationPipelineProofs ------------------------
(***************************************************************************)
(* A run of StationPipeline, for every value of the constants: whatever    *)
(* the tables and the request, the stages hold what the readings say, and  *)
(* what is reported of them is right.                                      *)
(***************************************************************************)
EXTENDS StationPipeline, SetLemmas, SequenceTheorems

(* What the stages make of a table, under the request of the run. *)
InRange(table) == NullifyTable(NormalizeTable(table))
Kept(table) == ApplyStrategy(InRange(table), config.strategy)
Binned(table) == ResampleTable(Kept(table), config.freq)

FromCompute == {"compute", "done", "crashed"}
FromResample == FromCompute \cup {"resample"}
FromClean == FromResample \cup {"clean"}
FromAssess == FromClean \cup {"assess"}
FromNullify == FromAssess \cup {"nullify"}

(* What the report is to say of a table. *)
MissingOf(table) == [c \in Columns |-> MissingCount(table, c)]
MalformedOf(table) == [c \in Columns |-> MalformedCount(table, c)]
OutOfRangeOf(table) == Total(LAMBDA c : OutOfRangeCount(NormalizeTable(table), c))
FlatlinesIn(table) == Flatlines(table, SensorThreshold, FlatlineWindow)

(* What the report holds once a stage is past. *)
ReportInv ==
    /\ findings = [missing |-> findings.missing, malformed |-> findings.malformed,
                   gaps |-> findings.gaps, flatlines |-> findings.flatlines]
    /\ counts = [validated |-> counts.validated, nullified |-> counts.nullified]
    /\ stage \in FromNullify => /\ findings.malformed = MalformedOf(raw)
                                /\ counts.validated = OutOfRangeOf(raw)
    /\ stage \in FromAssess => counts.nullified = OutOfRangeOf(raw)
    /\ stage \in FromClean => /\ findings.missing = MissingOf(quality)
                              /\ findings.gaps = TimestampGaps(quality)
                              /\ findings.flatlines = FlatlinesIn(quality)

(* What the tables hold once a stage is past, and why a run ended. *)
StageInv ==
    /\ stage \in Stages /\ config \in Configs
    /\ stage # "fetch" => raw \in RawTables
    /\ stage = "nullify" => quality = NormalizeTable(raw)
    /\ stage \in FromAssess => quality = InRange(raw)
    /\ stage \in FromResample => cleaned = Kept(raw)
    /\ stage \in FromCompute => resampled = Binned(raw)
    /\ stage = "done" => metrics = ComputeMetrics(resampled, config.freq)
    /\ stage # "done" => metrics = {}
    /\ stage = "rejected" => Binned(raw) = {}
    /\ stage = "crashed" => IntervalUnknown

RunInv == StageInv /\ ReportInv

-----------------------------------------------------------------------------
(* Tables whose rows get new values.                                       *)
Rewritten(table, f) == {[r EXCEPT !.v = f[r]] : r \in table}

LEMMA RowRewritten ==
    ASSUME NEW table, NEW Value, IsTable(table, Value), NEW r \in table, NEW w
    PROVE  /\ [r EXCEPT !.v = w].device = r.device /\ [r EXCEPT !.v = w].ts = r.ts
           /\ [r EXCEPT !.v = w].v = w
           /\ [r EXCEPT !.v = w] = [device |-> r.device, ts |-> r.ts, v |-> w]
           /\ r.v \in [Columns -> Value] /\ r.ts \in Int \cup {Unreadable}
           /\ r = [device |-> r.device, ts |-> r.ts, v |-> r.v]
<1>1. r \in [device : Devices(table), ts : Int \cup {Unreadable}, v : [Columns -> Value]]
  BY DEF IsTable
<1> QED BY <1>1

LEMMA PartOfTable ==
    ASSUME NEW table, NEW Value, IsTable(table, Value), NEW part \in SUBSET table
    PROVE  IsTable(part, Value)
<1>1. IsFiniteSet(part)
  BY FS_Subset DEF IsTable
<1>2. \A r \in part : r \in [device : Devices(part), ts : Int \cup {Unreadable},
                             v : [Columns -> Value]]
  <2> SUFFICES ASSUME NEW r \in part
               PROVE  r \in [device : Devices(part), ts : Int \cup {Unreadable},
                              v : [Columns -> Value]]
    OBVIOUS
  <2>1. r.device \in Devices(part)
    BY DEF Devices
  <2>2. r \in [device : Devices(table), ts : Int \cup {Unreadable}, v : [Columns -> Value]]
    BY DEF IsTable
  <2> QED BY <2>1, <2>2
<1>3. \A r, q \in part : r.device = q.device /\ r.ts = q.ts => r = q
  BY DEF IsTable
<1> QED BY <1>1, <1>2, <1>3 DEF IsTable

LEMMA TableRewritten ==
    ASSUME NEW table, NEW Value, IsTable(table, Value), NEW f, NEW NewValue,
           \A r \in table : f[r] \in [Columns -> NewValue]
    PROVE  /\ IsTable(Rewritten(table, f), NewValue)
           /\ Devices(Rewritten(table, f)) = Devices(table)
           /\ \A d : Of(d, Rewritten(table, f)) = Rewritten(Of(d, table), f)
           /\ Readable(Rewritten(table, f)) = Rewritten(Readable(table), f)
<1> DEFINE new(r) == [r EXCEPT !.v = f[r]]
<1>1. \A r \in table :
         /\ new(r) = [device |-> r.device, ts |-> r.ts, v |-> f[r]]
         /\ new(r).device = r.device /\ new(r).ts = r.ts
         /\ r.ts \in Int \cup {Unreadable}
  <2> SUFFICES ASSUME NEW r \in table
               PROVE  /\ new(r) = [device |-> r.device, ts |-> r.ts, v |-> f[r]]
                      /\ new(r).device = r.device /\ new(r).ts = r.ts
                      /\ r.ts \in Int \cup {Unreadable}
    OBVIOUS
  <2> QED BY RowRewritten
<1>2. Rewritten(table, f) = {new(r) : r \in table}
  BY DEF Rewritten
<1> HIDE DEF new
<1>3. Devices(Rewritten(table, f)) = Devices(table)
  BY <1>1, <1>2 DEF Devices
<1>4. IsFiniteSet(Rewritten(table, f))
  <2>1. IsFiniteSet(table)
    BY DEF IsTable
  <2> DEFINE g == [r \in table |-> new(r)]
  <2>2. IsFiniteSet({g[r] : r \in DOMAIN g})
    <3>1. DOMAIN g = table
      OBVIOUS
    <3> HIDE DEF g
    <3> QED BY <2>1, <3>1, ImageIsFinite
  <2>3. {g[r] : r \in DOMAIN g} = {new(r) : r \in table}
    OBVIOUS
  <2> QED BY <1>2, <2>2, <2>3
<1>5. ASSUME NEW q \in Rewritten(table, f)
      PROVE  q \in [device : Devices(Rewritten(table, f)), ts : Int \cup {Unreadable},
                    v : [Columns -> NewValue]]
  <2>1. PICK r \in table : q = new(r)
    BY <1>2
  <2>2. r.device \in Devices(Rewritten(table, f))
    BY <1>3 DEF Devices
  <2> QED BY <1>1, <2>1, <2>2
<1>6. \A q, p \in Rewritten(table, f) : q.device = p.device /\ q.ts = p.ts => q = p
  BY <1>1, <1>2 DEF IsTable
<1>7. IsTable(Rewritten(table, f), NewValue)
  BY <1>4, <1>5, <1>6 DEF IsTable
<1>8. ASSUME NEW d PROVE Of(d, Rewritten(table, f)) = Rewritten(Of(d, table), f)
  <2>1. Rewritten(Of(d, table), f) = {new(r) : r \in Of(d, table)}
    BY DEF Rewritten, new
  <2> QED BY <1>1, <1>2, <2>1 DEF Of
<1>9. Readable(Rewritten(table, f)) = Rewritten(Readable(table), f)
  <2>1. Rewritten(Readable(table), f) = {new(r) : r \in Readable(table)}
    BY DEF Rewritten, new
  <2> QED BY <1>1, <1>2, <2>1 DEF Readable
<1> QED BY <1>3, <1>7, <1>8, <1>9

(* Values out of validation and cleaning. *)
Values == Int \cup {Null}

LEMMA Normalized ==
    ASSUME NEW table, IsTable(table, Int \cup {Null, Bad})
    PROVE  /\ IsTable(NormalizeTable(table), Values)
           /\ Devices(NormalizeTable(table)) = Devices(table)
           /\ \A d : Of(d, NormalizeTable(table)) = NormalizeTable(Of(d, table))
           /\ Readable(NormalizeTable(table)) = NormalizeTable(Readable(table))
<1> DEFINE f == [r \in table |-> [c \in Columns |-> IF r.v[c] = Bad THEN Null ELSE r.v[c]]]
<1>1. \A part \in SUBSET table : NormalizeTable(part) = Rewritten(part, f)
  BY DEF NormalizeTable, Rewritten
<1>2. \A r \in table : f[r] \in [Columns -> Values]
  <2> SUFFICES ASSUME NEW r \in table, NEW c \in Columns
               PROVE  (IF r.v[c] = Bad THEN Null ELSE r.v[c]) \in Values
    OBVIOUS
  <2>1. r.v \in [Columns -> Int \cup {Null, Bad}]
    BY RowRewritten
  <2> QED BY <2>1 DEF Values
<1>3. table \in SUBSET table /\ Readable(table) \in SUBSET table
      /\ \A d : Of(d, table) \in SUBSET table
  BY DEF Readable, Of
<1> HIDE DEF f
<1>4. /\ IsTable(Rewritten(table, f), Values)
      /\ Devices(Rewritten(table, f)) = Devices(table)
      /\ \A d : Of(d, Rewritten(table, f)) = Rewritten(Of(d, table), f)
      /\ Readable(Rewritten(table, f)) = Rewritten(Readable(table), f)
  BY <1>2, TableRewritten
<1> QED BY <1>1, <1>3, <1>4

LEMMA Nullified ==
    ASSUME NEW table, IsTable(table, Values)
    PROVE  /\ IsTable(NullifyTable(table), Values)
           /\ Devices(NullifyTable(table)) = Devices(table)
           /\ \A d : Of(d, NullifyTable(table)) = NullifyTable(Of(d, table))
           /\ Readable(NullifyTable(table)) = NullifyTable(Readable(table))
<1> DEFINE f == [r \in table |->
                    [c \in Columns |-> IF OutOfRange(c, r.v[c]) THEN Null ELSE r.v[c]]]
<1>1. \A part \in SUBSET table : NullifyTable(part) = Rewritten(part, f)
  BY DEF NullifyTable, Rewritten
<1>2. \A r \in table : f[r] \in [Columns -> Values]
  <2> SUFFICES ASSUME NEW r \in table, NEW c \in Columns
               PROVE  (IF OutOfRange(c, r.v[c]) THEN Null ELSE r.v[c]) \in Values
    OBVIOUS
  <2>1. r.v \in [Columns -> Values]
    BY RowRewritten
  <2> QED BY <2>1 DEF Values
<1>3. table \in SUBSET table /\ Readable(table) \in SUBSET table
      /\ \A d : Of(d, table) \in SUBSET table
  BY DEF Readable, Of
<1> HIDE DEF f
<1>4. /\ IsTable(Rewritten(table, f), Values)
      /\ Devices(Rewritten(table, f)) = Devices(table)
      /\ \A d : Of(d, Rewritten(table, f)) = Rewritten(Of(d, table), f)
      /\ Readable(Rewritten(table, f)) = Rewritten(Readable(table), f)
  BY <1>2, TableRewritten
<1> QED BY <1>1, <1>3, <1>4

LEMMA InRangeFacts ==
    ASSUME NEW table, IsTable(table, Int \cup {Null, Bad})
    PROVE  /\ IsTable(InRange(table), Values)
           /\ Devices(InRange(table)) = Devices(table)
           /\ \A d : Of(d, InRange(table)) = InRange(Of(d, table))
           /\ Readable(InRange(table)) = InRange(Readable(table))
BY Normalized, Nullified DEF InRange

(* The rows of the validated and cleaned table are those of the source, *)
(* with their usable values only.                                       *)
LEMMA InRangeRow ==
    ASSUME NEW table, IsTable(table, Int \cup {Null, Bad})
    PROVE  InRange(table) =
             {[r EXCEPT !.v = [c \in Columns |-> IF Usable(r, c) THEN r.v[c] ELSE Null]]
                : r \in table}
<1> DEFINE normal(r) == [c \in Columns |-> IF r.v[c] = Bad THEN Null ELSE r.v[c]]
           once(r) == [r EXCEPT !.v = normal(r)]
           null(r) == [c \in Columns |-> IF OutOfRange(c, r.v[c]) THEN Null ELSE r.v[c]]
           twice(r) == [r EXCEPT !.v = null(r)]
           right(r) == [c \in Columns |-> IF Usable(r, c) THEN r.v[c] ELSE Null]
<1>1. ASSUME NEW r \in table
      PROVE  twice(once(r)) = [r EXCEPT !.v = right(r)]
  <2>1. /\ once(r) = [device |-> r.device, ts |-> r.ts, v |-> normal(r)]
        /\ [r EXCEPT !.v = right(r)] = [device |-> r.device, ts |-> r.ts, v |-> right(r)]
        /\ r.v \in [Columns -> Int \cup {Null, Bad}]
    <3> HIDE DEF normal, right
    <3> QED BY RowRewritten
  <2>2. null(once(r)) = right(r)
    <3> SUFFICES ASSUME NEW c \in Columns
                 PROVE  (IF OutOfRange(c, once(r).v[c]) THEN Null ELSE once(r).v[c])
                           = (IF Usable(r, c) THEN r.v[c] ELSE Null)
      OBVIOUS
    <3>1. once(r).v[c] = IF r.v[c] = Bad THEN Null ELSE r.v[c]
      BY <2>1
    <3>2. r.v[c] \in Int \cup {Null, Bad} /\ Low[c] \in Int /\ High[c] \in Int
      BY <2>1, SchemaAssumption
    <3> HIDE DEF once
    <3> QED BY <3>1, <3>2, SchemaAssumption DEF OutOfRange, Usable
  <2>3. twice(once(r)) = [once(r) EXCEPT !.v = right(r)]
    BY <2>2
  <2> HIDE DEF once, right, twice
  <2> QED BY <2>1, <2>3
<1>2. NormalizeTable(table) = {once(r) : r \in table}
  BY DEF NormalizeTable
<1>3. NullifyTable(NormalizeTable(table)) = {twice(q) : q \in NormalizeTable(table)}
  BY DEF NullifyTable
<1> HIDE DEF once, twice
<1> QED BY <1>1, <1>2, <1>3 DEF InRange

-----------------------------------------------------------------------------
(* The strategies, on rows whose times can be read.                        *)
Timed(rows) == IsTable(rows, Values) /\ \A r \in rows : r.ts \in Int

LEMMA ReadableIsTimed ==
    ASSUME NEW table, IsTable(table, Values)
    PROVE  /\ Timed(Readable(table))
           /\ \A d : Timed(Of(d, Readable(table))) /\ Of(d, Readable(table)) = Readable(Of(d, table))
<1>1. \A r \in Readable(table) : r.ts \in Int
  BY RowRewritten DEF Readable
<1>2. Readable(table) \in SUBSET table /\ \A d : Of(d, Readable(table)) \in SUBSET table
  BY DEF Readable, Of
<1>3. IsTable(Readable(table), Values)
  BY <1>2, PartOfTable
<1>4. ASSUME NEW d PROVE Timed(Of(d, Readable(table)))
  <2>1. IsTable(Of(d, Readable(table)), Values)
    BY <1>2, PartOfTable
  <2> QED BY <1>1, <2>1 DEF Timed, Of
<1> QED BY <1>1, <1>3, <1>4 DEF Timed, Readable, Of

(* The latest and the earliest of some rows. *)
LEMMA Outermost ==
    ASSUME NEW rows, Timed(rows), NEW K \in SUBSET rows, K # {}
    PROVE  /\ Latest(K) \in K /\ \A q \in K : q.ts <= Latest(K).ts
           /\ Earliest(K) \in K /\ \A q \in K : Earliest(K).ts <= q.ts
<1> DEFINE g == [r \in K |-> r.ts]
           times == {g[r] : r \in DOMAIN g}
<1>1. IsFiniteSet(times)
  <2>1. IsFiniteSet(DOMAIN g)
    BY FS_Subset DEF Timed, IsTable
  <2> HIDE DEF g
  <2> QED BY <2>1, ImageIsFinite
<1>2. times \in SUBSET Int /\ times # {}
  BY DEF Timed
<1>3. /\ Max(times) \in times /\ \A y \in times : y <= Max(times)
      /\ Min(times) \in times /\ \A y \in times : Min(times) <= y
  <2> HIDE DEF times
  <2> QED BY <1>1, <1>2, GreatestExists, LeastExists
<1>4. \A q \in K : q.ts \in times
  OBVIOUS
<1>5. PICK a \in K : a.ts = Max(times)
  <2> HIDE DEF times
  <2>1. Max(times) \in times
    BY <1>3
  <2> QED BY <2>1 DEF times
<1>6. PICK b \in K : b.ts = Min(times)
  <2> HIDE DEF times
  <2>1. Min(times) \in times
    BY <1>3
  <2> QED BY <2>1 DEF times
<1>7. (\A q \in K : q.ts <= a.ts) /\ (\A q \in K : b.ts <= q.ts)
  <2> HIDE DEF times
  <2> QED BY <1>3, <1>4, <1>5, <1>6
<1> QED BY <1>7 DEF Latest, Earliest

LEMMA FilledFacts ==
    ASSUME NEW rows, Timed(rows), NEW c \in Columns, NEW ts \in Int
    PROVE  /\ Filled(rows, c, ts) \in Values
           /\ Filled(rows, c, ts) # Null <=> KnownBefore(rows, c, ts) # {}
<1> DEFINE K == KnownBefore(rows, c, ts)
<1>1. CASE K = {}
  BY <1>1 DEF Filled, Values
<1>2. CASE K # {}
  <2>1. K \in SUBSET rows
    BY DEF KnownBefore
  <2>2. Latest(K) \in K
    <3> HIDE DEF K
    <3> QED BY <1>2, <2>1, Outermost
  <2>3. Latest(K) \in rows /\ Latest(K).v[c] # Null
    BY <2>2 DEF KnownBefore
  <2>4. Latest(K).v \in [Columns -> Values]
    <3> HIDE DEF K
    <3> QED BY <2>3, RowRewritten DEF Timed
  <2> HIDE DEF K
  <2>5. Filled(rows, c, ts) = Latest(K).v[c]
    BY <1>2 DEF Filled, K
  <2> QED BY <1>2, <2>3, <2>4, <2>5 DEF K
<1> QED BY <1>1, <1>2

LEMMA InterpolatedFacts ==
    ASSUME NEW rows, Timed(rows), \A r, q \in rows : r.ts = q.ts => r = q,
           NEW c \in Columns, NEW ts \in Int
    PROVE  /\ Interpolated(rows, c, ts) \in Values
           /\ Interpolated(rows, c, ts) # Null <=> KnownBefore(rows, c, ts) # {}
<1> DEFINE K == KnownBefore(rows, c, ts)
           L == KnownAfter(rows, c, ts)
           a == Latest(K)
           b == Earliest(L)
<1>1. CASE K = {}
  BY <1>1 DEF Interpolated, Values
<1>2. CASE K # {}
  <2>1. K \in SUBSET rows /\ L \in SUBSET rows
    BY DEF KnownBefore, KnownAfter
  <2>2. a \in K
    <3> HIDE DEF K
    <3> QED BY <1>2, <2>1, Outermost
  <2>3. a \in rows /\ a.v[c] # Null /\ a.ts <= ts
    BY <2>2 DEF KnownBefore
  <2>4. a.v \in [Columns -> Values] /\ a.ts \in Int
    <3> HIDE DEF a
    <3> QED BY <2>3, RowRewritten DEF Timed
  <2>5. a.v[c] \in Int
    <3> HIDE DEF a
    <3> QED BY <2>3, <2>4 DEF Values
  <2>6. CASE L = {}
    <3>1. Interpolated(rows, c, ts) = a.v[c]
      BY <1>2, <2>6 DEF Interpolated
    <3> HIDE DEF a
    <3> QED BY <1>2, <2>3, <2>5, <3>1, SchemaAssumption DEF Values
  <2>7. CASE L # {}
    <3>1. b \in L
      <4> HIDE DEF L
      <4> QED BY <2>1, <2>7, Outermost
    <3>2. b \in rows /\ b.v[c] # Null /\ ts <= b.ts
      BY <3>1 DEF KnownAfter
    <3>3. b.v \in [Columns -> Values] /\ b.ts \in Int
      <4> HIDE DEF b
      <4> QED BY <3>2, RowRewritten DEF Timed
    <3>4. b.v[c] \in Int
      <4> HIDE DEF b
      <4> QED BY <3>2, <3>3 DEF Values
    <3>5. Interpolated(rows, c, ts) =
            IF a = b THEN a.v[c]
            ELSE a.v[c] + ((b.v[c] - a.v[c]) * (ts - a.ts)) \div (b.ts - a.ts)
      BY <1>2, <2>7 DEF Interpolated
    <3> HIDE DEF a, b
    <3>6. a # b => b.ts - a.ts > 0
      BY <2>3, <2>4, <3>2, <3>3
    <3>7. Interpolated(rows, c, ts) \in Int
      <4>1. CASE a = b
        BY <2>5, <3>5, <4>1
      <4>2. CASE a # b
        <5> DEFINE x == (b.v[c] - a.v[c]) * (ts - a.ts)
                   y == b.ts - a.ts
        <5>1. x \in Int /\ y \in Int /\ y > 0
          BY <2>4, <2>5, <3>3, <3>4, <3>6, <4>2
        <5>2. Interpolated(rows, c, ts) = a.v[c] + (x \div y)
          BY <3>5, <4>2
        <5> HIDE DEF x, y
        <5> QED BY <2>5, <5>1, <5>2
      <4> QED BY <4>1, <4>2
    <3> QED BY <1>2, <3>7, SchemaAssumption DEF Values
  <2> QED BY <2>6, <2>7
<1> QED BY <1>1, <1>2

(* The values a row gets when what is missing is not dropped. *)
Completed(rows, r, strategy) ==
    [c \in Columns |-> IF strategy = "fill" THEN Filled(Of(r.device, rows), c, r.ts)
                       ELSE Interpolated(Of(r.device, rows), c, r.ts)]

LEMMA CompletedFacts ==
    ASSUME NEW table, IsTable(table, Values), NEW r \in Readable(table), NEW strategy,
           NEW c \in Columns
    PROVE  /\ Completed(Readable(table), r, strategy)[c] \in Values
           /\ Completed(Readable(table), r, strategy)[c] # Null <=>
                \E q \in Readable(table) :
                    q.device = r.device /\ q.ts <= r.ts /\ q.v[c] # Null
<1> DEFINE rows == Of(r.device, Readable(table))
<1>1. Timed(rows) /\ r.ts \in Int
  BY ReadableIsTimed DEF Timed
<1>2. \A p, q \in rows : p.ts = q.ts => p = q
  BY DEF IsTable, Of, Readable
<1>3. Completed(Readable(table), r, strategy)[c] =
        IF strategy = "fill" THEN Filled(rows, c, r.ts) ELSE Interpolated(rows, c, r.ts)
  BY DEF Completed
<1>4. KnownBefore(rows, c, r.ts) # {} <=>
        \E q \in Readable(table) : q.device = r.device /\ q.ts <= r.ts /\ q.v[c] # Null
  BY DEF KnownBefore, Of
<1> HIDE DEF rows
<1> QED BY <1>1, <1>2, <1>3, <1>4, FilledFacts, InterpolatedFacts

LEMMA StrategyFacts ==
    ASSUME NEW table, IsTable(table, Values), NEW strategy
    PROVE  /\ Timed(ApplyStrategy(table, strategy))
           /\ Cardinality(ApplyStrategy(table, strategy)) <= Cardinality(table)
           /\ \A d : Of(d, ApplyStrategy(table, strategy)) = ApplyStrategy(Of(d, table), strategy)
<1> DEFINE rows == Readable(table)
           whole == {r \in rows : \A c \in Columns : r.v[c] # Null}
           f == [r \in rows |-> Completed(rows, r, strategy)]
<1>1. Timed(rows) /\ IsFiniteSet(table) /\ rows \in SUBSET table /\ whole \in SUBSET table
  BY ReadableIsTimed DEF Readable, IsTable
<1>2. \A d : Readable(Of(d, table)) = Of(d, rows)
  BY DEF Readable, Of
<1>3. CASE strategy = "drop"
  <2>1. ApplyStrategy(table, strategy) = whole
    BY <1>3 DEF ApplyStrategy
  <2>2. IsTable(whole, Values) /\ \A r \in whole : r.ts \in Int
    <3>1. IsTable(whole, Values)
      <4> HIDE DEF whole
      <4> QED BY <1>1, PartOfTable
    <3> QED BY <1>1, <3>1 DEF Timed
  <2>3. Cardinality(whole) <= Cardinality(table)
    <3> HIDE DEF whole
    <3> QED BY <1>1, FS_Subset
  <2>4. ASSUME NEW d PROVE Of(d, whole) = ApplyStrategy(Of(d, table), strategy)
    <3>1. ApplyStrategy(Of(d, table), strategy) =
            {r \in Of(d, rows) : \A c \in Columns : r.v[c] # Null}
      BY <1>2, <1>3 DEF ApplyStrategy
    <3> QED BY <3>1 DEF Of
  <2> QED BY <2>1, <2>2, <2>3, <2>4 DEF Timed
<1>4. CASE strategy # "drop"
  <2>1. ApplyStrategy(table, strategy) = Rewritten(rows, f)
    BY <1>4 DEF ApplyStrategy, Rewritten, Completed
  <2>2. \A r \in rows : f[r] \in [Columns -> Values]
    <3> SUFFICES ASSUME NEW r \in rows PROVE Completed(rows, r, strategy) \in [Columns -> Values]
      OBVIOUS
    <3>1. \A c \in Columns : Completed(rows, r, strategy)[c] \in Values
      BY CompletedFacts
    <3> QED BY <3>1 DEF Completed
  <2>3. IsTable(rows, Values)
    BY <1>1 DEF Timed
  <2>4. /\ IsTable(Rewritten(rows, f), Values)
        /\ \A d : Of(d, Rewritten(rows, f)) = Rewritten(Of(d, rows), f)
        /\ Readable(Rewritten(rows, f)) = Rewritten(Readable(rows), f)
    <3> HIDE DEF f, rows
    <3> QED BY <2>2, <2>3, TableRewritten
  <2>5. \A q \in Rewritten(rows, f) : q.ts \in Int
    <3>1. Readable(rows) = rows
      BY DEF Readable
    <3>2. \A q \in Rewritten(rows, f) : q.ts # Unreadable
      BY <2>4, <3>1 DEF Readable
    <3> HIDE DEF f, rows
    <3> QED BY <2>4, <3>2, RowRewritten
  <2>6. Cardinality(Rewritten(rows, f)) <= Cardinality(table)
    <3> DEFINE new == [r \in rows |-> [r EXCEPT !.v = f[r]]]
    <3>1. Rewritten(rows, f) = {new[r] : r \in DOMAIN new}
      BY DEF Rewritten
    <3>2. DOMAIN new = rows
      OBVIOUS
    <3>3. IsFiniteSet(rows) /\ Cardinality(rows) <= Cardinality(table)
          /\ Cardinality(rows) \in Nat /\ Cardinality(table) \in Nat
      <4> HIDE DEF rows
      <4> QED BY <1>1, FS_Subset, FS_CardinalityType
    <3>4. IsFiniteSet(Rewritten(rows, f))
      BY <2>4 DEF IsTable
    <3>5. Cardinality(Rewritten(rows, f)) \in Nat
      BY <3>4, FS_CardinalityType
    <3> HIDE DEF new, rows
    <3>6. Cardinality({new[r] : r \in DOMAIN new}) <= Cardinality(DOMAIN new)
      BY <3>2, <3>3, ImageSize
    <3> QED BY <3>1, <3>2, <3>3, <3>5, <3>6
  <2>7. ASSUME NEW d PROVE Rewritten(Of(d, rows), f) = ApplyStrategy(Of(d, table), strategy)
    <3>1. ApplyStrategy(Of(d, table), strategy)
            = {[r EXCEPT !.v = Completed(Of(d, rows), r, strategy)] : r \in Of(d, rows)}
      BY <1>2, <1>4 DEF ApplyStrategy, Completed
    <3>2. \A r \in Of(d, rows) : Of(r.device, Of(d, rows)) = Of(r.device, rows)
      BY DEF Of
    <3>3. \A r \in Of(d, rows) : Completed(Of(d, rows), r, strategy) = f[r]
      <4> SUFFICES ASSUME NEW r \in Of(d, rows)
                   PROVE  Completed(Of(d, rows), r, strategy) = Completed(rows, r, strategy)
        BY DEF Of
      <4> HIDE DEF rows
      <4> QED BY <3>2 DEF Completed
    <3> HIDE DEF f
    <3> QED BY <3>1, <3>3 DEF Rewritten
  <2> HIDE DEF f
  <2> QED BY <2>1, <2>4, <2>5, <2>6, <2>7 DEF Timed
<1> QED BY <1>3, <1>4

-----------------------------------------------------------------------------
(* The run: every stage holds what it makes of the readings.               *)
LEMMA RawIsTable ==
    ASSUME StageInv, stage # "fetch"
    PROVE  IsTable(raw, Int \cup {Null, Bad})
BY PipelineAssumption DEF StageInv

LEMMA NothingReadable ==
    ASSUME NEW table, IsTable(table, Int \cup {Null, Bad}), Readable(table) = {}
    PROVE  Kept(table) = {}
<1>1. Readable(InRange(table)) = InRange({})
  BY InRangeFacts
<1>2. InRange({}) = {}
  BY DEF InRange, NormalizeTable, NullifyTable
<1> HIDE DEF InRange
<1> QED BY <1>1, <1>2 DEF Kept, ApplyStrategy

LEMMA NothingKept ==
    ASSUME NEW table, Kept(table) = {} PROVE Binned(table) = {}
BY DEF Binned, ResampleTable

LEMMA RunInit == PipelineInit => RunInv
BY DEF PipelineInit, RunInv, StageInv, ReportInv, Stages, NoFindings, FromNullify, FromAssess,
       FromClean, FromResample, FromCompute

LEMMA StageStep == StageInv /\ [PipelineNext]_pipelineVars => StageInv'
<1> SUFFICES ASSUME StageInv, [PipelineNext]_pipelineVars PROVE StageInv'
  OBVIOUS
<1> USE DEF StageInv, Stages, FromAssess, FromClean, FromResample, FromCompute
<1>1. CASE Fetch
  BY <1>1 DEF Fetch
<1>2. CASE Normalize
  <2>1. Readable(raw) = {} => Binned(raw) = {}
    BY <1>2, RawIsTable, NothingReadable, NothingKept DEF Normalize
  <2>2. raw' = raw /\ config' = config /\ Binned(raw)' = Binned(raw)
    BY <1>2 DEF Normalize, Binned, Kept
  <2> QED BY <1>2, <2>1, <2>2 DEF Normalize
<1>3. CASE Nullify
  <2>1. quality = NormalizeTable(raw)
    BY <1>3 DEF Nullify
  <2> QED BY <1>3, <2>1 DEF Nullify, InRange
<1>4. CASE Assess
  BY <1>4 DEF Assess, InRange
<1>5. CASE Clean
  <2>1. cleaned' = Kept(raw) /\ Kept(raw)' = Kept(raw) /\ Binned(raw)' = Binned(raw)
    BY <1>5 DEF Clean, Kept, Binned
  <2>2. cleaned' = {} => Binned(raw) = {}
    BY <2>1, NothingKept
  <2> QED BY <1>5, <2>1, <2>2 DEF Clean
<1>6. CASE Resample
  <2>1. /\ cleaned = Kept(raw) /\ resampled' = Binned(raw)
        /\ Kept(raw)' = Kept(raw) /\ Binned(raw)' = Binned(raw)
    BY <1>6 DEF Resample, Kept, Binned
  <2> QED BY <1>6, <2>1 DEF Resample
<1>7. CASE ComputeCrashes
  <2>1. Kept(raw)' = Kept(raw) /\ Binned(raw)' = Binned(raw) /\ IntervalUnknown'
    BY <1>7 DEF ComputeCrashes, Kept, Binned, IntervalUnknown
  <2> QED BY <1>7, <2>1 DEF ComputeCrashes
<1>8. CASE Compute
  <2>1. Kept(raw)' = Kept(raw) /\ Binned(raw)' = Binned(raw)
    BY <1>8 DEF Compute, Kept, Binned
  <2> QED BY <1>8, <2>1 DEF Compute
<1>9. CASE UNCHANGED pipelineVars
  <2>1. Kept(raw)' = Kept(raw) /\ Binned(raw)' = Binned(raw) /\ IntervalUnknown' = IntervalUnknown
    BY <1>9 DEF pipelineVars, Kept, Binned, IntervalUnknown
  <2> QED BY <1>9, <2>1 DEF pipelineVars
<1> QED BY <1>1, <1>2, <1>3, <1>4, <1>5, <1>6, <1>7, <1>8, <1>9 DEF PipelineNext

LEMMA ReportStep == StageInv /\ ReportInv /\ [PipelineNext]_pipelineVars => ReportInv'
<1> SUFFICES ASSUME StageInv, ReportInv, [PipelineNext]_pipelineVars PROVE ReportInv'
  OBVIOUS
<1> USE DEF ReportInv, FromNullify, FromAssess, FromClean, FromResample, FromCompute
<1>1. CASE Fetch
  BY <1>1 DEF Fetch
<1>2. CASE Normalize
  <2>1. /\ findings'.malformed = MalformedOf(raw) /\ counts'.validated = OutOfRangeOf(raw)
        /\ stage' \in {"rejected", "nullify"}
    BY <1>2 DEF Normalize, MalformedOf, OutOfRangeOf
  <2> QED BY <1>2, <2>1 DEF Normalize
<1>3. CASE Nullify
  <2>1. counts'.nullified = OutOfRangeOf(raw)
    BY <1>3 DEF Nullify, OutOfRangeOf, StageInv
  <2> QED BY <1>3, <2>1 DEF Nullify
<1>4. CASE Assess
  <2>1. /\ findings'.missing = MissingOf(quality) /\ findings'.gaps = TimestampGaps(quality)
        /\ findings'.flatlines = FlatlinesIn(quality)
    BY <1>4 DEF Assess, MissingOf, FlatlinesIn
  <2> QED BY <1>4, <2>1 DEF Assess
<1>5. CASE Clean
  BY <1>5 DEF Clean
<1>6. CASE Resample
  BY <1>6 DEF Resample
<1>7. CASE ComputeCrashes
  BY <1>7 DEF ComputeCrashes
<1>8. CASE Compute
  BY <1>8 DEF Compute
<1>9. CASE UNCHANGED pipelineVars
  BY <1>9 DEF pipelineVars
<1> QED BY <1>1, <1>2, <1>3, <1>4, <1>5, <1>6, <1>7, <1>8, <1>9 DEF PipelineNext

LEMMA RunStep == RunInv /\ [PipelineNext]_pipelineVars => RunInv'
BY StageStep, ReportStep DEF RunInv

(* Whatever the tables, each stage holds what it makes of the readings. *)
THEOREM RunsAsStaged == PipelineSpec => []RunInv
BY RunInit, RunStep, PTL DEF PipelineSpec

LEMMA QualityIsTable ==
    ASSUME StageInv, stage \in FromAssess
    PROVE  quality = InRange(raw) /\ IsTable(quality, Values) /\ IsTable(raw, Int \cup {Null, Bad})
<1>1. stage # "fetch"
  BY DEF FromAssess, FromClean, FromResample, FromCompute
<1> QED BY <1>1, RawIsTable, InRangeFacts DEF StageInv

-----------------------------------------------------------------------------
(* What the strategies make of some of the rows. *)
LEMMA CompletedTable ==
    ASSUME NEW table, NEW strategy, strategy # "drop", NEW rows, rows = Readable(table)
    PROVE  ApplyStrategy(table, strategy) =
             {[r EXCEPT !.v = Completed(rows, r, strategy)] : r \in rows}
BY DEF ApplyStrategy, Completed

LEMMA FillFaithful == RunInv => FillIsTimeFaithful
<1> SUFFICES ASSUME StageInv, stage = "resample", config.strategy = "fill",
                    NEW now \in {r.ts : r \in cleaned}
             PROVE  ApplyStrategy({r \in Readable(quality) : r.ts <= now}, "fill")
                      = {r \in cleaned : r.ts <= now}
  BY DEF FillIsTimeFaithful, RunInv
<1> DEFINE rows == Readable(quality)
           early == {r \in rows : r.ts <= now}
           new(r) == [r EXCEPT !.v = Completed(rows, r, "fill")]
<1>1. IsTable(quality, Values) /\ cleaned = ApplyStrategy(quality, "fill")
  BY QualityIsTable DEF StageInv, Kept, FromAssess, FromClean, FromResample
<1>2. cleaned = {new(r) : r \in rows}
  BY <1>1, CompletedTable
<1>3. Timed(rows) /\ now \in Int
  BY <1>1, ReadableIsTimed, StrategyFacts DEF Timed
<1>4. \A r \in rows : new(r).ts = r.ts
  <2> SUFFICES ASSUME NEW r \in rows PROVE new(r).ts = r.ts
    OBVIOUS
  <2> HIDE DEF rows
  <2> QED BY <1>3, RowRewritten DEF Timed
<1>5. Readable(early) = early
  BY DEF Readable
<1>6. ASSUME NEW r \in early PROVE Completed(early, r, "fill") = Completed(rows, r, "fill")
  <2>1. ASSUME NEW c \in Columns
        PROVE  KnownBefore(Of(r.device, early), c, r.ts) = KnownBefore(Of(r.device, rows), c, r.ts)
    <3> SUFFICES ASSUME NEW q \in rows, q.ts <= r.ts PROVE q.ts <= now
      BY DEF KnownBefore, Of
    <3>1. q.ts \in Int /\ r.ts \in Int /\ r.ts <= now
      BY <1>3 DEF Timed
    <3> QED BY <1>3, <3>1
  <2> HIDE DEF rows, early
  <2>2. \A c \in Columns : Filled(Of(r.device, early), c, r.ts) = Filled(Of(r.device, rows), c, r.ts)
    BY <2>1 DEF Filled
  <2> QED BY <2>2 DEF Completed
<1>7. ApplyStrategy(early, "fill") = {[r EXCEPT !.v = Completed(early, r, "fill")] : r \in early}
  <2>1. early = Readable(early) /\ "fill" # "drop"
    BY <1>5
  <2> HIDE DEF early
  <2> QED BY <2>1, CompletedTable
<1>8. ApplyStrategy(early, "fill") = {new(r) : r \in early}
  BY <1>6, <1>7
<1> HIDE DEF new
<1> QED BY <1>2, <1>4, <1>8

(* Filling never lets a reading depend on a later one, whatever the tables. *)
THEOREM FillKeepsTime == PipelineSpec => []FillIsTimeFaithful
BY RunsAsStaged, FillFaithful, PTL

LEMMA EmptyRowHarmless == RunInv => EmptyRowsChangeNothing
<1> SUFFICES ASSUME StageInv, stage = "resample", NEW r \in Readable(quality),
                    \A c \in Columns : r.v[c] = Null
             PROVE  ApplyStrategy(quality \ {r}, config.strategy)
                      = {q \in cleaned : <<q.device, q.ts>> # <<r.device, r.ts>>}
  BY DEF EmptyRowsChangeNothing, RunInv
<1> DEFINE rows == Readable(quality)
           others == rows \ {r}
           strategy == config.strategy
           new(q) == [q EXCEPT !.v = Completed(rows, q, strategy)]
<1>1. IsTable(quality, Values) /\ cleaned = ApplyStrategy(quality, strategy)
  BY QualityIsTable DEF StageInv, Kept, FromAssess, FromClean, FromResample
<1>2. Readable(quality \ {r}) = others
  BY DEF Readable
<1>3. \A q \in rows : q # r <=> <<q.device, q.ts>> # <<r.device, r.ts>>
  BY <1>1 DEF IsTable, Readable
<1>4. CASE strategy = "drop"
  <2>1. PICK c \in Columns : TRUE
    BY PipelineAssumption
  <2>2. ~\A k \in Columns : r.v[k] # Null
    BY <2>1
  <2>3. cleaned = {q \in rows : \A k \in Columns : q.v[k] # Null}
    BY <1>1, <1>4 DEF ApplyStrategy
  <2>4. ApplyStrategy(quality \ {r}, strategy) = {q \in others : \A k \in Columns : q.v[k] # Null}
    BY <1>2, <1>4 DEF ApplyStrategy
  <2> HIDE DEF rows
  <2> QED BY <1>3, <2>2, <2>3, <2>4
<1>5. CASE strategy # "drop"
  <2>1. cleaned = {new(q) : q \in rows}
    BY <1>1, <1>5, CompletedTable
  <2>2. ApplyStrategy(quality \ {r}, strategy) =
          {[q EXCEPT !.v = Completed(others, q, strategy)] : q \in others}
    <3> DEFINE table == quality \ {r}
    <3>1. others = Readable(table) /\ strategy # "drop"
      BY <1>2, <1>5
    <3> HIDE DEF others, table
    <3>2. ApplyStrategy(table, strategy) =
            {[q EXCEPT !.v = Completed(others, q, strategy)] : q \in others}
      BY <3>1, CompletedTable
    <3> QED BY <3>2 DEF table
  <2>3. ASSUME NEW q \in others PROVE Completed(others, q, strategy) = Completed(rows, q, strategy)
    <3>1. \A c \in Columns :
             /\ KnownBefore(Of(q.device, others), c, q.ts) = KnownBefore(Of(q.device, rows), c, q.ts)
             /\ KnownAfter(Of(q.device, others), c, q.ts) = KnownAfter(Of(q.device, rows), c, q.ts)
      BY DEF KnownBefore, KnownAfter, Of
    <3> HIDE DEF rows, others, strategy
    <3>2. \A c \in Columns :
             /\ Filled(Of(q.device, others), c, q.ts) = Filled(Of(q.device, rows), c, q.ts)
             /\ Interpolated(Of(q.device, others), c, q.ts) = Interpolated(Of(q.device, rows), c, q.ts)
      BY <3>1 DEF Filled, Interpolated
    <3> QED BY <3>2 DEF Completed
  <2>4. ApplyStrategy(quality \ {r}, strategy) = {new(q) : q \in others}
    BY <2>2, <2>3
  <2>5. \A q \in rows : new(q).ts = q.ts /\ new(q).device = q.device
    <3> SUFFICES ASSUME NEW q \in rows PROVE new(q).ts = q.ts /\ new(q).device = q.device
      OBVIOUS
    <3> HIDE DEF rows
    <3> QED BY <1>1, ReadableIsTimed, RowRewritten DEF Timed, rows
  <2> HIDE DEF new, rows, strategy
  <2>6. \A q \in rows : <<new(q).device, new(q).ts>> # <<r.device, r.ts>> <=> q \in others
    BY <1>3, <2>5
  <2>7. others \subseteq rows
    OBVIOUS
  <2> HIDE DEF others
  <2> USE DEF strategy
  <2> QED BY <2>1, <2>4, <2>6, <2>7
<1> QED BY <1>4, <1>5

(* A reading without any value says nothing, whatever the tables. *)
THEOREM EmptyRowsSayNothing == PipelineSpec => []EmptyRowsChangeNothing
BY RunsAsStaged, EmptyRowHarmless, PTL

-----------------------------------------------------------------------------
(* Resampling.                                                             *)
LEMMA ValuesSummed ==
    ASSUME NEW S, IsFiniteSet(S), NEW c
    PROVE  MapThenSumSet(LAMBDA r : r.v[c], S) = SumOver([r \in S |-> r.v[c]], S)
<1> DEFINE g == [r \in S |-> r.v[c]]
           Value(r) == r.v[c]
           Step(iter, s) ==
               IF s = {} THEN 0
               ELSE Value(CHOOSE k \in s : TRUE) + iter[s \ {CHOOSE k \in s : TRUE}]
           Sums(iter) == iter = [s \in SUBSET S |-> Step(iter, s)]
<1>1. MapThenSumSet(LAMBDA r : r.v[c], S) = (CHOOSE iter : Sums(iter))[S]
  BY DEF MapThenSumSet, MapThenFoldSet
<1>2. \A iter : Sums(iter) <=> Fold(g, iter, S)
  <2> SUFFICES ASSUME NEW iter, NEW s \in SUBSET S PROVE Step(iter, s) = FoldStep(g, iter, s)
    BY DEF Fold
  <2>1. s # {} => (CHOOSE k \in s : TRUE) \in S
    OBVIOUS
  <2> QED BY <2>1 DEF FoldStep
<1>3. PICK m : Fold(g, m, S)
  BY FoldExists
<1> HIDE DEF g, Sums
<1>4. \A iter : (Sums(iter) <=> iter = m) /\ (Fold(g, iter, S) <=> iter = m)
  BY <1>2, <1>3, FoldUnique
<1>5. (CHOOSE iter : Sums(iter)) = m /\ (CHOOSE iter : Fold(g, iter, S)) = m
  BY <1>4
<1>6. MapThenSumSet(LAMBDA r : r.v[c], S) = SumOver(g, S)
  BY <1>1, <1>5 DEF SumOver
<1> QED BY <1>6 DEF g

LEMMA MeanFacts ==
    ASSUME NEW rows, IsTable(rows, Values), NEW c \in Columns
    PROVE  /\ MeanOf(rows, c) \in Values
           /\ MeanOf(rows, c) # Null <=> \E r \in rows : r.v[c] # Null
<1> DEFINE known == {r \in rows : r.v[c] # Null}
           g == [r \in known |-> r.v[c]]
<1>1. CASE known = {}
  BY <1>1 DEF MeanOf, Values
<1>2. CASE known # {}
  <2>1. IsFiniteSet(known) /\ Cardinality(known) \in Nat /\ Cardinality(known) # 0
    <3>1. IsFiniteSet(known)
      BY FS_Subset DEF IsTable
    <3> HIDE DEF known
    <3> QED BY <1>2, <3>1, FS_CardinalityType, FS_EmptySet
  <2>2. \A r \in known : g[r] \in Int
    <3> SUFFICES ASSUME NEW r \in known PROVE r.v[c] \in Int
      OBVIOUS
    <3>1. r \in rows /\ r.v[c] # Null
      OBVIOUS
    <3> HIDE DEF known
    <3>2. r.v \in [Columns -> Values]
      BY <3>1, RowRewritten
    <3> QED BY <3>1, <3>2 DEF Values
  <2> DEFINE total == MapThenSumSet(LAMBDA r : r.v[c], known)
  <2>3. total = SumOver(g, known)
    <3> HIDE DEF known
    <3> QED BY <2>1, ValuesSummed
  <2>4. SumOver(g, known) \in Int
    <3> HIDE DEF known, g
    <3> QED BY <2>1, <2>2, SumFacts
  <2>5. MeanOf(rows, c) = total \div Cardinality(known)
    BY <1>2 DEF MeanOf
  <2> HIDE DEF total, known, g
  <2>6. MeanOf(rows, c) \in Int
    <3> DEFINE x == total
               y == Cardinality(known)
    <3>1. x \in Int /\ y \in Int /\ y > 0
      BY <2>1, <2>3, <2>4
    <3> HIDE DEF x, y
    <3>2. x \div y \in Int
      BY <3>1
    <3> QED BY <2>5, <3>2 DEF x, y
  <2> QED BY <1>2, <2>6, SchemaAssumption DEF Values, known
<1> QED BY <1>1, <1>2

LEMMA BinFacts ==
    ASSUME NEW freq \in Nat \ {0}, NEW x \in Int
    PROVE  /\ Bin(x, freq) \in Int /\ Bin(x, freq) <= x /\ x < Bin(x, freq) + freq
           /\ \A y \in Int : x <= y => Bin(x, freq) <= Bin(y, freq)
           /\ \A y \in Int : Bin(x, freq) < Bin(y, freq) => Bin(x, freq) + freq <= Bin(y, freq)
<1>1. freq \in Int /\ freq > 0
  OBVIOUS
<1>2. \A y \in Int : y % freq \in Int /\ 0 <= y % freq /\ y % freq < freq
  BY <1>1, SMTT(60)
<1>3. \A y \in Int : /\ y \div freq \in Int /\ Bin(y, freq) = freq * (y \div freq)
  BY <1>1, SMTT(60) DEF Bin
<1>4. \A a, b \in Int : freq * a < freq * b => freq * a + freq <= freq * b
  <2> SUFFICES ASSUME NEW a \in Int, NEW b \in Int, freq * a < freq * b
               PROVE  freq * a + freq <= freq * b
    OBVIOUS
  <2>1. a < b
    BY <1>1, SMTT(60)
  <2>2. freq * (a + 1) <= freq * b
    BY <1>1, <2>1, SMTT(60)
  <2>3. freq * (a + 1) = freq * a + freq
    BY <1>1, SMTT(60)
  <2> QED BY <2>2, <2>3
<1>5. \A y \in Int : x <= y => Bin(x, freq) <= Bin(y, freq)
  BY <1>1, SMTT(60) DEF Bin
<1>6. \A y \in Int : Bin(x, freq) < Bin(y, freq) => Bin(x, freq) + freq <= Bin(y, freq)
  BY <1>3, <1>4
<1>7. Bin(x, freq) \in Int /\ Bin(x, freq) <= x /\ x < Bin(x, freq) + freq
  BY <1>1, <1>2 DEF Bin
<1> QED BY <1>5, <1>6, <1>7

(* The rows of a bin, and what becomes of them. *)
InBin(table, freq, d, start) == {r \in table : r.device = d /\ Bin(r.ts, freq) = start}
MeanRow(table, freq, d, start) ==
    [device |-> d, ts |-> start, v |-> [c \in Columns |-> MeanOf(InBin(table, freq, d, start), c)]]
RowFor(table, freq, r) == MeanRow(table, freq, r.device, Bin(r.ts, freq))

LEMMA Resampled ==
    ASSUME NEW table, NEW freq
    PROVE  ResampleTable(table, freq) =
             {q \in {RowFor(table, freq, r) : r \in table} : HasValues(q.v)}
<1> DEFINE bins == {<<r.device, Bin(r.ts, freq)>> : r \in table}
           row(b) == [device |-> b[1], ts |-> b[2],
                      v |-> [c \in Columns |-> MeanOf(
                         {r \in table : r.device = b[1] /\ Bin(r.ts, freq) = b[2]}, c)]]
<1>1. \A r \in table : row(<<r.device, Bin(r.ts, freq)>>) = RowFor(table, freq, r)
  BY DEF RowFor, MeanRow, InBin
<1>2. ResampleTable(table, freq) = {q \in {row(b) : b \in bins} : HasValues(q.v)}
  BY DEF ResampleTable
<1> HIDE DEF row
<1> QED BY <1>1, <1>2

LEMMA ResampledFacts ==
    ASSUME NEW table, Timed(table), NEW freq \in Nat \ {0}
    PROVE  /\ Timed(ResampleTable(table, freq))
           /\ Cardinality(ResampleTable(table, freq)) <= Cardinality(table)
           /\ \A q \in ResampleTable(table, freq) : \E r \in table :
                 q.device = r.device /\ q.ts = Bin(r.ts, freq) /\ HasValues(r.v)
           /\ \A r \in table : HasValues(r.v) => \E q \in ResampleTable(table, freq) :
                 q.device = r.device /\ q.ts = Bin(r.ts, freq)
           /\ \A d : Of(d, ResampleTable(table, freq)) = ResampleTable(Of(d, table), freq)
<1> DEFINE R == ResampleTable(table, freq)
           row(r) == RowFor(table, freq, r)
<1>1. R = {q \in {row(r) : r \in table} : HasValues(q.v)}
  BY Resampled
<1>2. ASSUME NEW r \in table
      PROVE  /\ row(r) \in [device : {r.device}, ts : Int, v : [Columns -> Values]]
             /\ row(r).device = r.device /\ row(r).ts = Bin(r.ts, freq)
             /\ HasValues(row(r).v) <=>
                  \E q \in table : /\ q.device = r.device /\ Bin(q.ts, freq) = Bin(r.ts, freq)
                                   /\ HasValues(q.v)
  <2> DEFINE start == Bin(r.ts, freq)
             rows == InBin(table, freq, r.device, start)
  <2>1. row(r) = [device |-> r.device, ts |-> start, v |-> [c \in Columns |-> MeanOf(rows, c)]]
    BY DEF RowFor, MeanRow
  <2>2. IsTable(rows, Values)
    <3>1. rows \in SUBSET table
      BY DEF InBin
    <3> HIDE DEF rows
    <3> QED BY <3>1, PartOfTable DEF Timed
  <2>3. \A c \in Columns : /\ MeanOf(rows, c) \in Values
                           /\ MeanOf(rows, c) # Null <=> \E q \in rows : q.v[c] # Null
    <3> HIDE DEF rows
    <3> QED BY <2>2, MeanFacts
  <2>4. start \in Int
    BY BinFacts DEF Timed
  <2>5. HasValues(row(r).v) <=> \E q \in rows : HasValues(q.v)
    BY <2>1, <2>3 DEF HasValues
  <2> QED BY <2>1, <2>3, <2>4, <2>5 DEF InBin
<1>3. IsFiniteSet(R) /\ Cardinality(R) <= Cardinality(table)
  <2> DEFINE g == [r \in table |-> row(r)]
             all == {g[r] : r \in DOMAIN g}
  <2>1. IsFiniteSet(table) /\ DOMAIN g = table
    BY DEF Timed, IsTable
  <2>2. R \subseteq all
    BY <1>1
  <2> HIDE DEF g, R
  <2>3. IsFiniteSet(all) /\ Cardinality(all) <= Cardinality(table)
    BY <2>1, ImageIsFinite, ImageSize
  <2> HIDE DEF all
  <2>4. IsFiniteSet(R) /\ Cardinality(R) <= Cardinality(all)
    BY <2>2, <2>3, FS_Subset
  <2>5. Cardinality(R) \in Nat /\ Cardinality(all) \in Nat /\ Cardinality(table) \in Nat
    BY <2>1, <2>3, <2>4, FS_CardinalityType
  <2> QED BY <2>3, <2>4, <2>5
<1> HIDE DEF row
<1>4. Timed(R)
  <2>1. ASSUME NEW q \in R
        PROVE  q \in [device : Devices(R), ts : Int \cup {Unreadable}, v : [Columns -> Values]]
    <3>1. PICK r \in table : q = row(r)
      BY <1>1
    <3>2. r.device \in Devices(R)
      <4>1. q.device = r.device
        BY <1>2, <3>1
      <4> QED BY <4>1 DEF Devices
    <3> HIDE DEF R
    <3> QED BY <1>2, <3>1, <3>2
  <2>2. \A p, q \in R : p.device = q.device /\ p.ts = q.ts => p = q
    <3> SUFFICES ASSUME NEW p \in R, NEW q \in R, p.device = q.device, p.ts = q.ts PROVE p = q
      OBVIOUS
    <3>1. PICK a \in table : p = row(a)
      BY <1>1
    <3>2. PICK b \in table : q = row(b)
      BY <1>1
    <3>3. a.device = b.device /\ Bin(a.ts, freq) = Bin(b.ts, freq)
      BY <1>2, <3>1, <3>2
    <3> QED BY <3>1, <3>2, <3>3 DEF row, RowFor
  <2>3. \A q \in R : q.ts \in Int
    BY <1>1, <1>2
  <2> HIDE DEF R
  <2> QED BY <1>3, <2>1, <2>2, <2>3 DEF Timed, IsTable
<1>5. ASSUME NEW q \in R
      PROVE  \E r \in table : q.device = r.device /\ q.ts = Bin(r.ts, freq) /\ HasValues(r.v)
  <2>1. PICK r \in table : q = row(r) /\ HasValues(row(r).v)
    BY <1>1
  <2>2. PICK p \in table : /\ p.device = r.device /\ Bin(p.ts, freq) = Bin(r.ts, freq)
                           /\ HasValues(p.v)
    BY <1>2, <2>1
  <2> QED BY <1>2, <2>1, <2>2
<1>6. ASSUME NEW r \in table, HasValues(r.v)
      PROVE  \E q \in R : q.device = r.device /\ q.ts = Bin(r.ts, freq)
  <2>1. HasValues(row(r).v)
    BY <1>2, <1>6
  <2>2. row(r) \in R
    BY <1>1, <2>1
  <2> QED BY <1>2, <2>2
<1>7. ASSUME NEW d PROVE Of(d, R) = ResampleTable(Of(d, table), freq)
  <2>1. ResampleTable(Of(d, table), freq) =
          {q \in {RowFor(Of(d, table), freq, r) : r \in Of(d, table)} : HasValues(q.v)}
    BY Resampled
  <2>2. \A r \in Of(d, table) : RowFor(Of(d, table), freq, r) = row(r)
    <3>1. \A r \in Of(d, table) :
             InBin(Of(d, table), freq, r.device, Bin(r.ts, freq))
               = InBin(table, freq, r.device, Bin(r.ts, freq))
      BY DEF InBin, Of
    <3> QED BY <3>1 DEF row, RowFor, MeanRow
  <2>3. ResampleTable(Of(d, table), freq) =
          {q \in {row(r) : r \in Of(d, table)} : HasValues(q.v)}
    BY <2>1, <2>2
  <2>4. \A r \in table : row(r).device = r.device
    BY <1>2
  <2> QED BY <1>1, <2>3, <2>4 DEF Of
<1> QED BY <1>3, <1>4, <1>5, <1>6, <1>7

-----------------------------------------------------------------------------
(* Who is measured.                                                        *)
SameRow(q, p) == q.device = p.device /\ q.ts = p.ts /\ \A c \in Columns : q.v[c] # Null <=> Usable(p, c)

LEMMA InRangeUsable ==
    ASSUME NEW table, IsTable(table, Int \cup {Null, Bad})
    PROVE  /\ \A p \in table : \E q \in InRange(table) : SameRow(q, p)
           /\ \A q \in InRange(table) : \E p \in table : SameRow(q, p)
<1> DEFINE right(r) == [c \in Columns |-> IF Usable(r, c) THEN r.v[c] ELSE Null]
           new(r) == [r EXCEPT !.v = right(r)]
<1>1. InRange(table) = {new(r) : r \in table}
  BY InRangeRow
<1>2. ASSUME NEW p \in table PROVE SameRow(new(p), p)
  <2>1. new(p).device = p.device /\ new(p).ts = p.ts /\ new(p).v = right(p)
    <3> HIDE DEF right
    <3> QED BY RowRewritten
  <2>2. \A c \in Columns : right(p)[c] # Null <=> Usable(p, c)
    BY DEF Usable
  <2> HIDE DEF new
  <2> QED BY <2>1, <2>2 DEF SameRow
<1> HIDE DEF new
<1> QED BY <1>1, <1>2

LEMMA KeptDevices ==
    ASSUME NEW table, IsTable(table, Int \cup {Null, Bad}), NEW d
    PROVE  (\E r \in Kept(table) : r.device = d /\ HasValues(r.v)) <=>
             \E q \in Readable(table) :
                /\ q.device = d
                /\ IF config.strategy = "drop" THEN \A c \in Columns : Usable(q, c)
                   ELSE \E c \in Columns : Usable(q, c)
<1> DEFINE good == InRange(table)
           rows == Readable(good)
<1>1. IsTable(good, Values)
  BY InRangeFacts
<1>2. /\ \A p \in Readable(table) : \E q \in rows : SameRow(q, p)
      /\ \A q \in rows : \E p \in Readable(table) : SameRow(q, p)
  <2>1. /\ \A p \in table : \E q \in good : SameRow(q, p)
        /\ \A q \in good : \E p \in table : SameRow(q, p)
    BY InRangeUsable
  <2>2. \A q, p : SameRow(q, p) => q.ts = p.ts
    BY DEF SameRow
  <2> HIDE DEF good
  <2> QED BY <2>1, <2>2 DEF Readable
<1> HIDE DEF good
<1>3. CASE config.strategy = "drop"
  <2>1. Kept(table) = {r \in rows : \A c \in Columns : r.v[c] # Null}
    BY <1>3 DEF Kept, ApplyStrategy, good
  <2>2. \E c \in Columns : TRUE
    BY PipelineAssumption
  <2>3. (\E r \in Kept(table) : r.device = d /\ HasValues(r.v)) <=>
          \E r \in rows : r.device = d /\ \A c \in Columns : r.v[c] # Null
    BY <2>1, <2>2 DEF HasValues
  <2> HIDE DEF rows
  <2> QED BY <1>2, <1>3, <2>3 DEF SameRow
<1>4. CASE config.strategy # "drop"
  <2> DEFINE full(r) == Completed(rows, r, config.strategy)
             new(r) == [r EXCEPT !.v = full(r)]
  <2>1. Kept(table) = {new(r) : r \in rows}
    <3>1. ApplyStrategy(good, config.strategy) = {new(r) : r \in rows}
      BY <1>4, CompletedTable
    <3> QED BY <3>1 DEF Kept, good
  <2>2. ASSUME NEW r \in rows
        PROVE  /\ new(r).device = r.device /\ new(r).v = full(r) /\ r.ts \in Int
               /\ \A c \in Columns : full(r)[c] # Null <=>
                    \E q \in rows : q.device = r.device /\ q.ts <= r.ts /\ q.v[c] # Null
    <3>1. Timed(rows)
      BY <1>1, ReadableIsTimed
    <3>2. new(r).device = r.device /\ new(r).v = full(r)
      <4> HIDE DEF rows, full
      <4> QED BY <3>1, RowRewritten DEF Timed
    <3>3. \A c \in Columns : full(r)[c] # Null <=>
             \E q \in rows : q.device = r.device /\ q.ts <= r.ts /\ q.v[c] # Null
      BY <1>1, CompletedFacts
    <3>4. r.ts \in Int
      BY <3>1 DEF Timed
    <3> QED BY <3>2, <3>3, <3>4
  <2> HIDE DEF new, full, rows
  <2>3. (\E r \in Kept(table) : r.device = d /\ HasValues(r.v)) <=>
          \E r \in rows : r.device = d /\ \E c \in Columns : r.v[c] # Null
    <3>1. ASSUME NEW r \in Kept(table), r.device = d, HasValues(r.v)
          PROVE  \E q \in rows : q.device = d /\ \E c \in Columns : q.v[c] # Null
      <4>1. PICK p \in rows : r = new(p)
        BY <2>1
      <4>2. PICK c \in Columns : full(p)[c] # Null
        BY <2>2, <3>1, <4>1 DEF HasValues
      <4> QED BY <2>2, <3>1, <4>1, <4>2
    <3>2. ASSUME NEW r \in rows, r.device = d, NEW c \in Columns, r.v[c] # Null
          PROVE  \E q \in Kept(table) : q.device = d /\ HasValues(q.v)
      <4>1. full(r)[c] # Null /\ new(r) \in Kept(table) /\ new(r).device = d
        BY <2>1, <2>2, <3>2
      <4>2. new(r).v[c] # Null
        BY <2>2, <4>1
      <4> QED BY <4>1, <4>2 DEF HasValues
    <3> QED BY <3>1, <3>2
  <2> QED BY <1>2, <1>4, <2>3 DEF SameRow
<1> QED BY <1>3, <1>4

LEMMA BinnedDevices ==
    ASSUME StageInv, stage # "fetch"
    PROVE  /\ Devices(Binned(raw)) = UsableDevices
           /\ Timed(Kept(raw)) /\ Timed(Binned(raw)) /\ config.freq \in Nat \ {0}
<1>1. IsTable(raw, Int \cup {Null, Bad}) /\ config.freq \in Nat \ {0}
  BY RawIsTable, PipelineAssumption DEF StageInv, Configs
<1>2. Timed(Kept(raw))
  BY <1>1, InRangeFacts, StrategyFacts DEF Kept
<1>3. /\ Timed(Binned(raw))
      /\ \A q \in Binned(raw) : \E r \in Kept(raw) : q.device = r.device /\ HasValues(r.v)
      /\ \A r \in Kept(raw) : HasValues(r.v) => \E q \in Binned(raw) : q.device = r.device
  <2> DEFINE table == Kept(raw)
             freq == config.freq
  <2>1. Binned(raw) = ResampleTable(table, freq)
    BY DEF Binned
  <2> HIDE DEF table, freq
  <2>2. Timed(table) /\ freq \in Nat \ {0}
    BY <1>1, <1>2 DEF table, freq
  <2>3. /\ Timed(ResampleTable(table, freq))
        /\ \A q \in ResampleTable(table, freq) : \E r \in table :
              q.device = r.device /\ q.ts = Bin(r.ts, freq) /\ HasValues(r.v)
        /\ \A r \in table : HasValues(r.v) => \E q \in ResampleTable(table, freq) :
              q.device = r.device /\ q.ts = Bin(r.ts, freq)
    BY <2>2, ResampledFacts
  <2> QED BY <2>1, <2>3 DEF table
<1>4. \A d : d \in Devices(Binned(raw)) <=> \E r \in Kept(raw) : r.device = d /\ HasValues(r.v)
  BY <1>3 DEF Devices
<1>5. \A d : d \in Devices(Binned(raw)) <=> d \in UsableDevices
  <2>1. ASSUME NEW d
        PROVE  (\E r \in Kept(raw) : r.device = d /\ HasValues(r.v)) <=>
             \E q \in Readable(raw) :
                /\ q.device = d
                /\ IF config.strategy = "drop" THEN \A c \in Columns : Usable(q, c)
                   ELSE \E c \in Columns : Usable(q, c)
    BY <1>1, KeptDevices
  <2>2. \A d : d \in UsableDevices <=> \E q \in Readable(raw) :
                /\ q.device = d
                /\ IF config.strategy = "drop" THEN \A c \in Columns : Usable(q, c)
                   ELSE \E c \in Columns : Usable(q, c)
    BY DEF UsableDevices
  <2> QED BY <1>4, <2>1, <2>2
<1> QED BY <1>1, <1>2, <1>3, <1>5

LEMMA Measured == RunInv => MeasuredWhenUsable
<1> SUFFICES ASSUME StageInv PROVE MeasuredWhenUsable
  BY DEF RunInv
<1>1. CASE stage = "done"
  <2>1. metrics = ComputeMetrics(Binned(raw), config.freq)
    BY <1>1 DEF StageInv, FromCompute
  <2>2. {m.device : m \in metrics} = Devices(Binned(raw))
    <3>1. \A d, rows, freq : MetricsOf(d, rows, freq).device = d
      BY DEF MetricsOf
    <3> QED BY <2>1, <3>1 DEF ComputeMetrics
  <2>3. {m.device : m \in metrics} = UsableDevices
    BY <1>1, <2>2, BinnedDevices
  <2> QED BY <1>1, <2>3 DEF MeasuredWhenUsable
<1>2. CASE stage = "rejected"
  <2>1. Binned(raw) = {} /\ Devices(Binned(raw)) = UsableDevices
    BY <1>2, BinnedDevices DEF StageInv
  <2> QED BY <1>2, <2>1 DEF MeasuredWhenUsable, Devices
<1>3. CASE stage = "crashed"
  <2> DEFINE freq == config.freq
             BinsOf(d) == {Bin(r.ts, freq) : r \in {q \in Of(d, cleaned) : HasValues(q.v)}}
  <2>1. /\ cleaned = Kept(raw) /\ resampled = ResampleTable(cleaned, freq)
        /\ Devices(resampled) = UsableDevices /\ Timed(cleaned) /\ freq \in Nat \ {0}
        /\ IntervalUnknown
    BY <1>3, BinnedDevices DEF StageInv, FromCompute, FromResample, Binned
  <2>2. PICK d \in UsableDevices : Cardinality(Of(d, resampled)) = 1
    BY <2>1 DEF IntervalUnknown
  <2>3. /\ Timed(ResampleTable(cleaned, freq))
        /\ \A q \in ResampleTable(cleaned, freq) : \E r \in cleaned :
              q.device = r.device /\ q.ts = Bin(r.ts, freq) /\ HasValues(r.v)
        /\ \A r \in cleaned : HasValues(r.v) => \E q \in ResampleTable(cleaned, freq) :
              q.device = r.device /\ q.ts = Bin(r.ts, freq)
    <3> HIDE DEF freq
    <3> QED BY <2>1, ResampledFacts
  <2>4. IsFiniteSet(Of(d, resampled))
    <3>1. IsFiniteSet(resampled)
      BY <2>1, <2>3 DEF Timed, IsTable
    <3> QED BY <3>1, FS_Subset DEF Of
  <2>5. PICK x : Of(d, resampled) = {x}
    BY <2>2, <2>4, FS_Singleton
  <2>6. BinsOf(d) = {x.ts}
    <3>1. ASSUME NEW r \in Of(d, cleaned), HasValues(r.v) PROVE Bin(r.ts, freq) = x.ts
      <4>1. r \in cleaned /\ r.device = d
        BY DEF Of
      <4> HIDE DEF freq
      <4>2. PICK q \in resampled : q.device = r.device /\ q.ts = Bin(r.ts, freq)
        BY <2>1, <2>3, <3>1, <4>1
      <4>3. q \in Of(d, resampled)
        BY <4>1, <4>2 DEF Of
      <4> QED BY <2>5, <4>2, <4>3
    <3>2. x \in resampled /\ x.device = d
      BY <2>5 DEF Of
    <3>3. PICK r \in cleaned : x.device = r.device /\ x.ts = Bin(r.ts, freq) /\ HasValues(r.v)
      <4> HIDE DEF freq
      <4> QED BY <2>1, <2>3, <3>2
    <3>4. r \in Of(d, cleaned)
      BY <3>2, <3>3 DEF Of
    <3> HIDE DEF freq
    <3> QED BY <3>1, <3>3, <3>4
  <2>7. Cardinality(BinsOf(d)) = 1
    <3> HIDE DEF BinsOf
    <3> QED BY <2>6, FS_Singleton
  <2>8. \E e \in UsableDevices :
           Cardinality({Bin(r.ts, config.freq) :
                          r \in {q \in Of(e, cleaned) : HasValues(q.v)}}) = 1
    BY <2>7
  <2> QED BY <1>3, <2>1, <2>8 DEF MeasuredWhenUsable, IntervalUnknown
<1> QED BY <1>1, <1>2, <1>3 DEF MeasuredWhenUsable

(* A run measures the devices with a usable reading, is rejected only when  *)
(* there is none, and crashes only on a device within one bin.              *)
THEOREM UsableIsMeasured == PipelineSpec => []MeasuredWhenUsable
BY RunsAsStaged, Measured, PTL

-----------------------------------------------------------------------------
(* The devices of a station do not meet. *)
LEMMA DeviceKept ==
    ASSUME NEW table, IsTable(table, Int \cup {Null, Bad}), NEW d
    PROVE  Of(d, Kept(table)) = Kept(Of(d, table))
<1>1. IsTable(InRange(table), Values) /\ Of(d, InRange(table)) = InRange(Of(d, table))
  BY InRangeFacts
<1> QED BY <1>1, StrategyFacts DEF Kept

LEMMA DeviceBinned ==
    ASSUME NEW table, IsTable(table, Int \cup {Null, Bad}), NEW d, config.freq \in Nat \ {0}
    PROVE  Of(d, Binned(table)) = Binned(Of(d, table))
<1>1. Timed(Kept(table)) /\ Of(d, Kept(table)) = Kept(Of(d, table))
  <2>1. IsTable(InRange(table), Values)
    BY InRangeFacts
  <2> QED BY <2>1, StrategyFacts, DeviceKept DEF Kept
<1> QED BY <1>1, ResampledFacts DEF Binned

LEMMA DeviceAlone == RunInv => DevicesIndependent
<1> SUFFICES ASSUME StageInv, ReportInv, stage = "done", NEW d \in Devices(raw)
             PROVE  /\ {m \in metrics : m.device = d} = MeasureAlone(d)
                    /\ {g \in findings.gaps : g.device = d} = TimestampGaps(CleanedAlone(d))
                    /\ {f \in findings.flatlines : f.device = d} = FlatlinesIn(CleanedAlone(d))
  BY DEF DevicesIndependent, RunInv, FlatlinesIn
<1> DEFINE freq == config.freq
           all == Binned(raw)
           alone == Binned(Of(d, raw))
<1>1. /\ IsTable(raw, Int \cup {Null, Bad}) /\ freq \in Nat \ {0}
      /\ quality = InRange(raw) /\ metrics = ComputeMetrics(all, freq)
      /\ findings.gaps = TimestampGaps(quality) /\ findings.flatlines = FlatlinesIn(quality)
  BY RawIsTable, BinnedDevices DEF StageInv, ReportInv, FromAssess, FromClean, FromResample,
     FromCompute
<1>2. alone = Of(d, all)
  BY <1>1, DeviceBinned
<1>3. /\ MeasureAlone(d) = ComputeMetrics(alone, freq)
      /\ CleanedAlone(d) = Of(d, quality)
  <2>1. CleanedAlone(d) = InRange(Of(d, raw))
    BY DEF CleanedAlone, InRange
  <2>2. InRange(Of(d, raw)) = Of(d, quality)
    BY <1>1, InRangeFacts
  <2>3. MeasureAlone(d) = ComputeMetrics(alone, freq)
    BY <2>1 DEF MeasureAlone, Binned, Kept
  <2> QED BY <2>1, <2>2, <2>3
<1>4. {m \in metrics : m.device = d} = ComputeMetrics(alone, freq)
  <2>1. \A e, rows : MetricsOf(e, rows, freq).device = e
    BY DEF MetricsOf
  <2>2. ComputeMetrics(alone, freq) = {MetricsOf(e, Of(e, alone), freq) : e \in Devices(alone)}
    BY DEF ComputeMetrics
  <2>3. ComputeMetrics(all, freq) = {MetricsOf(e, Of(e, all), freq) : e \in Devices(all)}
    BY DEF ComputeMetrics
  <2>4. \A e \in Devices(alone) : e = d /\ e \in Devices(all)
    BY <1>2 DEF Devices, Of
  <2>5. d \in Devices(all) => d \in Devices(alone)
    BY <1>2 DEF Devices, Of
  <2>6. Of(d, alone) = Of(d, all)
    BY <1>2 DEF Of
  <2> HIDE DEF all, alone, freq
  <2> QED BY <1>1, <2>1, <2>2, <2>3, <2>4, <2>5, <2>6
<1>5. Of(d, Readable(Of(d, quality))) = Of(d, Readable(quality))
  BY DEF Of, Readable
<1>6. d \in Devices(quality) /\ Devices(Of(d, quality)) = {d}
  <2>1. d \in Devices(quality)
    BY <1>1, InRangeFacts
  <2> QED BY <2>1 DEF Devices, Of
<1>7. {g \in findings.gaps : g.device = d} = TimestampGaps(Of(d, quality))
  <2>1. \A e, table : \A g \in GapsOf(e, table) : g.device = e
    BY DEF GapsOf
  <2>2. GapsOf(d, Of(d, quality)) = GapsOf(d, quality)
    BY <1>5 DEF GapsOf
  <2>3. TimestampGaps(Of(d, quality)) = GapsOf(d, quality)
    BY <1>6, <2>2 DEF TimestampGaps
  <2> QED BY <1>1, <1>6, <2>1, <2>3 DEF TimestampGaps
<1>8. {f \in findings.flatlines : f.device = d} = FlatlinesIn(Of(d, quality))
  <2> DEFINE found(x, c, table) ==
                 FlatlinesOf(x, c, table, Threshold(SensorThreshold[c], FlatlineWindow))
  <2>1. \A x, c, table : \A f \in found(x, c, table) : f.device = x
    <3> SUFFICES ASSUME NEW x, NEW c, NEW table, NEW f \in found(x, c, table)
                 PROVE  f.device = x
      OBVIOUS
    <3>1. \E from, to, held : f = [device |-> x, column |-> c, start |-> from, end |-> to,
                                   value |-> held]
      BY DEF FlatlinesOf
    <3> QED BY <3>1
  <2>2. \A c : found(d, c, Of(d, quality)) = found(d, c, quality)
    BY <1>5 DEF FlatlinesOf
  <2>3. \A f, table : f \in FlatlinesIn(table)
                         <=> \E x \in Devices(table), c \in Columns : f \in found(x, c, table)
    BY DEF FlatlinesIn, Flatlines
  <2> HIDE DEF found
  <2>4. ASSUME NEW f
        PROVE  f \in FlatlinesIn(quality) /\ f.device = d <=> f \in FlatlinesIn(Of(d, quality))
    BY <1>6, <2>1, <2>2, <2>3
  <2> QED BY <1>1, <2>4
<1> QED BY <1>3, <1>4, <1>7, <1>8

(* What a run reports of a device is what a run over it alone reports. *)
THEOREM DevicesStayApart == PipelineSpec => []DevicesIndependent
BY RunsAsStaged, DeviceAlone, PTL

-----------------------------------------------------------------------------
(* Ordered: the timestamps of some rows, each once, in increasing order.   *)
Times(rows) == {r.ts : r \in rows}
UpTo(T, t) == {u \in T : u <= t}

LEMMA TimesFinite ==
    ASSUME NEW rows, Timed(rows)
    PROVE  IsFiniteSet(Times(rows)) /\ Times(rows) \in SUBSET Int
<1> DEFINE g == [r \in rows |-> r.ts]
<1>1. Times(rows) = {g[r] : r \in DOMAIN g} /\ IsFiniteSet(DOMAIN g)
  BY DEF Times, Timed, IsTable
<1>2. Times(rows) \in SUBSET Int
  BY DEF Times, Timed
<1> HIDE DEF g
<1> QED BY <1>1, <1>2, ImageIsFinite

LEMMA Ranks ==
    ASSUME NEW T \in SUBSET Int, IsFiniteSet(T)
    PROVE  /\ Cardinality(T) \in Nat
           /\ \A t \in T : Cardinality(UpTo(T, t)) \in 1..Cardinality(T)
           /\ \A t, u \in T : t < u => Cardinality(UpTo(T, t)) < Cardinality(UpTo(T, u))
           /\ \A i \in 1..Cardinality(T) : \E t \in T : Cardinality(UpTo(T, t)) = i
<1> DEFINE n == Cardinality(T)
           rank == [t \in T |-> Cardinality(UpTo(T, t))]
<1>1. n \in Nat
  BY FS_CardinalityType
<1>2. \A t \in T : /\ UpTo(T, t) \in SUBSET T /\ t \in UpTo(T, t)
                   /\ IsFiniteSet(UpTo(T, t)) /\ Cardinality(UpTo(T, t)) \in Nat
                   /\ Cardinality(UpTo(T, t)) <= n
  <2>1. \A t \in T : UpTo(T, t) \in SUBSET T /\ t \in UpTo(T, t)
    BY DEF UpTo
  <2> QED BY <2>1, FS_Subset, FS_CardinalityType
<1>3. \A t \in T : Cardinality(UpTo(T, t)) # 0
  BY <1>2, FS_EmptySet
<1>4. \A t \in T : rank[t] \in 1..n
  BY <1>1, <1>2, <1>3
<1>5. ASSUME NEW t \in T, NEW u \in T, t < u
      PROVE  Cardinality(UpTo(T, t)) < Cardinality(UpTo(T, u))
  <2>1. UpTo(T, t) \in SUBSET UpTo(T, u) /\ u \in UpTo(T, u) /\ u \notin UpTo(T, t)
    <3>1. t \in Int /\ u \in Int /\ \A x \in T : x \in Int
      OBVIOUS
    <3>2. t < u
      BY <1>5
    <3>3. \A x \in UpTo(T, t) : x \in UpTo(T, u)
      BY <3>1, <3>2 DEF UpTo
    <3>4. u \in UpTo(T, u) /\ u \notin UpTo(T, t)
      BY <3>1, <3>2 DEF UpTo
    <3> QED BY <3>3, <3>4
  <2>2. /\ Cardinality(UpTo(T, t)) <= Cardinality(UpTo(T, u))
        /\ Cardinality(UpTo(T, u)) # Cardinality(UpTo(T, t))
    BY <1>2, <2>1, FS_Subset
  <2> QED BY <1>2, <2>2
<1>6. rank \in Injection(T, 1..n)
  <2>1. \A t, u \in T : rank[t] = rank[u] => t = u
    <3> SUFFICES ASSUME NEW t \in T, NEW u \in T, rank[t] = rank[u], t # u PROVE FALSE
      OBVIOUS
    <3>1. t < u \/ u < t
      OBVIOUS
    <3> QED BY <1>2, <1>5, <3>1
  <2> QED BY <1>4, <2>1 DEF Injection, IsInjective
<1>7. IsFiniteSet(1..n) /\ Cardinality(1..n) = n
  BY <1>1, FS_Interval
<1>8. rank \in Surjection(T, 1..n)
  <2> HIDE DEF rank
  <2> QED BY <1>6, <1>7, FS_Injection
<1>9. \A i \in 1..n : \E t \in T : Cardinality(UpTo(T, t)) = i
  BY <1>8 DEF Surjection
<1> QED BY <1>1, <1>4, <1>5, <1>9

LEMMA OrderedFacts ==
    ASSUME NEW rows, Timed(rows)
    PROVE  /\ Ordered(rows) \in Seq(Int)
           /\ Len(Ordered(rows)) = Cardinality(Times(rows)) /\ Len(Ordered(rows)) \in Nat
           /\ DOMAIN Ordered(rows) = 1..Len(Ordered(rows))
           /\ \A i \in 1..Len(Ordered(rows)) : Ordered(rows)[i] \in Times(rows)
           /\ \A i, j \in 1..Len(Ordered(rows)) : i < j => Ordered(rows)[i] < Ordered(rows)[j]
           /\ \A t \in Times(rows) : \E i \in 1..Len(Ordered(rows)) : Ordered(rows)[i] = t
<1> DEFINE T == Times(rows)
           n == Cardinality(T)
           s == Ordered(rows)
           at(i) == CHOOSE t \in T : Cardinality(UpTo(T, t)) = i
<1>1. IsFiniteSet(T) /\ T \in SUBSET Int
  BY TimesFinite
<1>2. /\ n \in Nat
      /\ \A t \in T : Cardinality(UpTo(T, t)) \in 1..n
      /\ \A t, u \in T : t < u => Cardinality(UpTo(T, t)) < Cardinality(UpTo(T, u))
      /\ \A i \in 1..n : \E t \in T : Cardinality(UpTo(T, t)) = i
  <2> HIDE DEF T
  <2> QED BY <1>1, Ranks
<1>3. s = [i \in 1..n |-> at(i)]
  BY DEF Ordered, Times, UpTo
<1> HIDE DEF T, s
<1>4. \A i \in 1..n : at(i) \in T /\ Cardinality(UpTo(T, at(i))) = i
  BY <1>2
<1>5. s \in [1..n -> T]
  BY <1>3, <1>4
<1>6. s \in Seq(Int) /\ Len(s) = n /\ DOMAIN s = 1..n
  <2>1. s \in [1..n -> Int]
    BY <1>1, <1>5
  <2> QED BY <1>2, <2>1
<1>7. ASSUME NEW i \in 1..n, NEW j \in 1..n, i < j PROVE s[i] < s[j]
  <2>1. /\ s[i] \in T /\ s[j] \in T /\ Cardinality(UpTo(T, s[i])) = i
        /\ Cardinality(UpTo(T, s[j])) = j
    BY <1>3, <1>4
  <2>2. s[i] # s[j] /\ ~(s[j] < s[i])
    BY <1>2, <1>7, <2>1
  <2>3. s[i] \in Int /\ s[j] \in Int
    BY <1>1, <2>1
  <2> QED BY <2>2, <2>3
<1>8. ASSUME NEW t \in T PROVE \E i \in 1..n : s[i] = t
  <2> DEFINE i == Cardinality(UpTo(T, t))
  <2>1. i \in 1..n
    BY <1>2
  <2>2. s[i] \in T /\ Cardinality(UpTo(T, s[i])) = i
    BY <1>3, <1>4, <2>1
  <2>3. ~(s[i] < t) /\ ~(t < s[i])
    BY <1>2, <2>1, <2>2
  <2>4. s[i] \in Int /\ t \in Int
    BY <1>1, <2>2
  <2> QED BY <2>1, <2>3, <2>4
<1> QED BY <1>2, <1>5, <1>6, <1>7, <1>8 DEF T, s

-----------------------------------------------------------------------------
(* The interval the engine infers.                                         *)
Spaced(s, freq) == \A i \in 2..Len(s) : s[i] - s[i - 1] \in Int /\ s[i] - s[i - 1] >= freq

LEMMA BinsAreSpaced ==
    ASSUME NEW rows, Timed(rows), NEW freq \in Nat \ {0},
           \A r \in rows : \E x \in Int : r.ts = Bin(x, freq)
    PROVE  Spaced(Ordered(rows), freq)
<1> DEFINE s == Ordered(rows)
<1> SUFFICES ASSUME NEW i \in 2..Len(s) PROVE s[i] - s[i - 1] \in Int /\ s[i] - s[i - 1] >= freq
  BY DEF Spaced
<1>1. /\ Len(s) \in Nat /\ \A k \in 1..Len(s) : s[k] \in Times(rows)
      /\ \A j, k \in 1..Len(s) : j < k => s[j] < s[k]
  BY OrderedFacts
<1> HIDE DEF s
<1>2. i \in 1..Len(s) /\ i - 1 \in 1..Len(s) /\ i - 1 < i
  BY <1>1
<1>3. s[i] \in Times(rows) /\ s[i - 1] \in Times(rows) /\ s[i - 1] < s[i]
  BY <1>1, <1>2
<1>4. PICK x \in Int : s[i - 1] = Bin(x, freq)
  BY <1>3 DEF Times
<1>5. PICK y \in Int : s[i] = Bin(y, freq)
  BY <1>3 DEF Times
<1>6. Bin(x, freq) \in Int /\ Bin(y, freq) \in Int
      /\ (Bin(x, freq) < Bin(y, freq) => Bin(x, freq) + freq <= Bin(y, freq))
  BY BinFacts
<1> QED BY <1>3, <1>4, <1>5, <1>6

(* When most bins follow each other, the inferred interval is their length. *)
LEMMA IntervalIsFrequency ==
    ASSUME NEW s \in Seq(Int), NEW freq \in Nat \ {0}, Spaced(s, freq),
           2 * TimesSeen(s, freq) > Len(s) - 1
    PROVE  IntervalOf(s, freq) = freq
<1> DEFINE n == Len(s)
           Within(d) == Cardinality({i \in 2..n : s[i] - s[i - 1] <= d})
           rank == (n - 1) \div 2 + 1
           Median(d) == Within(d) >= rank /\ \A e \in Differences(s) : Within(e) >= rank => d <= e
<1>1. n \in Nat
  OBVIOUS
<1>2. CASE n < 2
  BY <1>2 DEF IntervalOf
<1>3. CASE ~(n < 2)
  <2>1. IntervalOf(s, freq) = CHOOSE d \in Differences(s) : Median(d)
    BY <1>3 DEF IntervalOf
  <2>2. {i \in 2..n : s[i] - s[i - 1] <= freq} = {i \in 2..n : s[i] - s[i - 1] = freq}
    <3>1. \A i \in 2..n : s[i] - s[i - 1] <= freq <=> s[i] - s[i - 1] = freq
      BY DEF Spaced
    <3> QED BY <3>1
  <2>3. Within(freq) = TimesSeen(s, freq)
    BY <2>2 DEF TimesSeen
  <2>4. TimesSeen(s, freq) \in Nat
    <3>1. IsFiniteSet(2..n)
      BY <1>1, FS_Interval
    <3>2. IsFiniteSet({i \in 2..n : s[i] - s[i - 1] = freq})
      BY <3>1, FS_Subset
    <3> QED BY <3>2, FS_CardinalityType DEF TimesSeen
  <2>5. rank \in Int /\ Within(freq) >= rank /\ TimesSeen(s, freq) # 0
    <3>1. 2 * ((n - 1) \div 2) <= n - 1 /\ (n - 1) \div 2 \in Int
      BY <1>1
    <3> DEFINE half == (n - 1) \div 2
               seen == TimesSeen(s, freq)
    <3>2. n \in Int /\ 2 <= n /\ seen \in Int /\ 2 * seen > n - 1
          /\ half \in Int /\ 2 * half <= n - 1
      BY <1>1, <1>3, <2>4, <3>1
    <3> HIDE DEF half, seen, n
    <3>3. half + 1 \in Int /\ seen >= half + 1 /\ seen # 0
      BY <3>2
    <3> QED BY <2>3, <3>3 DEF half, seen
  <2>6. freq \in Differences(s)
    <3>1. {i \in 2..n : s[i] - s[i - 1] = freq} # {}
      BY <2>5, FS_EmptySet DEF TimesSeen
    <3> QED BY <3>1 DEF Differences
  <2>7. \A d \in Differences(s) : d \in Int /\ freq <= d
    BY DEF Differences, Spaced
  <2> HIDE DEF rank, Within
  <2>8. Median(freq)
    BY <2>5, <2>7
  <2>9. \A d \in Differences(s) : Median(d) => d = freq
    BY <2>5, <2>6, <2>7
  <2> HIDE DEF Median
  <2> QED BY <2>1, <2>6, <2>8, <2>9
<1> QED BY <1>2, <1>3

(* What the engine works on, device by device. *)
LEMMA MeasuredRows ==
    ASSUME StageInv, NEW m \in metrics
    PROVE  LET rows == Of(m.device, resampled)
           IN /\ stage = "done" /\ m.device \in Devices(resampled)
              /\ m = MetricsOf(m.device, rows, config.freq)
              /\ Timed(rows) /\ rows # {} /\ config.freq \in Nat \ {0}
              /\ \A r \in rows : \E x \in Int : r.ts = Bin(x, config.freq)
<1> DEFINE freq == config.freq
           rows == Of(m.device, resampled)
<1>1. stage = "done" /\ metrics = ComputeMetrics(resampled, freq)
      /\ resampled = ResampleTable(Kept(raw), freq)
  BY DEF StageInv, FromCompute, Binned
<1>2. PICK d \in Devices(resampled) : m = MetricsOf(d, Of(d, resampled), freq)
  BY <1>1 DEF ComputeMetrics
<1>3. d = m.device
  BY <1>2 DEF MetricsOf
<1>4. rows # {}
  BY <1>3 DEF Devices, Of
<1>5. /\ Timed(Kept(raw)) /\ freq \in Nat \ {0}
  BY <1>1, BinnedDevices
<1> HIDE DEF freq
<1>6. /\ Timed(resampled)
      /\ \A q \in resampled : \E r \in Kept(raw) : q.ts = Bin(r.ts, freq)
  BY <1>1, <1>5, ResampledFacts
<1>7. \A q \in resampled : \E x \in Int : q.ts = Bin(x, freq)
  BY <1>5, <1>6 DEF Timed
<1>8. rows \in SUBSET resampled
  BY DEF Of
<1>9. Timed(rows)
  <2> HIDE DEF rows
  <2> QED BY <1>6, <1>8, PartOfTable DEF Timed
<1> HIDE DEF rows
<1>10. \A r \in rows : \E x \in Int : r.ts = Bin(x, freq)
  BY <1>7, <1>8
<1> QED BY <1>1, <1>2, <1>3, <1>4, <1>5, <1>9, <1>10 DEF freq, rows

LEMMA NotStretched == RunInv => GapsDoNotStretchTime
<1> SUFFICES ASSUME StageInv, NEW m \in metrics,
                    2 * TimesSeen(Ordered(Of(m.device, resampled)), config.freq)
                      > Len(Ordered(Of(m.device, resampled))) - 1
             PROVE  m.active_duration = m.active_rows * config.freq
  BY DEF GapsDoNotStretchTime, RunInv
<1> DEFINE rows == Of(m.device, resampled)
           freq == config.freq
           s == Ordered(rows)
<1>1. /\ m = MetricsOf(m.device, rows, freq) /\ Timed(rows) /\ freq \in Nat \ {0}
      /\ \A r \in rows : \E x \in Int : r.ts = Bin(x, freq)
  BY MeasuredRows
<1>2. m.active_duration = m.active_rows * IntervalOf(s, freq)
  <2> HIDE DEF rows, freq
  <2> QED BY <1>1 DEF MetricsOf
<1>3. s \in Seq(Int) /\ Spaced(s, freq)
  <2> HIDE DEF rows, freq
  <2> QED BY <1>1, OrderedFacts, BinsAreSpaced
<1>4. IntervalOf(s, freq) = freq
  <2>1. 2 * TimesSeen(s, freq) > Len(s) - 1
    OBVIOUS
  <2> HIDE DEF s, freq
  <2> QED BY <1>1, <1>3, <2>1, IntervalIsFrequency
<1> QED BY <1>2, <1>4

(* Gaps do not stretch the active time while most bins follow each other. *)
THEOREM ActiveTimeIsBinned == PipelineSpec => []GapsDoNotStretchTime
BY RunsAsStaged, NotStretched, PTL

-----------------------------------------------------------------------------
(* The counts of a report.                                                 *)
LEMMA RewrittenSize ==
    ASSUME NEW table, NEW Value, IsTable(table, Value), NEW f, NEW part \in SUBSET table
    PROVE  Cardinality(Rewritten(part, f)) = Cardinality(part)
<1> DEFINE g == [r \in part |-> [r EXCEPT !.v = f[r]]]
<1>1. Rewritten(part, f) = {g[r] : r \in DOMAIN g} /\ DOMAIN g = part
  BY DEF Rewritten
<1>2. \A r \in part : g[r].device = r.device /\ g[r].ts = r.ts
  <2> SUFFICES ASSUME NEW r \in part
               PROVE  [r EXCEPT !.v = f[r]].device = r.device /\ [r EXCEPT !.v = f[r]].ts = r.ts
    OBVIOUS
  <2> QED BY RowRewritten
<1>3. IsFiniteSet(part)
  BY FS_Subset DEF IsTable
<1> HIDE DEF g
<1>4. \A p, q \in DOMAIN g : g[p] = g[q] => p = q
  BY <1>1, <1>2 DEF IsTable
<1> QED BY <1>1, <1>3, <1>4, ImageCounts

LEMMA MissingExplained ==
    ASSUME NEW table, IsTable(table, Int \cup {Null, Bad}), NEW c \in Columns
    PROVE  LET nulls == Quantify(table, LAMBDA r : r.v[c] = Null)
               bad == MalformedCount(table, c)
               out == OutOfRangeCount(NormalizeTable(table), c)
           IN /\ nulls \in Nat /\ bad \in Nat /\ out \in Nat
              /\ MissingCount(InRange(table), c) = nulls + bad + out
<1> DEFINE nullRows == {r \in table : r.v[c] = Null}
           badRows == {r \in table : r.v[c] = Bad}
           outRows == {r \in table : r.v[c] \notin {Null, Bad} /\ OutOfRange(c, r.v[c])}
           lost == {r \in table : ~Usable(r, c)}
           once == [r \in table |-> [k \in Columns |-> IF r.v[k] = Bad THEN Null ELSE r.v[k]]]
           right == [r \in table |-> [k \in Columns |-> IF Usable(r, k) THEN r.v[k] ELSE Null]]
<1>1. \A r \in table : /\ r.v[c] \in Int \cup {Null, Bad}
                       /\ [r EXCEPT !.v = once[r]].v = once[r]
                       /\ [r EXCEPT !.v = right[r]].v = right[r]
  <2> SUFFICES ASSUME NEW r \in table
               PROVE  /\ r.v[c] \in Int \cup {Null, Bad}
                      /\ [r EXCEPT !.v = once[r]].v = once[r]
                      /\ [r EXCEPT !.v = right[r]].v = right[r]
    OBVIOUS
  <2>1. r.v \in [Columns -> Int \cup {Null, Bad}]
    BY RowRewritten
  <2> HIDE DEF once, right
  <2> QED BY <2>1, RowRewritten
<1>2. NormalizeTable(table) = Rewritten(table, once)
  BY DEF NormalizeTable, Rewritten
<1>3. InRange(table) = Rewritten(table, right)
  BY InRangeRow DEF Rewritten
<1>4. {q \in NormalizeTable(table) : OutOfRange(c, q.v[c])} = Rewritten(outRows, once)
  <2>1. \A r \in table : OutOfRange(c, once[r][c]) <=> r \in outRows
    BY <1>1 DEF OutOfRange
  <2> HIDE DEF once, outRows
  <2>2. outRows \subseteq table
    BY DEF outRows
  <2> DEFINE new(r) == [r EXCEPT !.v = once[r]]
  <2>3. \A r \in table : new(r).v[c] = once[r][c]
    BY <1>1
  <2>4. /\ Rewritten(table, once) = {new(r) : r \in table}
        /\ Rewritten(outRows, once) = {new(r) : r \in outRows}
    BY DEF Rewritten
  <2> HIDE DEF new
  <2> QED BY <1>2, <2>1, <2>2, <2>3, <2>4
<1>5. {q \in InRange(table) : q.v[c] = Null} = Rewritten(lost, right)
  <2>1. \A r \in table : right[r][c] = Null <=> r \in lost
    BY DEF Usable
  <2> HIDE DEF right, lost
  <2>2. lost \subseteq table
    BY DEF lost
  <2> DEFINE new(r) == [r EXCEPT !.v = right[r]]
  <2>3. \A r \in table : new(r).v[c] = right[r][c]
    BY <1>1
  <2>4. /\ Rewritten(table, right) = {new(r) : r \in table}
        /\ Rewritten(lost, right) = {new(r) : r \in lost}
    BY DEF Rewritten
  <2> HIDE DEF new
  <2> QED BY <1>3, <2>1, <2>2, <2>3, <2>4
<1>6. OutOfRangeCount(NormalizeTable(table), c) = Cardinality(outRows)
  <2> HIDE DEF once
  <2>1. Cardinality(Rewritten(outRows, once)) = Cardinality(outRows)
    <3>1. outRows \in SUBSET table
      OBVIOUS
    <3> HIDE DEF outRows
    <3> QED BY <3>1, RewrittenSize
  <2> QED BY <1>4, <2>1 DEF OutOfRangeCount, Quantify
<1>7. MissingCount(InRange(table), c) = Cardinality(lost)
  <2> HIDE DEF right
  <2>1. Cardinality(Rewritten(lost, right)) = Cardinality(lost)
    <3>1. lost \in SUBSET table
      OBVIOUS
    <3> HIDE DEF lost
    <3> QED BY <3>1, RewrittenSize
  <2> QED BY <1>5, <2>1 DEF MissingCount, Quantify
<1>8. /\ lost = (nullRows \cup badRows) \cup outRows
      /\ nullRows \cap badRows = {} /\ (nullRows \cup badRows) \cap outRows = {}
  <2>1. Low[c] \in Int /\ High[c] \in Int
    BY SchemaAssumption
  <2>2. \A r \in table : ~Usable(r, c) <=> r \in nullRows \/ r \in badRows \/ r \in outRows
    BY <1>1, <2>1 DEF Usable, OutOfRange
  <2> QED BY <2>2, SchemaAssumption
<1>9. IsFiniteSet(nullRows) /\ IsFiniteSet(badRows) /\ IsFiniteSet(outRows)
  BY FS_Subset DEF IsTable
<1>10. Quantify(table, LAMBDA r : r.v[c] = Null) = Cardinality(nullRows)
       /\ MalformedCount(table, c) = Cardinality(badRows)
  BY DEF MalformedCount, Quantify
<1> HIDE DEF nullRows, badRows, outRows, lost
<1>11. /\ Cardinality(nullRows) \in Nat /\ Cardinality(badRows) \in Nat
       /\ Cardinality(outRows) \in Nat
  BY <1>9, FS_CardinalityType
<1>12. /\ IsFiniteSet(nullRows \cup badRows)
       /\ Cardinality(nullRows \cup badRows) = Cardinality(nullRows) + Cardinality(badRows)
  BY <1>8, <1>9, DisjointSizes
<1>13. Cardinality(lost) = Cardinality(nullRows \cup badRows) + Cardinality(outRows)
  BY <1>8, <1>9, <1>12, DisjointSizes
<1> QED BY <1>6, <1>7, <1>10, <1>11, <1>12, <1>13

(* The totals over the columns are sums. *)
LEMMA EntriesTotal ==
    ASSUME NEW f, IsFiniteSet(Columns)
    PROVE  Total(LAMBDA c : f[c]) = SumOver([c \in Columns |-> f[c]], Columns)
<1> DEFINE g == [c \in Columns |-> f[c]]
           Count(c) == f[c]
           Step(iter, s) ==
               IF s = {} THEN 0
               ELSE Count(CHOOSE k \in s : TRUE) + iter[s \ {CHOOSE k \in s : TRUE}]
           Sums(iter) == iter = [s \in SUBSET Columns |-> Step(iter, s)]
<1>1. Total(LAMBDA c : f[c]) = (CHOOSE iter : Sums(iter))[Columns]
  BY DEF Total, MapThenSumSet, MapThenFoldSet
<1>2. \A iter : Sums(iter) <=> Fold(g, iter, Columns)
  <2> SUFFICES ASSUME NEW iter, NEW s \in SUBSET Columns PROVE Step(iter, s) = FoldStep(g, iter, s)
    BY DEF Fold
  <2>1. s # {} => (CHOOSE k \in s : TRUE) \in Columns
    OBVIOUS
  <2> QED BY <2>1 DEF FoldStep
<1>3. PICK m : Fold(g, m, Columns)
  BY FoldExists
<1> HIDE DEF g, Sums
<1>4. \A iter : (Sums(iter) <=> iter = m) /\ (Fold(g, iter, Columns) <=> iter = m)
  BY <1>2, <1>3, FoldUnique
<1>5. (CHOOSE iter : Sums(iter)) = m /\ (CHOOSE iter : Fold(g, iter, Columns)) = m
  BY <1>4
<1>6. Total(LAMBDA c : f[c]) = SumOver(g, Columns)
  BY <1>1, <1>5 DEF SumOver
<1> QED BY <1>6 DEF g

LEMMA NullsTotal ==
    ASSUME NEW table, IsFiniteSet(Columns)
    PROVE  Total(LAMBDA c : Quantify(table, LAMBDA r : r.v[c] = Null)) = SumOver([c \in Columns |-> Quantify(table, LAMBDA r : r.v[c] = Null)], Columns)
<1> DEFINE g == [c \in Columns |-> Quantify(table, LAMBDA r : r.v[c] = Null)]
           Count(c) == Quantify(table, LAMBDA r : r.v[c] = Null)
           Step(iter, s) ==
               IF s = {} THEN 0
               ELSE Count(CHOOSE k \in s : TRUE) + iter[s \ {CHOOSE k \in s : TRUE}]
           Sums(iter) == iter = [s \in SUBSET Columns |-> Step(iter, s)]
<1>1. Total(LAMBDA c : Quantify(table, LAMBDA r : r.v[c] = Null)) = (CHOOSE iter : Sums(iter))[Columns]
  BY DEF Total, MapThenSumSet, MapThenFoldSet
<1>2. \A iter : Sums(iter) <=> Fold(g, iter, Columns)
  <2> SUFFICES ASSUME NEW iter, NEW s \in SUBSET Columns PROVE Step(iter, s) = FoldStep(g, iter, s)
    BY DEF Fold
  <2>1. s # {} => (CHOOSE k \in s : TRUE) \in Columns
    OBVIOUS
  <2> QED BY <2>1 DEF FoldStep
<1>3. PICK m : Fold(g, m, Columns)
  BY FoldExists
<1> HIDE DEF g, Sums
<1>4. \A iter : (Sums(iter) <=> iter = m) /\ (Fold(g, iter, Columns) <=> iter = m)
  BY <1>2, <1>3, FoldUnique
<1>5. (CHOOSE iter : Sums(iter)) = m /\ (CHOOSE iter : Fold(g, iter, Columns)) = m
  BY <1>4
<1>6. Total(LAMBDA c : Quantify(table, LAMBDA r : r.v[c] = Null)) = SumOver(g, Columns)
  BY <1>1, <1>5 DEF SumOver
<1> QED BY <1>6 DEF g

LEMMA OutOfRangeTotal ==
    ASSUME NEW table, IsFiniteSet(Columns)
    PROVE  Total(LAMBDA c : OutOfRangeCount(table, c)) = SumOver([c \in Columns |-> OutOfRangeCount(table, c)], Columns)
<1> DEFINE g == [c \in Columns |-> OutOfRangeCount(table, c)]
           Count(c) == OutOfRangeCount(table, c)
           Step(iter, s) ==
               IF s = {} THEN 0
               ELSE Count(CHOOSE k \in s : TRUE) + iter[s \ {CHOOSE k \in s : TRUE}]
           Sums(iter) == iter = [s \in SUBSET Columns |-> Step(iter, s)]
<1>1. Total(LAMBDA c : OutOfRangeCount(table, c)) = (CHOOSE iter : Sums(iter))[Columns]
  BY DEF Total, MapThenSumSet, MapThenFoldSet
<1>2. \A iter : Sums(iter) <=> Fold(g, iter, Columns)
  <2> SUFFICES ASSUME NEW iter, NEW s \in SUBSET Columns PROVE Step(iter, s) = FoldStep(g, iter, s)
    BY DEF Fold
  <2>1. s # {} => (CHOOSE k \in s : TRUE) \in Columns
    OBVIOUS
  <2> QED BY <2>1 DEF FoldStep
<1>3. PICK m : Fold(g, m, Columns)
  BY FoldExists
<1> HIDE DEF g, Sums
<1>4. \A iter : (Sums(iter) <=> iter = m) /\ (Fold(g, iter, Columns) <=> iter = m)
  BY <1>2, <1>3, FoldUnique
<1>5. (CHOOSE iter : Sums(iter)) = m /\ (CHOOSE iter : Fold(g, iter, Columns)) = m
  BY <1>4
<1>6. Total(LAMBDA c : OutOfRangeCount(table, c)) = SumOver(g, Columns)
  BY <1>1, <1>5 DEF SumOver
<1> QED BY <1>6 DEF g

LEMMA TotalsAgree ==
    ASSUME NEW table, IsTable(table, Int \cup {Null, Bad})
    PROVE  Total(LAMBDA c : MissingOf(InRange(table))[c]) =
              Total(LAMBDA c : Quantify(table, LAMBDA r : r.v[c] = Null))
              + Total(LAMBDA c : MalformedOf(table)[c]) + OutOfRangeOf(table)
<1> DEFINE missing == MissingOf(InRange(table))
           nulls == [c \in Columns |-> Quantify(table, LAMBDA r : r.v[c] = Null)]
           bad == MalformedOf(table)
           out == [c \in Columns |-> OutOfRangeCount(NormalizeTable(table), c)]
           some == [c \in Columns |-> nulls[c] + bad[c]]
<1>1. \A c \in Columns : /\ nulls[c] \in Nat /\ bad[c] \in Nat /\ out[c] \in Nat
                         /\ missing[c] = nulls[c] + bad[c] + out[c]
  <2> SUFFICES ASSUME NEW c \in Columns
               PROVE  /\ nulls[c] \in Nat /\ bad[c] \in Nat /\ out[c] \in Nat
                      /\ missing[c] = nulls[c] + bad[c] + out[c]
    OBVIOUS
  <2> QED BY MissingExplained DEF MissingOf, MalformedOf
<1>2. IsFiniteSet(Columns)
  BY SchemaAssumption
<1>3. /\ Total(LAMBDA c : missing[c]) = SumOver([c \in Columns |-> missing[c]], Columns)
      /\ Total(LAMBDA c : bad[c]) = SumOver([c \in Columns |-> bad[c]], Columns)
  <2> HIDE DEF missing, bad
  <2> QED BY <1>2, EntriesTotal
<1>4. Total(LAMBDA c : Quantify(table, LAMBDA r : r.v[c] = Null)) = SumOver(nulls, Columns)
  BY <1>2, NullsTotal
<1>5. OutOfRangeOf(table) = SumOver(out, Columns)
  BY <1>2, OutOfRangeTotal DEF OutOfRangeOf
<1>6. missing = [c \in Columns |-> missing[c]] /\ bad = [c \in Columns |-> bad[c]]
  BY DEF MissingOf, MalformedOf
<1> HIDE DEF missing, nulls, bad, out
<1>7. SumOver(some, Columns) = SumOver(nulls, Columns) + SumOver(bad, Columns)
  <2>1. \A c \in Columns : nulls[c] \in Int /\ bad[c] \in Int /\ some[c] = nulls[c] + bad[c]
    BY <1>1
  <2> HIDE DEF some
  <2> QED BY <1>2, <2>1, SumAdds
<1>8. SumOver(missing, Columns) = SumOver(some, Columns) + SumOver(out, Columns)
  <2>1. \A c \in Columns : some[c] \in Int /\ out[c] \in Int /\ missing[c] = some[c] + out[c]
    BY <1>1
  <2> HIDE DEF some
  <2> QED BY <1>2, <2>1, SumAdds
<1> QED BY <1>3, <1>4, <1>5, <1>6, <1>7, <1>8 DEF missing, bad

(* The summary: rows are never made, and the windows span the times. *)
LEMMA KeptSmaller ==
    ASSUME NEW table, IsTable(table, Int \cup {Null, Bad}), config.freq \in Nat \ {0}
    PROVE  /\ Cardinality(table) >= Cardinality(Kept(table))
           /\ Cardinality(Kept(table)) >= Cardinality(Binned(table))
<1> DEFINE good == InRange(table)
           freq == config.freq
           strategy == config.strategy
<1>1. IsTable(good, Values)
  BY InRangeFacts
<1>2. Cardinality(good) = Cardinality(table)
  <2> DEFINE right == [r \in table |-> [k \in Columns |-> IF Usable(r, k) THEN r.v[k] ELSE Null]]
  <2>1. good = Rewritten(table, right)
    BY InRangeRow DEF Rewritten
  <2> HIDE DEF right, good
  <2> QED BY <2>1, RewrittenSize
<1> HIDE DEF good, freq, strategy
<1>3. /\ Timed(ApplyStrategy(good, strategy))
      /\ Cardinality(ApplyStrategy(good, strategy)) <= Cardinality(good)
  BY <1>1, StrategyFacts
<1>4. Kept(table) = ApplyStrategy(good, strategy)
  BY DEF Kept, good, strategy
<1>5. freq \in Nat \ {0} /\ Binned(table) = ResampleTable(Kept(table), freq)
  BY DEF Binned, freq
<1>6. /\ Cardinality(ResampleTable(Kept(table), freq)) <= Cardinality(Kept(table))
      /\ Timed(ResampleTable(Kept(table), freq))
  BY <1>3, <1>4, <1>5, ResampledFacts
<1>7. /\ IsFiniteSet(table) /\ IsFiniteSet(Kept(table)) /\ IsFiniteSet(Binned(table))
  BY <1>3, <1>4, <1>5, <1>6 DEF Timed, IsTable
<1>8. /\ Cardinality(table) \in Nat /\ Cardinality(Kept(table)) \in Nat
      /\ Cardinality(Binned(table)) \in Nat
  BY <1>7, FS_CardinalityType
<1> QED BY <1>2, <1>3, <1>4, <1>5, <1>6, <1>8

LEMMA OrderedEnds ==
    ASSUME NEW rows, Timed(rows), rows # {}
    PROVE  LET s == Ordered(rows)
           IN /\ Len(s) >= 1 /\ s[1] \in Times(rows) /\ s[Len(s)] \in Times(rows)
              /\ \A t \in Times(rows) : s[1] <= t /\ t <= s[Len(s)]
<1> DEFINE s == Ordered(rows)
<1>1. /\ Len(s) \in Nat /\ s \in Seq(Int)
      /\ \A i \in 1..Len(s) : s[i] \in Times(rows)
      /\ \A i, j \in 1..Len(s) : i < j => s[i] < s[j]
      /\ \A t \in Times(rows) : \E i \in 1..Len(s) : s[i] = t
  BY OrderedFacts
<1>2. Times(rows) # {}
  BY DEF Times
<1> HIDE DEF s
<1>3. Len(s) >= 1
  BY <1>1, <1>2
<1>4. 1 \in 1..Len(s) /\ Len(s) \in 1..Len(s)
  BY <1>1, <1>3
<1>5. ASSUME NEW t \in Times(rows) PROVE s[1] <= t /\ t <= s[Len(s)]
  <2>1. PICK i \in 1..Len(s) : s[i] = t
    BY <1>1
  <2>2. s[1] \in Int /\ s[i] \in Int /\ s[Len(s)] \in Int
    BY <1>1, <1>4, ElementOfSeq
  <2>3. i = 1 \/ 1 < i
    BY <1>1
  <2>4. i = Len(s) \/ i < Len(s)
    BY <1>1
  <2>5. s[1] <= s[i]
    BY <1>1, <1>4, <2>2, <2>3
  <2>6. s[i] <= s[Len(s)]
    <3>1. i < Len(s) => s[i] < s[Len(s)]
      BY <1>1, <1>4
    <3> QED BY <2>2, <2>4, <3>1
  <2> QED BY <2>1, <2>5, <2>6
<1> QED BY <1>1, <1>3, <1>4, <1>5 DEF s

LEMMA WindowsSpan ==
    ASSUME NEW table, Timed(table), NEW freq
    PROVE  LET results == ComputeMetrics(table, freq)
           IN /\ Cardinality(results) = Cardinality(Devices(table))
              /\ Cardinality(Devices(table)) \in Nat
              /\ table # {} =>
                   /\ Min({r.ts : r \in table}) = Min({m.window_start : m \in results})
                   /\ Max({r.ts : r \in table}) = Max({m.window_end : m \in results})
<1> DEFINE f == [d \in Devices(table) |-> MetricsOf(d, Of(d, table), freq)]
           results == ComputeMetrics(table, freq)
           T == {r.ts : r \in table}
           starts == {m.window_start : m \in results}
           ends == {m.window_end : m \in results}
           sorted(d) == Ordered(Of(d, table))
<1>1. results = {f[d] : d \in DOMAIN f} /\ DOMAIN f = Devices(table)
  BY DEF ComputeMetrics
<1>2. ASSUME NEW d \in Devices(table)
      PROVE  /\ f[d].device = d /\ f[d].window_start = sorted(d)[1]
             /\ f[d].window_end = sorted(d)[Len(sorted(d))]
  BY DEF MetricsOf
<1>3. IsFiniteSet(Devices(table)) /\ Cardinality(Devices(table)) \in Nat
  <2> DEFINE g == [r \in table |-> r.device]
  <2>1. Devices(table) = {g[r] : r \in DOMAIN g} /\ IsFiniteSet(DOMAIN g)
    BY DEF Devices, Timed, IsTable
  <2> HIDE DEF g
  <2> QED BY <2>1, ImageIsFinite, FS_CardinalityType
<1>4. Cardinality(results) = Cardinality(Devices(table))
  <2>1. \A d, e \in DOMAIN f : f[d] = f[e] => d = e
    BY <1>1, <1>2
  <2> HIDE DEF f, results
  <2> QED BY <1>1, <1>3, <2>1, ImageCounts
<1>5. T = Times(table) /\ IsFiniteSet(T) /\ T \in SUBSET Int
  BY TimesFinite DEF Times
<1>6. ASSUME NEW d \in Devices(table)
      PROVE  /\ sorted(d)[1] \in T /\ sorted(d)[Len(sorted(d))] \in T
             /\ \A r \in Of(d, table) : /\ sorted(d)[1] <= r.ts
                                        /\ r.ts <= sorted(d)[Len(sorted(d))]
  <2> DEFINE rows == Of(d, table)
  <2>1. rows # {} /\ rows \in SUBSET table
    BY DEF Of, Devices
  <2> HIDE DEF rows
  <2>2. Timed(rows)
    BY <2>1, PartOfTable DEF Timed
  <2>3. /\ Ordered(rows)[1] \in Times(rows) /\ Ordered(rows)[Len(Ordered(rows))] \in Times(rows)
        /\ \A t \in Times(rows) : /\ Ordered(rows)[1] <= t
                                  /\ t <= Ordered(rows)[Len(Ordered(rows))]
    BY <2>1, <2>2, OrderedEnds
  <2>4. Times(rows) \subseteq T /\ \A r \in rows : r.ts \in Times(rows)
    BY <2>1 DEF Times
  <2> QED BY <2>3, <2>4 DEF rows
<1> HIDE DEF sorted, f, results
<1>7. starts \in SUBSET T /\ ends \in SUBSET T
  BY <1>1, <1>2, <1>6
<1>8. ASSUME table # {} PROVE Min(T) \in starts /\ Max(T) \in ends
  <2>1. T # {}
    BY <1>8
  <2>2. Min(T) \in T /\ Max(T) \in T /\ \A t \in T : Min(T) <= t /\ t <= Max(T) /\ t \in Int
    <3> HIDE DEF T
    <3> QED BY <1>5, <2>1, GreatestExists, LeastExists
  <2>3. PICK a \in table : a.ts = Min(T)
    BY <2>2
  <2>4. PICK b \in table : b.ts = Max(T)
    BY <2>2
  <2>5. /\ a \in Of(a.device, table) /\ a.device \in Devices(table)
        /\ b \in Of(b.device, table) /\ b.device \in Devices(table)
    BY DEF Of, Devices
  <2> HIDE DEF T
  <2>6. sorted(a.device)[1] = Min(T)
    <3>1. sorted(a.device)[1] \in T /\ sorted(a.device)[1] <= Min(T)
      BY <1>6, <2>3, <2>5
    <3> QED BY <2>2, <3>1
  <2>7. sorted(b.device)[Len(sorted(b.device))] = Max(T)
    <3>1. /\ sorted(b.device)[Len(sorted(b.device))] \in T
          /\ Max(T) <= sorted(b.device)[Len(sorted(b.device))]
      BY <1>6, <2>4, <2>5
    <3> QED BY <2>2, <3>1
  <2>8. f[a.device] \in results /\ f[b.device] \in results
    BY <1>1, <2>5
  <2> QED BY <1>2, <2>5, <2>6, <2>7, <2>8
<1>9. ASSUME table # {} PROVE Min(T) = Min(starts) /\ Max(T) = Max(ends)
  <2> HIDE DEF T, starts, ends
  <2> QED BY <1>5, <1>7, <1>8, <1>9, ExtremesOfPart
<1> QED BY <1>3, <1>4, <1>9 DEF results

LEMMA ReportHolds == RunInv => ReportAddsUp
<1> SUFFICES ASSUME StageInv, ReportInv, Assessed PROVE ReportAddsUp
  BY DEF ReportAddsUp, RunInv
<1> DEFINE freq == config.freq
<1>1. stage \in FromClean /\ stage \in FromAssess /\ stage \in FromNullify /\ stage # "fetch"
  BY DEF Assessed, FromNullify, FromAssess, FromClean, FromResample, FromCompute
<1>2. /\ IsTable(raw, Int \cup {Null, Bad}) /\ quality = InRange(raw)
      /\ counts.validated = OutOfRangeOf(raw) /\ counts.nullified = OutOfRangeOf(raw)
      /\ findings.missing = MissingOf(InRange(raw)) /\ findings.malformed = MalformedOf(raw)
  BY <1>1, QualityIsTable DEF ReportInv
<1>3. Total(LAMBDA c : findings.missing[c]) =
              Total(LAMBDA c : Quantify(raw, LAMBDA r : r.v[c] = Null))
              + Total(LAMBDA c : findings.malformed[c]) + counts.nullified
  <2> DEFINE missing == MissingOf(InRange(raw))
             bad == MalformedOf(raw)
             nulls == Total(LAMBDA c : Quantify(raw, LAMBDA r : r.v[c] = Null))
  <2>1. /\ Total(LAMBDA c : missing[c]) = SumOver([c \in Columns |-> missing[c]], Columns)
        /\ Total(LAMBDA c : bad[c]) = SumOver([c \in Columns |-> bad[c]], Columns)
    <3> HIDE DEF missing, bad
    <3> QED BY SchemaAssumption, EntriesTotal
  <2>2. /\ Total(LAMBDA c : findings.missing[c])
             = SumOver([c \in Columns |-> findings.missing[c]], Columns)
        /\ Total(LAMBDA c : findings.malformed[c])
             = SumOver([c \in Columns |-> findings.malformed[c]], Columns)
    BY SchemaAssumption, EntriesTotal
  <2>3. Total(LAMBDA c : missing[c]) = nulls + Total(LAMBDA c : bad[c]) + OutOfRangeOf(raw)
    BY <1>2, TotalsAgree
  <2> HIDE DEF missing, bad, nulls
  <2>4. missing = findings.missing /\ bad = findings.malformed
    BY <1>2 DEF missing, bad
  <2>5. Total(LAMBDA c : findings.missing[c]) =
          nulls + Total(LAMBDA c : findings.malformed[c]) + counts.nullified
    BY <1>2, <2>1, <2>2, <2>3, <2>4
  <2> QED BY <2>5 DEF nulls
<1>4. ASSUME stage = "done"
      PROVE  /\ Summary.rows_read >= Summary.rows_after_cleaning
             /\ Summary.rows_after_cleaning >= Summary.rows_after_resampling
             /\ Summary.metrics_saved = MetricNames * Summary.devices_processed
             /\ Summary.time_range.start = Min({m.window_start : m \in metrics})
             /\ Summary.time_range.end = Max({m.window_end : m \in metrics})
  <2>1. /\ cleaned = Kept(raw) /\ resampled = Binned(raw)
        /\ metrics = ComputeMetrics(resampled, freq)
    BY <1>4 DEF StageInv, FromResample, FromCompute
  <2>2. Timed(resampled) /\ config.freq \in Nat \ {0}
    BY <1>1, <2>1, BinnedDevices
  <2>3. /\ Cardinality(raw) >= Cardinality(cleaned)
        /\ Cardinality(cleaned) >= Cardinality(resampled)
    BY <1>2, <2>1, <2>2, KeptSmaller
  <2> HIDE DEF freq
  <2>4. /\ Cardinality(metrics) = Cardinality(Devices(resampled))
        /\ resampled # {} =>
             /\ Min({r.ts : r \in resampled}) = Min({m.window_start : m \in metrics})
             /\ Max({r.ts : r \in resampled}) = Max({m.window_end : m \in metrics})
    BY <2>1, <2>2, WindowsSpan
  <2>5. resampled # {} \/ (resampled = {} /\ metrics = {})
    BY <2>1 DEF ComputeMetrics, Devices
  <2>6. resampled = {} => /\ {r.ts : r \in resampled} = {m.window_start : m \in metrics}
                          /\ {r.ts : r \in resampled} = {m.window_end : m \in metrics}
    BY <2>5
  <2> QED BY <2>3, <2>4, <2>5, <2>6 DEF Summary
<1> QED BY <1>2, <1>3, <1>4 DEF ReportAddsUp

(* The counts of a report agree with each other and with the readings. *)
THEOREM ReportsAddUp == PipelineSpec => []ReportAddsUp
BY RunsAsStaged, ReportHolds, PTL

-----------------------------------------------------------------------------
(* Cycles: but for the ends, every row has a row before it and is that of   *)
(* another one.                                                             *)
Single(rows) == Timed(rows) /\ \A r, q \in rows : r.ts = q.ts => r = q

LEMMA PreviousFacts ==
    ASSUME NEW rows, Single(rows), rows # {}
    PROVE  \E prev \in Bijection(rows \ {Earliest(rows)}, rows \ {Latest(rows)}) :
             /\ Previous(rows, Earliest(rows)) = {}
             /\ \A r \in rows \ {Earliest(rows)} : Previous(rows, r) = {prev[r]}
<1> DEFINE first == Earliest(rows)
           last == Latest(rows)
           Before(r) == {q \in rows : q.ts < r.ts}
           After(r) == {q \in rows : r.ts < q.ts}
           prev == [r \in rows \ {first} |-> Latest(Before(r))]
<1>1. Timed(rows) /\ \A r \in rows : r.ts \in Int
  BY DEF Single, Timed
<1>2. /\ first \in rows /\ last \in rows
      /\ \A r \in rows : first.ts <= r.ts /\ r.ts <= last.ts
  BY <1>1, Outermost
<1>3. \A r, q \in rows : r = q \/ r.ts < q.ts \/ q.ts < r.ts
  BY <1>1 DEF Single
<1> HIDE DEF first, last
<1>4. ASSUME NEW r \in rows, Before(r) # {}
      PROVE  /\ Latest(Before(r)) \in rows /\ Latest(Before(r)).ts < r.ts
             /\ \A q \in rows : q.ts < r.ts => q.ts <= Latest(Before(r)).ts
  <2> DEFINE K == Before(r)
  <2>1. K \in SUBSET rows
    OBVIOUS
  <2>2. \A q \in rows : q.ts < r.ts <=> q \in K
    OBVIOUS
  <2> HIDE DEF K
  <2>3. K # {}
    BY <1>4 DEF K
  <2>4. Latest(K) \in K /\ \A q \in K : q.ts <= Latest(K).ts
    BY <1>1, <2>1, <2>3, Outermost
  <2>5. /\ Latest(K) \in rows /\ Latest(K).ts < r.ts
        /\ \A q \in rows : q.ts < r.ts => q.ts <= Latest(K).ts
    BY <2>1, <2>2, <2>4
  <2> QED BY <2>5 DEF K
<1>5. ASSUME NEW r \in rows, After(r) # {}
      PROVE  /\ Earliest(After(r)) \in rows /\ r.ts < Earliest(After(r)).ts
             /\ \A q \in rows : r.ts < q.ts => Earliest(After(r)).ts <= q.ts
  <2> DEFINE K == After(r)
  <2>1. K \in SUBSET rows
    OBVIOUS
  <2>2. \A q \in rows : r.ts < q.ts <=> q \in K
    OBVIOUS
  <2> HIDE DEF K
  <2>3. K # {}
    BY <1>5 DEF K
  <2>4. Earliest(K) \in K /\ \A q \in K : Earliest(K).ts <= q.ts
    BY <1>1, <2>1, <2>3, Outermost
  <2>5. /\ Earliest(K) \in rows /\ r.ts < Earliest(K).ts
        /\ \A q \in rows : r.ts < q.ts => Earliest(K).ts <= q.ts
    BY <2>1, <2>2, <2>4
  <2> QED BY <2>5 DEF K
<1>6. \A r \in rows : r # first => Before(r) # {}
  <2> SUFFICES ASSUME NEW r \in rows, r # first PROVE first \in Before(r)
    OBVIOUS
  <2> QED BY <1>1, <1>2, <1>3
<1>7. \A r \in rows : r # last => After(r) # {}
  <2> SUFFICES ASSUME NEW r \in rows, r # last PROVE last \in After(r)
    OBVIOUS
  <2> QED BY <1>1, <1>2, <1>3
<1>8. \A r \in rows \ {first} :
         /\ prev[r] \in rows /\ prev[r].ts < r.ts
         /\ \A q \in rows : q.ts < r.ts => q.ts <= prev[r].ts
  BY <1>4, <1>6
<1> HIDE DEF prev
<1>9. \A r \in rows \ {first} : prev[r] # last
  <2> SUFFICES ASSUME NEW r \in rows \ {first}, prev[r] = last PROVE FALSE
    OBVIOUS
  <2>1. last.ts < r.ts /\ r.ts <= last.ts /\ last.ts \in Int /\ r.ts \in Int
    BY <1>1, <1>2, <1>8
  <2> QED BY <2>1
<1>10. \A r, q \in rows \ {first} : prev[r] = prev[q] => r = q
  <2> SUFFICES ASSUME NEW r \in rows \ {first}, NEW q \in rows \ {first},
                      prev[r] = prev[q], r.ts < q.ts
               PROVE  FALSE
    BY <1>3
  <2>1. r.ts <= prev[q].ts /\ prev[r].ts < r.ts /\ r.ts \in Int /\ prev[r].ts \in Int
    BY <1>1, <1>8
  <2> QED BY <2>1
<1>11. ASSUME NEW p \in rows \ {last} PROVE \E r \in rows \ {first} : prev[r] = p
  <2> DEFINE r == Earliest(After(p))
  <2>1. /\ r \in rows /\ p.ts < r.ts /\ \A q \in rows : p.ts < q.ts => r.ts <= q.ts
    BY <1>5, <1>7
  <2> HIDE DEF r
  <2>2. p.ts \in Int /\ r.ts \in Int /\ first.ts \in Int /\ first.ts <= p.ts
    BY <1>1, <1>2, <2>1
  <2>3. r # first
    BY <2>1, <2>2
  <2>4. prev[r] \in rows /\ prev[r].ts < r.ts /\ p.ts <= prev[r].ts /\ prev[r].ts \in Int
    BY <1>1, <1>8, <2>1, <2>3
  <2>5. ~(p.ts < prev[r].ts)
    BY <2>1, <2>2, <2>4
  <2>6. ~(prev[r].ts < p.ts)
    BY <2>2, <2>4
  <2>7. prev[r] = p
    BY <1>3, <2>4, <2>5, <2>6
  <2> QED BY <2>1, <2>3, <2>7
<1>12. prev \in Bijection(rows \ {first}, rows \ {last})
  <2>1. prev \in [rows \ {first} -> rows \ {last}]
    <3>1. DOMAIN prev = rows \ {first} /\ prev = [r \in rows \ {first} |-> prev[r]]
      BY DEF prev
    <3> QED BY <1>8, <1>9, <3>1
  <2> QED BY <1>10, <1>11, <2>1 DEF Bijection, Injection, Surjection, IsInjective
<1>13. Previous(rows, first) = {}
  <2> SUFFICES ASSUME NEW p \in rows, p.ts < first.ts PROVE FALSE
    BY DEF Previous
  <2> QED BY <1>1, <1>2
<1>14. ASSUME NEW r \in rows \ {first} PROVE Previous(rows, r) = {prev[r]}
  <2>1. prev[r] \in Previous(rows, r)
    BY <1>8 DEF Previous
  <2>2. ASSUME NEW p \in Previous(rows, r) PROVE p = prev[r]
    <3>1. /\ p \in rows /\ p.ts < r.ts /\ prev[r] \in rows /\ prev[r].ts < r.ts
          /\ prev[r].ts <= p.ts /\ p.ts <= prev[r].ts
      BY <1>8 DEF Previous
    <3> QED BY <1>1, <3>1 DEF Single
  <2> QED BY <2>1, <2>2
<1> QED BY <1>12, <1>13, <1>14 DEF first, last

LEMMA StartsAndStops ==
    ASSUME NEW rows, Single(rows), rows # {}, NEW on \in SUBSET rows
    PROVE  LET starts == {r \in rows : r \in on /\ \E p \in Previous(rows, r) : p \notin on}
               changes == {r \in rows : \E p \in Previous(rows, r) : (p \in on) # (r \in on)}
           IN 2 * Cardinality(starts) =
                Cardinality(changes) + Cardinality(on \cap {Latest(rows)})
                - Cardinality(on \cap {Earliest(rows)})
<1> DEFINE first == Earliest(rows)
           last == Latest(rows)
           starts == {r \in rows : r \in on /\ \E p \in Previous(rows, r) : p \notin on}
           changes == {r \in rows : \E p \in Previous(rows, r) : (p \in on) # (r \in on)}
           stops == {r \in rows : r \notin on /\ \E p \in Previous(rows, r) : p \in on}
           both == {r \in rows : r \in on /\ \E p \in Previous(rows, r) : p \in on}
<1>1. PICK prev \in Bijection(rows \ {first}, rows \ {last}) :
         /\ Previous(rows, first) = {}
         /\ \A r \in rows \ {first} : Previous(rows, r) = {prev[r]}
  BY PreviousFacts
<1>2. first \in rows /\ last \in rows
  BY Outermost DEF Single
<1> HIDE DEF first, last
<1>3. \A r \in rows : r = first \/ Previous(rows, r) = {prev[r]}
  BY <1>1
<1>4. /\ prev \in [rows \ {first} -> rows \ {last}]
      /\ \A r, q \in rows \ {first} : prev[r] = prev[q] => r = q
      /\ \A p \in rows \ {last} : \E r \in rows \ {first} : prev[r] = p
  BY <1>1 DEF Bijection, Injection, Surjection, IsInjective
<1>5. IsFiniteSet(rows)
  BY DEF Single, Timed, IsTable
<1>6. /\ IsFiniteSet(starts) /\ IsFiniteSet(stops) /\ IsFiniteSet(both)
  BY <1>5, FS_Subset
<1>7. /\ IsFiniteSet(on \cap {first}) /\ IsFiniteSet(on \cap {last}) /\ IsFiniteSet(on)
      /\ IsFiniteSet(on \ {first}) /\ IsFiniteSet(on \ {last})
  BY <1>5, FS_Subset
<1>8. Cardinality(changes) = Cardinality(starts) + Cardinality(stops)
  <2>1. changes = starts \cup stops /\ starts \cap stops = {}
    BY <1>1, <1>3
  <2> HIDE DEF changes, starts, stops
  <2> QED BY <1>6, <2>1, DisjointSizes
<1>9. Cardinality(on \ {first}) = Cardinality(starts) + Cardinality(both)
  <2>1. on \ {first} = starts \cup both /\ starts \cap both = {}
    BY <1>1, <1>3
  <2> HIDE DEF starts, both
  <2> QED BY <1>6, <2>1, DisjointSizes
<1>10. Cardinality(on \ {last}) = Cardinality(stops) + Cardinality(both)
  <2> DEFINE g == [r \in stops \cup both |-> prev[r]]
  <2>1. \A r \in rows : r \in stops \cup both <=> r # first /\ prev[r] \in on
    BY <1>1, <1>3
  <2>2. \A r, q \in DOMAIN g : g[r] = g[q] => r = q
    <3>1. \A r \in DOMAIN g : r \in rows \ {first} /\ g[r] = prev[r]
      BY <2>1
    <3> HIDE DEF g
    <3> QED BY <1>4, <3>1
  <2>3. {g[r] : r \in DOMAIN g} = on \ {last}
    <3>1. \A r \in DOMAIN g : r \in rows \ {first} /\ g[r] = prev[r] /\ prev[r] \in on
      BY <2>1
    <3>2. \A p \in on \ {last} : \E r \in DOMAIN g : g[r] = p
      <4> SUFFICES ASSUME NEW p \in on \ {last} PROVE \E r \in DOMAIN g : g[r] = p
        OBVIOUS
      <4>1. PICK r \in rows \ {first} : prev[r] = p
        BY <1>4
      <4>2. r \in stops \cup both
        BY <2>1, <4>1
      <4> QED BY <4>1, <4>2
    <3> HIDE DEF g
    <3> QED BY <1>4, <3>1, <3>2
  <2>4. DOMAIN g = stops \cup both /\ stops \cap both = {}
    OBVIOUS
  <2> HIDE DEF g, stops, both
  <2>5. /\ IsFiniteSet(stops \cup both)
        /\ Cardinality(stops \cup both) = Cardinality(stops) + Cardinality(both)
    BY <1>6, <2>4, DisjointSizes
  <2> QED BY <2>2, <2>3, <2>4, <2>5, ImageCounts
<1>11. \A x \in {first, last} :
          Cardinality(on) = Cardinality(on \ {x}) + Cardinality(on \cap {x})
  <2> SUFFICES ASSUME NEW x \in {first, last}
               PROVE  Cardinality(on) = Cardinality(on \ {x}) + Cardinality(on \cap {x})
    OBVIOUS
  <2> DEFINE A == on \ {x}
             B == on \cap {x}
  <2>1. IsFiniteSet(A) /\ IsFiniteSet(B) /\ A \cap B = {} /\ on = A \cup B
    BY <1>7
  <2> HIDE DEF A, B
  <2>2. Cardinality(on) = Cardinality(A) + Cardinality(B)
    BY <2>1, DisjointSizes
  <2> QED BY <2>2 DEF A, B
<1> HIDE DEF starts, changes, stops, both
<1>12. /\ Cardinality(starts) \in Nat /\ Cardinality(stops) \in Nat /\ Cardinality(both) \in Nat
       /\ Cardinality(on \cap {first}) \in Nat /\ Cardinality(on \cap {last}) \in Nat
       /\ Cardinality(on) \in Nat
  BY <1>6, <1>7, FS_CardinalityType
<1>13. /\ Cardinality(on) = Cardinality(on \ {first}) + Cardinality(on \cap {first})
       /\ Cardinality(on) = Cardinality(on \ {last}) + Cardinality(on \cap {last})
  BY <1>11
<1>14. 2 * Cardinality(starts) =
         Cardinality(changes) + Cardinality(on \cap {last}) - Cardinality(on \cap {first})
  BY <1>8, <1>9, <1>10, <1>12, <1>13
<1> QED BY <1>14 DEF first, last, starts, changes

LEMMA CyclesCounted == RunInv => CyclesAreStarts
<1> SUFFICES ASSUME StageInv, NEW m \in metrics
             PROVE  LET rows == Of(m.device, resampled)
                        On(r) == r \in Active(rows)
                        changes == Quantify(rows, LAMBDA r :
                                       \E p \in Previous(rows, r) : On(p) # On(r))
                        Ends(ts) == Quantify(rows, LAMBDA r : r.ts = ts /\ On(r))
                    IN 2 * m.cycle_count = changes + Ends(m.window_end) - Ends(m.window_start)
  BY DEF CyclesAreStarts, RunInv
<1> DEFINE rows == Of(m.device, resampled)
           on == Active(rows)
           s == Ordered(rows)
<1>1. m = MetricsOf(m.device, rows, config.freq) /\ Timed(rows) /\ rows # {}
  BY MeasuredRows
<1>2. Single(rows)
  <2>1. \A r, q \in rows : r.ts = q.ts => r = q
    BY <1>1 DEF Timed, IsTable, Of
  <2> QED BY <1>1, <2>1 DEF Single
<1> HIDE DEF rows
<1>3. on \in SUBSET rows
  BY DEF Active
<1>4. m.cycle_count = CycleCount(rows) /\ m.window_start = s[1] /\ m.window_end = s[Len(s)]
  BY <1>1 DEF MetricsOf
<1>5. Earliest(rows).ts = s[1] /\ Latest(rows).ts = s[Len(s)]
  <2>1. /\ s[1] \in Times(rows) /\ s[Len(s)] \in Times(rows)
        /\ \A t \in Times(rows) : s[1] <= t /\ t <= s[Len(s)]
    BY <1>1, OrderedEnds
  <2>2. /\ Latest(rows) \in rows /\ \A q \in rows : q.ts <= Latest(rows).ts
        /\ Earliest(rows) \in rows /\ \A q \in rows : Earliest(rows).ts <= q.ts
    BY <1>1, Outermost
  <2>3. Times(rows) \in SUBSET Int
    BY <1>1, TimesFinite
  <2> HIDE DEF s
  <2>4. /\ Latest(rows).ts \in Times(rows) /\ Earliest(rows).ts \in Times(rows)
        /\ \A t \in Times(rows) : t <= Latest(rows).ts /\ Earliest(rows).ts <= t
    BY <2>2 DEF Times
  <2>5. /\ Latest(rows).ts \in Int /\ Earliest(rows).ts \in Int
        /\ s[1] \in Int /\ s[Len(s)] \in Int
    BY <2>1, <2>3, <2>4
  <2> QED BY <2>1, <2>4, <2>5
<1>6. Earliest(rows) \in rows /\ Latest(rows) \in rows
  BY <1>1, Outermost
<1>7. /\ {r \in rows : r.ts = s[Len(s)] /\ r \in on} = on \cap {Latest(rows)}
      /\ {r \in rows : r.ts = s[1] /\ r \in on} = on \cap {Earliest(rows)}
  <2> HIDE DEF on, s
  <2> QED BY <1>2, <1>3, <1>5, <1>6 DEF Single
<1>8. CycleCount(rows) =
        Cardinality({r \in rows : r \in on /\ \E p \in Previous(rows, r) : p \notin on})
  BY DEF CycleCount, Quantify
<1> HIDE DEF on, s
<1>9. 2 * Cardinality({r \in rows : r \in on /\ \E p \in Previous(rows, r) : p \notin on})
        = Cardinality({r \in rows : \E p \in Previous(rows, r) : (p \in on) # (r \in on)})
          + Cardinality(on \cap {Latest(rows)}) - Cardinality(on \cap {Earliest(rows)})
  BY <1>2, <1>1, <1>3, StartsAndStops
<1>10. 2 * m.cycle_count =
         Quantify(rows, LAMBDA r : \E p \in Previous(rows, r) : (p \in on) # (r \in on))
         + Quantify(rows, LAMBDA r : r.ts = m.window_end /\ r \in on)
         - Quantify(rows, LAMBDA r : r.ts = m.window_start /\ r \in on)
  BY <1>4, <1>7, <1>8, <1>9 DEF Quantify
<1> QED BY <1>10 DEF rows, on

(* cycle_count counts the starts seen in the window. *)
THEOREM CyclesAreCounted == PipelineSpec => []CyclesAreStarts
BY RunsAsStaged, CyclesCounted, PTL

-----------------------------------------------------------------------------
(* The expected interval is one of the differences: the most common one     *)
(* exists, and the shortest of the most common.                             *)
Increasing(s) == \A i, j \in 1..Len(s) : i < j => s[i] < s[j]

LEMMA StepFacts ==
    ASSUME NEW s \in Seq(Int), Increasing(s), NEW i \in 2..Len(s)
    PROVE  /\ i \in 1..Len(s) /\ i - 1 \in 1..Len(s) /\ s[i] \in Int /\ s[i - 1] \in Int
           /\ s[i] - s[i - 1] \in Int /\ s[i] - s[i - 1] > 0
<1>1. Len(s) \in Nat /\ i \in 1..Len(s) /\ i - 1 \in 1..Len(s)
  OBVIOUS
<1>2. s[i] \in Int /\ s[i - 1] \in Int
  BY <1>1, ElementOfSeq
<1>3. s[i - 1] < s[i]
  BY <1>1 DEF Increasing
<1> QED BY <1>1, <1>2, <1>3

LEMMA DifferencesFacts ==
    ASSUME NEW s \in Seq(Int), Increasing(s)
    PROVE  /\ IsFiniteSet(Differences(s)) /\ Differences(s) \in SUBSET Int
           /\ \A d \in Differences(s) : d > 0
           /\ Len(s) >= 2 => Differences(s) # {}
           /\ \A d : TimesSeen(s, d) \in Nat
<1> DEFINE g == [i \in 2..Len(s) |-> s[i] - s[i - 1]]
<1>1. Len(s) \in Nat /\ IsFiniteSet(2..Len(s))
  BY FS_Interval
<1>2. Differences(s) = {g[i] : i \in DOMAIN g} /\ DOMAIN g = 2..Len(s)
  BY DEF Differences
<1>3. \A i \in 2..Len(s) : s[i] - s[i - 1] \in Int /\ s[i] - s[i - 1] > 0
  BY StepFacts
<1>4. \A d : TimesSeen(s, d) \in Nat
  <2> SUFFICES ASSUME NEW d PROVE TimesSeen(s, d) \in Nat
    OBVIOUS
  <2>1. IsFiniteSet({i \in 2..Len(s) : s[i] - s[i - 1] = d})
    BY <1>1, FS_Subset
  <2> QED BY <2>1, FS_CardinalityType DEF TimesSeen
<1>5. Len(s) >= 2 => 2 \in 2..Len(s)
  BY <1>1
<1>6. IsFiniteSet(Differences(s))
  <2> HIDE DEF g
  <2> QED BY <1>1, <1>2, ImageIsFinite
<1> QED BY <1>3, <1>4, <1>5, <1>6 DEF Differences

LEMMA ExpectedFacts ==
    ASSUME NEW s \in Seq(Int), Increasing(s), Len(s) >= 2
    PROVE  ExpectedInterval(s) \in Differences(s) /\ ExpectedInterval(s) \in Nat \ {0}
<1> DEFINE D == Differences(s)
           g == [d \in D |-> TimesSeen(s, d)]
           seen == {g[d] : d \in DOMAIN g}
           common == {d \in D : TimesSeen(s, d) = Max(seen)}
           Best(d) == \A e \in D : \/ TimesSeen(s, d) > TimesSeen(s, e)
                                   \/ TimesSeen(s, d) = TimesSeen(s, e) /\ d <= e
<1>1. /\ IsFiniteSet(D) /\ D \in SUBSET Int /\ D # {} /\ \A d \in D : d > 0 /\ d \in Int
      /\ \A d : TimesSeen(s, d) \in Nat
  BY DifferencesFacts
<1>2. Max(seen) \in seen /\ \A y \in seen : y <= Max(seen)
  <2>1. seen \in SUBSET Int /\ seen # {} /\ DOMAIN g = D
    BY <1>1
  <2> HIDE DEF g, D
  <2>2. IsFiniteSet(seen)
    BY <1>1, <2>1, ImageIsFinite
  <2> HIDE DEF seen
  <2> QED BY <2>1, <2>2, GreatestExists
<1>3. (\A d \in D : TimesSeen(s, d) <= Max(seen)) /\ common # {}
  <2> DEFINE top == Max(seen)
  <2>1. \A d \in D : TimesSeen(s, d) \in seen
    OBVIOUS
  <2>2. \E d \in D : TimesSeen(s, d) = top
    <3>1. top \in seen
      BY <1>2
    <3> HIDE DEF top
    <3> QED BY <3>1
  <2> QED BY <1>2, <2>1, <2>2
<1> HIDE DEF seen, D
<1>4. Min(common) \in common /\ \A y \in common : Min(common) <= y
  <2>1. common \in SUBSET Int /\ IsFiniteSet(common)
    BY <1>1, FS_Subset
  <2> HIDE DEF common
  <2> QED BY <1>3, <2>1, LeastExists
<1>5. Best(Min(common))
  <2> DEFINE d == Min(common)
  <2>1. d \in D /\ TimesSeen(s, d) = Max(seen)
    BY <1>4
  <2>2. \A e \in D : TimesSeen(s, e) = Max(seen) => d <= e
    BY <1>4
  <2> HIDE DEF d, common
  <2>3. \A e \in D : TimesSeen(s, e) \in Nat /\ TimesSeen(s, d) \in Nat
    BY <1>1
  <2>4. Best(d)
    BY <1>3, <2>1, <2>2, <2>3
  <2> QED BY <2>4 DEF d
<1>6. Min(common) \in D
  BY <1>4
<1> HIDE DEF Best, common
<1>7. (CHOOSE d \in D : Best(d)) \in D
  BY <1>5, <1>6
<1>8. ExpectedInterval(s) = CHOOSE d \in D : Best(d)
  BY DEF ExpectedInterval, Best, D
<1>9. \A d \in D : d \in Nat \ {0}
  BY <1>1
<1> QED BY <1>7, <1>8, <1>9 DEF D

(* On a grid, every step is the expected one and as many more as it skips. *)
LEMMA GridStep ==
    ASSUME NEW e \in Nat \ {0}, NEW diff \in Int, diff > 0, diff % e = 0
    PROVE  /\ diff >= e
           /\ diff > e => /\ MissingIntervals(diff, e) \in Nat
                          /\ (1 + MissingIntervals(diff, e)) * e = diff
<1> DEFINE k == diff \div e
<1>1. e \in Int /\ e > 0
  OBVIOUS
<1>2. k \in Int /\ diff = e * k + (diff % e)
  BY <1>1, SMTT(60)
<1>3. diff = e * k
  BY <1>2
<1> HIDE DEF k
<1>4. k >= 1
  BY <1>1, <1>2, <1>3, SMTT(60)
<1>5. diff >= e
  BY <1>1, <1>2, <1>3, <1>4, SMTT(60)
<1>6. ASSUME diff > e
      PROVE  MissingIntervals(diff, e) \in Nat /\ (1 + MissingIntervals(diff, e)) * e = diff
  <2>1. k >= 2
    <3>1. k # 1
      BY <1>1, <1>3, <1>6
    <3> QED BY <1>2, <1>4, <3>1
  <2>2. RoundedQuotient(diff, e) = k
    BY <1>1, <1>2 DEF RoundedQuotient, k
  <2>3. MissingIntervals(diff, e) = Max({k - 1, 1})
    BY <2>2 DEF MissingIntervals
  <2>4. k - 1 \in Int /\ 1 \in Int /\ k - 1 >= 1
    BY <1>2, <2>1
  <2>5. Max({k - 1, 1}) = k - 1
    BY <2>4, OfTwo
  <2>6. (1 + (k - 1)) * e = diff
    BY <1>1, <1>2, <1>3
  <2> QED BY <2>3, <2>4, <2>5, <2>6
<1> QED BY <1>5, <1>6

(* The positions of the gaps, and how many readings each is short of. *)
Wide(s, e) == {i \in 2..Len(s) : s[i] - s[i - 1] > e}
Short(s, e) == [i \in 2..Len(s) |-> MissingIntervals(s[i] - s[i - 1], e)]
Stepwise(s, e) ==
    \A i \in 2..Len(s) :
        IF i \in Wide(s, e)
        THEN Short(s, e)[i] \in Int /\ (1 + Short(s, e)[i]) * e = s[i] - s[i - 1]
        ELSE s[i] - s[i - 1] = e

LEMMA GridSteps ==
    ASSUME NEW s \in Seq(Int), Increasing(s), NEW e \in Nat \ {0},
           \A diff \in Differences(s) : diff % e = 0
    PROVE  Stepwise(s, e)
<1> SUFFICES ASSUME NEW i \in 2..Len(s)
             PROVE  IF i \in Wide(s, e)
                    THEN Short(s, e)[i] \in Int /\ (1 + Short(s, e)[i]) * e = s[i] - s[i - 1]
                    ELSE s[i] - s[i - 1] = e
  BY DEF Stepwise
<1> DEFINE diff == s[i] - s[i - 1]
<1>1. diff \in Differences(s) /\ diff \in Int /\ diff > 0
  BY StepFacts DEF Differences
<1>2. diff % e = 0
  BY <1>1
<1>3. Short(s, e)[i] = MissingIntervals(diff, e) /\ (i \in Wide(s, e) <=> diff > e)
  BY DEF Short, Wide
<1> HIDE DEF diff
<1>4. /\ diff >= e
      /\ diff > e => MissingIntervals(diff, e) \in Nat /\ (1 + MissingIntervals(diff, e)) * e = diff
  BY <1>1, <1>2, GridStep
<1>5. ~(diff > e) => diff = e
  BY <1>1, <1>4
<1> QED BY <1>3, <1>4, <1>5 DEF diff

LEMMA OneMoreStep ==
    ASSUME NEW a \in Int, NEW b \in Int, NEW e \in Int PROVE (a + b) * e = a * e + b * e
OBVIOUS

(* The sum over the gaps up to a position. *)
ShortUpTo(s, e, k) == SumOver(Short(s, e), {i \in Wide(s, e) : i <= k})

LEMMA ShortSteps ==
    ASSUME NEW s \in Seq(Int), NEW e \in Nat \ {0}, Stepwise(s, e), NEW k \in 2..Len(s)
    PROVE  /\ ShortUpTo(s, e, k - 1) \in Int /\ ShortUpTo(s, e, 1) = 0
           /\ ShortUpTo(s, e, k) = IF k \in Wide(s, e)
                                   THEN Short(s, e)[k] + ShortUpTo(s, e, k - 1)
                                   ELSE ShortUpTo(s, e, k - 1)
<1> DEFINE g == Short(s, e)
           S == Wide(s, e)
           W(j) == {i \in S : i <= j}
<1>1. Len(s) \in Nat /\ S \in SUBSET (2..Len(s))
  BY DEF Wide
<1>2. \A i \in S : g[i] \in Int /\ i \in Int
  BY <1>1 DEF Stepwise
<1>3. IsFiniteSet(S)
  <2>1. IsFiniteSet(2..Len(s))
    BY <1>1, FS_Interval
  <2> HIDE DEF S
  <2> QED BY <1>1, <2>1, FS_Subset
<1>4. /\ W(1) = {} /\ W(k) \in SUBSET S /\ W(k - 1) \in SUBSET S
      /\ k \notin S => W(k) = W(k - 1)
      /\ k \in S => k \in W(k) /\ W(k) \ {k} = W(k - 1)
  <2> HIDE DEF S
  <2>1. k \in Int /\ \A i \in S : i \in Int /\ i >= 2
    BY <1>1
  <2>2. \A i \in S : (i <= k /\ i # k) <=> i <= k - 1
    BY <2>1
  <2> QED BY <2>1, <2>2
<1>5. /\ ShortUpTo(s, e, k) = SumOver(g, W(k)) /\ ShortUpTo(s, e, 1) = SumOver(g, W(1))
      /\ ShortUpTo(s, e, k - 1) = SumOver(g, W(k - 1))
  BY DEF ShortUpTo
<1> HIDE DEF g, S, W
<1>6. /\ SumOver(g, {}) = 0 /\ \A w \in SUBSET S : SumOver(g, w) \in Int
      /\ \A w \in SUBSET S : \A i \in w : SumOver(g, w) = g[i] + SumOver(g, w \ {i})
  <2>1. \A i \in S : g[i] \in Int
    BY <1>2
  <2> QED BY <1>3, <2>1, SumFacts, SMTT(60)
<1>7. k \in S => SumOver(g, W(k)) = g[k] + SumOver(g, W(k - 1))
  BY <1>4, <1>6
<1> QED BY <1>4, <1>5, <1>6, <1>7 DEF g, S

LEMMA GridAddsUp ==
    ASSUME NEW s \in Seq(Int), Len(s) >= 2, NEW e \in Nat \ {0}, Stepwise(s, e)
    PROVE  (Len(s) - 1 + SumOver(Short(s, e), Wide(s, e))) * e = s[Len(s)] - s[1]
<1> DEFINE Sum(k) == ShortUpTo(s, e, k)
           Right(k) == (k - 1 + Sum(k)) * e = s[k] - s[1]
           wrong == {k \in 1..Len(s) : ~Right(k)}
<1>1. Len(s) \in Nat /\ 1 \in 1..Len(s) /\ e \in Int /\ \A k \in 1..Len(s) : s[k] \in Int
  BY ElementOfSeq
<1>2. Right(1)
  <2>1. Sum(1) = 0
    <3>1. 2 \in 2..Len(s)
      BY <1>1
    <3> QED BY <3>1, ShortSteps
  <2> HIDE DEF Sum
  <2> QED BY <1>1, <2>1
<1>3. ASSUME NEW k \in 2..Len(s), Right(k - 1) PROVE Right(k)
  <2> DEFINE past == s[k - 1] - s[1]
             step == s[k] - s[k - 1]
             before == Sum(k - 1)
             a == k - 2 + before
  <2>1. k \in Int /\ k - 1 \in 1..Len(s) /\ k \in 1..Len(s) /\ k - 1 - 1 = k - 2
    BY <1>1
  <2>2. s[1] \in Int /\ s[k - 1] \in Int /\ s[k] \in Int
    BY <1>1, <2>1
  <2>3. past \in Int /\ step \in Int /\ s[k] - s[1] = past + step
    BY <2>2, SMTT(30)
  <2>4. /\ before \in Int
        /\ Sum(k) = IF k \in Wide(s, e) THEN Short(s, e)[k] + before ELSE before
    BY ShortSteps
  <2>5. a \in Int /\ a * e = past
    <3> HIDE DEF Sum
    <3> QED BY <1>3, <2>1, <2>4
  <2> HIDE DEF Sum, past, before
  <2>6. CASE k \in Wide(s, e)
    <3> DEFINE b == 1 + Short(s, e)[k]
    <3>1. Short(s, e)[k] \in Int /\ b * e = step
      BY <2>6 DEF Stepwise
    <3>2. b \in Int /\ k - 1 + Sum(k) = a + b
      <4>1. Sum(k) = Short(s, e)[k] + before
        BY <2>4, <2>6
      <4>2. k \in Int /\ before \in Int /\ Short(s, e)[k] \in Int
        BY <2>1, <2>4, <3>1
      <4> QED BY <4>1, <4>2, SMTT(30)
    <3> HIDE DEF a, b, step
    <3>3. (a + b) * e = a * e + b * e
      BY <1>1, <2>5, <3>2, OneMoreStep
    <3> QED BY <2>3, <2>5, <3>1, <3>2, <3>3
  <2>7. CASE k \notin Wide(s, e)
    <3>1. step = e
      BY <2>7 DEF Stepwise
    <3>2. k - 1 + Sum(k) = a + 1
      BY <2>1, <2>4, <2>7
    <3> HIDE DEF a, step
    <3>3. (a + 1) * e = a * e + 1 * e
      BY <1>1, <2>5, OneMoreStep
    <3> QED BY <1>1, <2>3, <2>5, <3>1, <3>2, <3>3, SMTT(30)
  <2> QED BY <2>6, <2>7
<1> HIDE DEF Right
<1>4. wrong = {}
  <2> SUFFICES ASSUME wrong # {} PROVE FALSE
    OBVIOUS
  <2>1. wrong \in SUBSET Nat /\ \A k : k \in wrong <=> k \in 1..Len(s) /\ ~Right(k)
    OBVIOUS
  <2> HIDE DEF wrong
  <2>2. PICK k \in wrong : \A j \in wrong : k <= j
    BY <2>1, SmallestNumber
  <2>3. k \in 1..Len(s) /\ k # 1
    BY <1>2, <2>1, <2>2
  <2>4. k \in 2..Len(s) /\ k - 1 \in 1..Len(s) /\ ~(k <= k - 1)
    BY <1>1, <2>3
  <2>5. Right(k - 1)
    BY <2>1, <2>2, <2>4
  <2>6. Right(k)
    BY <1>3, <2>4, <2>5
  <2> QED BY <2>1, <2>2, <2>6
<1>5. Right(Len(s))
  <2>1. Len(s) \in 1..Len(s)
    BY <1>1
  <2> QED BY <1>4, <2>1
<1>6. {i \in Wide(s, e) : i <= Len(s)} = Wide(s, e)
  BY <1>1 DEF Wide
<1> QED BY <1>5, <1>6 DEF Right, ShortUpTo

LEMMA MissingSummed ==
    ASSUME NEW S, IsFiniteSet(S)
    PROVE  MapThenSumSet(LAMBDA x : x.missing, S) = SumOver([x \in S |-> x.missing], S)
<1> DEFINE g == [x \in S |-> x.missing]
           Value(x) == x.missing
           Step(iter, s) ==
               IF s = {} THEN 0
               ELSE Value(CHOOSE k \in s : TRUE) + iter[s \ {CHOOSE k \in s : TRUE}]
           Sums(iter) == iter = [s \in SUBSET S |-> Step(iter, s)]
<1>1. MapThenSumSet(LAMBDA x : x.missing, S) = (CHOOSE iter : Sums(iter))[S]
  BY DEF MapThenSumSet, MapThenFoldSet
<1>2. \A iter : Sums(iter) <=> Fold(g, iter, S)
  <2> SUFFICES ASSUME NEW iter, NEW s \in SUBSET S PROVE Step(iter, s) = FoldStep(g, iter, s)
    BY DEF Fold
  <2>1. s # {} => (CHOOSE k \in s : TRUE) \in S
    OBVIOUS
  <2> QED BY <2>1 DEF FoldStep
<1>3. PICK m : Fold(g, m, S)
  BY FoldExists
<1> HIDE DEF g, Sums
<1>4. \A iter : (Sums(iter) <=> iter = m) /\ (Fold(g, iter, S) <=> iter = m)
  BY <1>2, <1>3, FoldUnique
<1>5. (CHOOSE iter : Sums(iter)) = m /\ (CHOOSE iter : Fold(g, iter, S)) = m
  BY <1>4
<1>6. MapThenSumSet(LAMBDA x : x.missing, S) = SumOver(g, S)
  BY <1>1, <1>5 DEF SumOver
<1> QED BY <1>6 DEF g

LEMMA GapsExplain ==
    ASSUME NEW table, IsTable(table, Values), NEW d,
           LET s == Ordered(Of(d, Readable(table)))
               e == ExpectedInterval(s)
           IN Len(s) >= 2 /\ \A diff \in Differences(s) : diff % e = 0
    PROVE  LET s == Ordered(Of(d, Readable(table)))
               e == ExpectedInterval(s)
           IN (Len(s) - 1 + MapThenSumSet(LAMBDA g : g.missing, GapsOf(d, table))) * e
                = s[Len(s)] - s[1]
<1> DEFINE rows == Of(d, Readable(table))
           s == Ordered(rows)
           e == ExpectedInterval(s)
           gap(i) == [device |-> d, start |-> s[i - 1], end |-> s[i],
                      missing |-> MissingIntervals(s[i] - s[i - 1], e)]
           gaps == GapsOf(d, table)
           f == [i \in Wide(s, e) |-> gap(i)]
           h == [x \in gaps |-> x.missing]
<1>1. s \in Seq(Int) /\ Increasing(s)
  <2>1. Timed(rows)
    BY ReadableIsTimed
  <2> HIDE DEF rows
  <2> QED BY <2>1, OrderedFacts DEF Increasing
<1>2. Len(s) >= 2 /\ \A diff \in Differences(s) : diff % e = 0
  OBVIOUS
<1>3. gaps = {gap(i) : i \in Wide(s, e)}
  BY DEF GapsOf, Wide
<1> HIDE DEF rows, s, gaps
<1>4. e \in Nat \ {0}
  BY <1>1, <1>2, ExpectedFacts
<1> HIDE DEF e
<1>5. Stepwise(s, e)
  BY <1>1, <1>2, <1>4, GridSteps
<1>6. IsFiniteSet(Wide(s, e)) /\ Wide(s, e) \in SUBSET (2..Len(s))
  <2>1. Len(s) \in Nat /\ IsFiniteSet(2..Len(s))
    BY <1>1, FS_Interval
  <2>2. Wide(s, e) \in SUBSET (2..Len(s))
    BY DEF Wide
  <2> QED BY <2>1, <2>2, FS_Subset
<1>7. \A i, j \in Wide(s, e) : gap(i) = gap(j) => i = j
  <2> SUFFICES ASSUME NEW i \in Wide(s, e), NEW j \in Wide(s, e), gap(i) = gap(j) PROVE i = j
    OBVIOUS
  <2>1. s[i] = s[j]
    OBVIOUS
  <2>2. i \in 1..Len(s) /\ j \in 1..Len(s) /\ s[i] \in Int /\ s[j] \in Int
    <3>1. i \in 2..Len(s) /\ j \in 2..Len(s)
      BY <1>6
    <3> QED BY <1>1, <3>1, StepFacts
  <2>3. ~(s[i] < s[j]) /\ ~(s[j] < s[i])
    BY <2>1, <2>2
  <2>4. ~(i < j) /\ ~(j < i) /\ i \in Int /\ j \in Int
    BY <1>1, <2>2, <2>3 DEF Increasing
  <2> QED BY <2>4
<1>8. f \in Bijection(Wide(s, e), gaps)
  <2>1. \A i \in Wide(s, e) : f[i] = gap(i) /\ gap(i) \in gaps
    BY <1>3
  <2>2. f \in [Wide(s, e) -> gaps]
    BY <2>1
  <2> HIDE DEF gap, f
  <2>3. \A i, j \in Wide(s, e) : f[i] = f[j] => i = j
    BY <1>7, <2>1
  <2>4. \A g \in gaps : \E i \in Wide(s, e) : f[i] = g
    BY <1>3, <2>1
  <2> QED BY <2>2, <2>3, <2>4 DEF Bijection, Injection, Surjection, IsInjective
<1>9. ASSUME NEW i \in Wide(s, e) PROVE Short(s, e)[i] = h[f[i]] /\ Short(s, e)[i] \in Int
  <2>1. i \in 2..Len(s) /\ gap(i) \in gaps
    BY <1>3, <1>6
  <2>2. h[f[i]] = gap(i).missing
    BY <2>1
  <2>3. Short(s, e)[i] = MissingIntervals(s[i] - s[i - 1], e)
    BY <2>1 DEF Short
  <2>4. Short(s, e)[i] \in Int
    BY <1>5, <2>1 DEF Stepwise
  <2> QED BY <2>2, <2>3, <2>4
<1>10. IsFiniteSet(gaps)
  BY <1>6, <1>8, FS_Bijection DEF ExistsBijection
<1>11. MapThenSumSet(LAMBDA g : g.missing, gaps) = SumOver(h, gaps)
  BY <1>10, MissingSummed
<1> HIDE DEF f, h
<1>12. SumOver(Short(s, e), Wide(s, e)) = SumOver(h, gaps)
  BY <1>6, <1>8, <1>9, SumRenamed
<1>13. (Len(s) - 1 + SumOver(Short(s, e), Wide(s, e))) * e = s[Len(s)] - s[1]
  BY <1>1, <1>2, <1>4, <1>5, GridAddsUp
<1>14. (Len(s) - 1 + MapThenSumSet(LAMBDA g : g.missing, gaps)) * e = s[Len(s)] - s[1]
  BY <1>11, <1>12, <1>13
<1> QED BY <1>14 DEF e, s, rows, gaps

LEMMA GapsComplete == RunInv => GapsAccountForMissing
<1> SUFFICES ASSUME StageInv, ReportInv, stage = "clean", NEW d \in Devices(quality)
             PROVE  LET s == Ordered(Of(d, Readable(quality)))
                        expected == ExpectedInterval(s)
                        gaps == {g \in findings.gaps : g.device = d}
                    IN Len(s) >= 2 /\ (\A diff \in Differences(s) : diff % expected = 0) =>
                         (Len(s) - 1 + MapThenSumSet(LAMBDA g : g.missing, gaps)) * expected
                           = s[Len(s)] - s[1]
  BY DEF GapsAccountForMissing, RunInv
<1>1. IsTable(quality, Values) /\ findings.gaps = TimestampGaps(quality)
  BY QualityIsTable DEF ReportInv, FromAssess, FromClean
<1>2. {g \in findings.gaps : g.device = d} = GapsOf(d, quality)
  <2>1. \A e, table : \A g \in GapsOf(e, table) : g.device = e
    BY DEF GapsOf
  <2> QED BY <1>1, <2>1 DEF TimestampGaps
<1> QED BY <1>1, <1>2, GapsExplain

(* On a grid the gaps account for every reading that is not there. *)
THEOREM GapsAreComplete == PipelineSpec => []GapsAccountForMissing
BY RunsAsStaged, GapsComplete, PTL

-----------------------------------------------------------------------------
(* Flatlines: two positions are in one run when nothing changes and nothing *)
(* breaks between them.                                                     *)
Steady(s, value, e, k) == value[k] = value[k - 1] /\ ~(2 * (s[k] - s[k - 1]) > 3 * e)
Calm(s, value, e, i, j) == \A k \in (i + 1)..j : Steady(s, value, e, k)
RunOf(s, value, e, i) == {j \in DOMAIN s : RunId(s, value, j, e) = RunId(s, value, i, e)}

LEMMA SameRun ==
    ASSUME NEW s, NEW value, NEW e, NEW i \in Nat \ {0}, NEW j \in Nat, i <= j
    PROVE  RunId(s, value, i, e) = RunId(s, value, j, e) <=> Calm(s, value, e, i, j)
<1> DEFINE Changes(m) == {k \in 2..m : value[k] # value[k - 1]}
           Breaks(m) == {k \in 2..m : 2 * (s[k] - s[k - 1]) > 3 * e}
<1>1. \A k : k \in 2..j <=> k \in 2..i \/ k \in (i + 1)..j
  OBVIOUS
<1>2. Changes(i) \in SUBSET Changes(j) /\ Breaks(i) \in SUBSET Breaks(j)
  BY <1>1
<1>3. IsFiniteSet(Changes(j)) /\ IsFiniteSet(Breaks(j))
  <2>1. IsFiniteSet(2..j)
    BY FS_Interval
  <2> QED BY <2>1, FS_Subset
<1>4. /\ Changes(i) = Changes(j) <=> \A k \in (i + 1)..j : value[k] = value[k - 1]
      /\ Breaks(i) = Breaks(j) <=> \A k \in (i + 1)..j : ~(2 * (s[k] - s[k - 1]) > 3 * e)
  <2>1. \A k \in (i + 1)..j : k \in 2..j /\ k \notin 2..i
    OBVIOUS
  <2> QED BY <1>1, <2>1
<1>5. /\ RunId(s, value, i, e) = <<Cardinality(Changes(i)), Cardinality(Breaks(i))>>
      /\ RunId(s, value, j, e) = <<Cardinality(Changes(j)), Cardinality(Breaks(j))>>
  BY DEF RunId
<1> HIDE DEF Changes, Breaks
<1>6. /\ Cardinality(Changes(i)) = Cardinality(Changes(j)) <=> Changes(i) = Changes(j)
      /\ Cardinality(Breaks(i)) = Cardinality(Breaks(j)) <=> Breaks(i) = Breaks(j)
  BY <1>2, <1>3, FS_Subset
<1> QED BY <1>4, <1>5, <1>6 DEF Calm, Steady

LEMMA CalmParts ==
    ASSUME NEW s, NEW value, NEW e, NEW i \in Nat, NEW j \in Nat, Calm(s, value, e, i, j),
           NEW x \in i..j, NEW y \in i..j
    PROVE  Calm(s, value, e, x, y)
<1>1. \A k \in (x + 1)..y : k \in (i + 1)..j
  OBVIOUS
<1> QED BY <1>1 DEF Calm

LEMMA CalmIsConstant ==
    ASSUME NEW s, NEW value, NEW e, NEW i \in Nat, NEW j \in Nat, Calm(s, value, e, i, j),
           NEW x \in i..j
    PROVE  value[x] = value[i]
<1> DEFINE wrong == {k \in i..j : value[k] # value[i]}
<1>1. wrong = {}
  <2> SUFFICES ASSUME wrong # {} PROVE FALSE
    OBVIOUS
  <2>1. wrong \in SUBSET Nat /\ \A k : k \in wrong <=> k \in i..j /\ value[k] # value[i]
    OBVIOUS
  <2> HIDE DEF wrong
  <2>2. PICK k \in wrong : \A m \in wrong : k <= m
    BY <2>1, SmallestNumber
  <2>3. k \in i..j /\ k # i
    BY <2>1, <2>2
  <2>4. k \in (i + 1)..j /\ k - 1 \in i..j /\ ~(k <= k - 1)
    BY <2>3
  <2>5. value[k] = value[k - 1]
    BY <2>4 DEF Calm, Steady
  <2>6. value[k - 1] = value[i]
    BY <2>1, <2>2, <2>4
  <2> QED BY <2>1, <2>2, <2>5, <2>6
<1> QED BY <1>1

LEMMA RunBounds ==
    ASSUME NEW s \in Seq(Int), NEW value, NEW e, NEW i \in 1..Len(s)
    PROVE  LET a == Min(RunOf(s, value, e, i))
               b == Max(RunOf(s, value, e, i))
           IN /\ a \in 1..i /\ b \in i..Len(s) /\ Calm(s, value, e, a, b)
              /\ \A x \in 1..Len(s) : x <= i /\ Calm(s, value, e, x, i) => a <= x
              /\ \A y \in 1..Len(s) : i <= y /\ Calm(s, value, e, i, y) => y <= b
<1> DEFINE R == RunOf(s, value, e, i)
           a == Min(R)
           b == Max(R)
           id(k) == RunId(s, value, k, e)
<1>1. Len(s) \in Nat /\ DOMAIN s = 1..Len(s) /\ i \in Nat \ {0}
  OBVIOUS
<1>2. /\ \A k : k \in R <=> k \in 1..Len(s) /\ id(k) = id(i)
      /\ R \in SUBSET Int /\ i \in R
  BY <1>1 DEF RunOf
<1>3. IsFiniteSet(R)
  <2>1. IsFiniteSet(1..Len(s)) /\ R \in SUBSET (1..Len(s))
    BY <1>1, <1>2, FS_Interval
  <2> HIDE DEF R
  <2> QED BY <2>1, FS_Subset
<1> HIDE DEF R
<1>4. a \in R /\ b \in R /\ \A k \in R : a <= k /\ k <= b
  BY <1>2, <1>3, GreatestExists, LeastExists
<1>5. \A k \in R : k \in Nat \ {0} /\ k \in 1..Len(s)
  BY <1>1, <1>2
<1> HIDE DEF a, b
<1>6. a \in 1..i /\ b \in i..Len(s)
  BY <1>1, <1>2, <1>4, <1>5
<1>7. Calm(s, value, e, a, b)
  <2>1. id(a) = id(b) /\ a \in Nat \ {0} /\ b \in Nat /\ a <= b
    BY <1>2, <1>4, <1>5
  <2> QED BY <2>1, SameRun
<1>8. ASSUME NEW x \in 1..Len(s), x <= i, Calm(s, value, e, x, i) PROVE a <= x
  <2>1. id(x) = id(i)
    <3>1. x \in Nat \ {0} /\ i \in Nat
      BY <1>1
    <3> QED BY <1>8, <3>1, SameRun
  <2> QED BY <1>2, <1>4, <2>1
<1>9. ASSUME NEW y \in 1..Len(s), i <= y, Calm(s, value, e, i, y) PROVE y <= b
  <2>1. id(i) = id(y)
    <3>1. y \in Nat /\ i \in Nat \ {0}
      BY <1>1
    <3> QED BY <1>9, <3>1, SameRun
  <2> QED BY <1>2, <1>4, <2>1
<1> QED BY <1>6, <1>7, <1>8, <1>9 DEF a, b, R

(* Two times of a set with none of it between them.                         *)
Adjacent(T, t, u) == t \in T /\ u \in T /\ t < u /\ \A x \in T : ~(t < x /\ x < u)

LEMMA AdjacentTimes ==
    ASSUME NEW rows, Timed(rows)
    PROVE  LET s == Ordered(rows)
           IN /\ \A k \in 2..Len(s) : Adjacent(Times(rows), s[k - 1], s[k])
              /\ \A t, u : Adjacent(Times(rows), t, u) =>
                    \E k \in 2..Len(s) : s[k - 1] = t /\ s[k] = u
<1> DEFINE s == Ordered(rows)
           T == Times(rows)
<1>1. /\ s \in Seq(Int) /\ Len(s) \in Nat /\ \A i \in 1..Len(s) : s[i] \in T
      /\ \A i, j \in 1..Len(s) : i < j => s[i] < s[j]
      /\ \A t \in T : \E i \in 1..Len(s) : s[i] = t
  BY OrderedFacts
<1> HIDE DEF s, T
<1>2. \A i \in 1..Len(s) : s[i] \in Int
  BY <1>1, ElementOfSeq
<1>3. \A i, j \in 1..Len(s) : s[i] < s[j] => i < j
  <2> SUFFICES ASSUME NEW i \in 1..Len(s), NEW j \in 1..Len(s), s[i] < s[j] PROVE i < j
    OBVIOUS
  <2>1. i = j \/ j < i \/ i < j
    BY <1>1
  <2> QED BY <1>1, <1>2, <2>1
<1>4. ASSUME NEW k \in 2..Len(s) PROVE Adjacent(T, s[k - 1], s[k])
  <2>1. k \in 1..Len(s) /\ k - 1 \in 1..Len(s) /\ k - 1 < k
    BY <1>1
  <2>2. ASSUME NEW x \in T, s[k - 1] < x, x < s[k] PROVE FALSE
    <3>1. PICK m \in 1..Len(s) : s[m] = x
      BY <1>1
    <3>2. k - 1 < m /\ m < k
      BY <1>3, <2>1, <2>2, <3>1
    <3> QED BY <1>1, <3>2
  <2> QED BY <1>1, <2>1, <2>2 DEF Adjacent
<1>5. ASSUME NEW t, NEW u, Adjacent(T, t, u)
      PROVE  \E k \in 2..Len(s) : s[k - 1] = t /\ s[k] = u
  <2>1. PICK i \in 1..Len(s) : s[i] = t
    BY <1>1, <1>5 DEF Adjacent
  <2>2. PICK k \in 1..Len(s) : s[k] = u
    BY <1>1, <1>5 DEF Adjacent
  <2>3. i < k
    BY <1>3, <1>5, <2>1, <2>2 DEF Adjacent
  <2>4. k \in 2..Len(s) /\ k - 1 \in 1..Len(s) /\ k - 1 < k
    BY <1>1, <2>3
  <2>5. ~(i < k - 1)
    <3> SUFFICES ASSUME i < k - 1 PROVE FALSE
      OBVIOUS
    <3>1. s[i] < s[k - 1] /\ s[k - 1] < s[k] /\ s[k - 1] \in T
      BY <1>1, <2>4
    <3> QED BY <1>5, <2>1, <2>2, <3>1 DEF Adjacent
  <2>6. i = k - 1
    BY <1>1, <2>3, <2>5
  <2> QED BY <2>1, <2>2, <2>4, <2>6
<1> QED BY <1>4, <1>5 DEF s, T

(* The rows between two of the times step as the whole does there.          *)
Between(rows, from, to) == {r \in rows : from <= r.ts /\ r.ts <= to}

LEMMA StepsBetween ==
    ASSUME NEW rows, Timed(rows), NEW i \in 1..Len(Ordered(rows)),
           NEW j \in 1..Len(Ordered(rows))
    PROVE  LET s == Ordered(rows)
           IN Differences(Ordered(Between(rows, s[i], s[j])))
                = {s[k] - s[k - 1] : k \in (i + 1)..j}
<1> DEFINE s == Ordered(rows)
           within == Between(rows, s[i], s[j])
           w == Ordered(within)
           T == Times(rows)
           W == Times(within)
<1>1. /\ s \in Seq(Int) /\ Len(s) \in Nat /\ \A k \in 1..Len(s) : s[k] \in T
      /\ \A k, m \in 1..Len(s) : k < m => s[k] < s[m]
  BY OrderedFacts
<1>2. \A k \in 2..Len(s) : Adjacent(T, s[k - 1], s[k])
  BY AdjacentTimes
<1>3. \A t, u : Adjacent(T, t, u) => \E k \in 2..Len(s) : s[k - 1] = t /\ s[k] = u
  BY AdjacentTimes
<1>4. Timed(within)
  <2>1. within \in SUBSET rows
    BY DEF Between
  <2>2. IsTable(within, Values)
    BY <2>1, PartOfTable DEF Timed
  <2> QED BY <2>1, <2>2 DEF Timed
<1>5. \A k \in 2..Len(w) : Adjacent(W, w[k - 1], w[k])
  <2> HIDE DEF within
  <2> QED BY <1>4, AdjacentTimes
<1>6. \A t, u : Adjacent(W, t, u) => \E k \in 2..Len(w) : w[k - 1] = t /\ w[k] = u
  <2> HIDE DEF within
  <2> QED BY <1>4, AdjacentTimes
<1>7. \A t : t \in W <=> t \in T /\ s[i] <= t /\ t <= s[j]
  BY DEF Times, Between
<1>8. T \in SUBSET Int
  BY TimesFinite
<1>9. Differences(w) = {w[k] - w[k - 1] : k \in 2..Len(w)}
  BY DEF Differences
<1>10. i \in 1..Len(s) /\ j \in 1..Len(s)
  OBVIOUS
<1> HIDE DEF s, within, w, T, W
<1>11. \A k \in 1..Len(s) : s[k] \in Int
  BY <1>1, ElementOfSeq
<1>12. ASSUME NEW m \in 2..Len(w)
       PROVE  \E k \in (i + 1)..j : w[m] - w[m - 1] = s[k] - s[k - 1]
  <2>1. Adjacent(W, w[m - 1], w[m])
    BY <1>5
  <2>2. Adjacent(T, w[m - 1], w[m]) /\ s[i] <= w[m - 1] /\ w[m] <= s[j]
    <3>1. w[m - 1] \in W /\ w[m] \in W /\ w[m - 1] < w[m]
      BY <2>1 DEF Adjacent
    <3>2. /\ w[m - 1] \in T /\ w[m] \in T
          /\ s[i] <= w[m - 1] /\ w[m] <= s[j]
      BY <1>7, <3>1
    <3>3. ASSUME NEW x \in T, w[m - 1] < x, x < w[m] PROVE FALSE
      <4>1. s[i] \in Int /\ s[j] \in Int /\ w[m - 1] \in Int /\ w[m] \in Int /\ x \in Int
        BY <1>8, <1>10, <1>11, <3>2
      <4>2. s[i] <= x /\ x <= s[j]
        BY <3>2, <3>3, <4>1
      <4>3. x \in W
        BY <1>7, <4>2
      <4> QED BY <2>1, <3>3, <4>3 DEF Adjacent
    <3> QED BY <3>1, <3>2, <3>3 DEF Adjacent
  <2>3. PICK k \in 2..Len(s) : s[k - 1] = w[m - 1] /\ s[k] = w[m]
    BY <1>3, <2>2, SMTT(40)
  <2>4. k \in 1..Len(s) /\ k - 1 \in 1..Len(s)
    BY <1>1
  <2>5. ~(k - 1 < i) /\ ~(j < k)
    <3>1. s[i] \in Int /\ s[j] \in Int /\ s[k - 1] \in Int /\ s[k] \in Int
      BY <1>10, <1>11, <2>4
    <3>2. s[i] <= s[k - 1] /\ s[k] <= s[j]
      BY <2>2, <2>3
    <3>3. ~(s[k - 1] < s[i]) /\ ~(s[j] < s[k])
      BY <3>1, <3>2, SMTT(30)
    <3> QED BY <1>1, <1>10, <2>4, <3>3
  <2>6. k \in (i + 1)..j
    BY <1>1, <1>10, <2>5
  <2> QED BY <2>3, <2>6
<1>13. ASSUME NEW k \in (i + 1)..j
       PROVE  \E m \in 2..Len(w) : s[k] - s[k - 1] = w[m] - w[m - 1]
  <2>1. k \in 2..Len(s) /\ k \in 1..Len(s) /\ k - 1 \in 1..Len(s)
    BY <1>1, <1>10
  <2>2. (i = k - 1 \/ i < k - 1) /\ (k = j \/ k < j) /\ k - 1 < k
    BY <1>1, <1>10
  <2>3. s[i] <= s[k - 1] /\ s[k] <= s[j] /\ s[k - 1] < s[k]
    <3>1. s[i] \in Int /\ s[j] \in Int /\ s[k - 1] \in Int /\ s[k] \in Int
      BY <1>10, <1>11, <2>1
    <3>2. s[k - 1] < s[k]
      BY <1>1, <2>1, <2>2
    <3>3. i < k - 1 => s[i] < s[k - 1]
      BY <1>1, <1>10, <2>1
    <3>4. k < j => s[k] < s[j]
      BY <1>1, <1>10, <2>1
    <3> QED BY <2>2, <3>1, <3>2, <3>3, <3>4
  <2>4. Adjacent(T, s[k - 1], s[k])
    BY <1>2, <2>1
  <2>5. s[k - 1] \in W /\ s[k] \in W
    <3>1. s[i] \in Int /\ s[j] \in Int /\ s[k - 1] \in Int /\ s[k] \in Int
      BY <1>10, <1>11, <2>1
    <3>2. s[i] <= s[k] /\ s[k - 1] <= s[j]
      BY <2>3, <3>1
    <3>3. s[k - 1] \in T /\ s[k] \in T
      BY <1>1, <2>1
    <3> QED BY <1>7, <2>3, <3>2, <3>3
  <2>6. Adjacent(W, s[k - 1], s[k])
    BY <1>7, <2>4, <2>5 DEF Adjacent
  <2>7. PICK m \in 2..Len(w) : w[m - 1] = s[k - 1] /\ w[m] = s[k]
    BY <1>6, <2>6
  <2> QED BY <2>7
<1>14. Differences(w) = {s[k] - s[k - 1] : k \in (i + 1)..j}
  BY <1>9, <1>12, <1>13
<1> QED BY <1>14 DEF w, within, s

(* The values of some rows in the order of their times, and a stretch that  *)
(* is flat: all of its values equal, none of its steps a break.             *)
ValuesOf(rows, c) ==
    LET s == Ordered(rows) IN [i \in DOMAIN s |-> (CHOOSE r \in rows : r.ts = s[i]).v[c]]
FlatBetween(rows, c, e, from, to) ==
    /\ \A r, q \in Between(rows, from, to) : r.v[c] = q.v[c]
    /\ \A step \in Differences(Ordered(Between(rows, from, to))) : 2 * step <= 3 * e

LEMMA FlatIsCalm ==
    ASSUME NEW rows, Single(rows), NEW c \in Columns, NEW e \in Int,
           NEW i \in 1..Len(Ordered(rows)), NEW j \in 1..Len(Ordered(rows)), i <= j
    PROVE  LET s == Ordered(rows)
           IN FlatBetween(rows, c, e, s[i], s[j]) <=> Calm(s, ValuesOf(rows, c), e, i, j)
<1> DEFINE s == Ordered(rows)
           value == ValuesOf(rows, c)
           within == Between(rows, s[i], s[j])
<1>1. /\ s \in Seq(Int) /\ Len(s) \in Nat /\ DOMAIN s = 1..Len(s)
      /\ \A k \in 1..Len(s) : s[k] \in Times(rows)
      /\ \A k, m \in 1..Len(s) : k < m => s[k] < s[m]
      /\ \A t \in Times(rows) : \E k \in 1..Len(s) : s[k] = t
  BY OrderedFacts DEF Single
<1>2. Differences(Ordered(within)) = {s[k] - s[k - 1] : k \in (i + 1)..j}
  BY StepsBetween DEF Single
<1>3. \A k \in 1..Len(s) : \A r \in rows : r.ts = s[k] => value[k] = r.v[c]
  BY <1>1, SMTT(30) DEF ValuesOf, Single
<1>4. \A k \in 1..Len(s) : \E r \in rows : r.ts = s[k]
  BY <1>1 DEF Times
<1>5. \A r \in rows : \E k \in 1..Len(s) : r.ts = s[k]
  BY <1>1 DEF Times
<1>6. \A r : r \in within <=> r \in rows /\ s[i] <= r.ts /\ r.ts <= s[j]
  BY DEF Between
<1>7. i \in 1..Len(s) /\ j \in 1..Len(s) /\ i <= j
  OBVIOUS
<1>8. FlatBetween(rows, c, e, s[i], s[j])
        <=> /\ \A r, q \in within : r.v[c] = q.v[c]
            /\ \A k \in (i + 1)..j : 2 * (s[k] - s[k - 1]) <= 3 * e
  BY <1>2 DEF FlatBetween
<1> HIDE DEF s, value, within
<1>9. \A k \in 1..Len(s) : s[k] \in Int
  BY <1>1, ElementOfSeq
<1>10. \A k \in 1..Len(s) : s[i] <= s[k] /\ s[k] <= s[j] <=> k \in i..j
  <2> SUFFICES ASSUME NEW k \in 1..Len(s) PROVE s[i] <= s[k] /\ s[k] <= s[j] <=> k \in i..j
    OBVIOUS
  <2>1. s[i] \in Int /\ s[j] \in Int /\ s[k] \in Int
    BY <1>7, <1>9
  <2>2. /\ i < k => s[i] < s[k]
        /\ k < i => s[k] < s[i]
        /\ k < j => s[k] < s[j]
        /\ j < k => s[j] < s[k]
    BY <1>1, <1>7
  <2>3. (k = i \/ k < i \/ i < k) /\ (k = j \/ k < j \/ j < k) /\ k \in Nat /\ i \in Nat /\ j \in Nat
    BY <1>1, <1>7
  <2> QED BY <2>1, <2>2, <2>3
<1>11. \A k \in (i + 1)..j : k \in 1..Len(s) /\ k - 1 \in 1..Len(s) /\ k \in i..j /\ k - 1 \in i..j
  BY <1>1, <1>7
<1>12. ASSUME \A r, q \in within : r.v[c] = q.v[c],
              \A k \in (i + 1)..j : 2 * (s[k] - s[k - 1]) <= 3 * e
       PROVE  Calm(s, value, e, i, j)
  <2> SUFFICES ASSUME NEW k \in (i + 1)..j PROVE Steady(s, value, e, k)
    BY DEF Calm
  <2>1. PICK r \in rows : r.ts = s[k]
    BY <1>4, <1>11
  <2>2. PICK q \in rows : q.ts = s[k - 1]
    BY <1>4, <1>11
  <2>3. r \in within /\ q \in within
    BY <1>6, <1>10, <1>11, <2>1, <2>2
  <2>4. value[k] = r.v[c] /\ value[k - 1] = q.v[c]
    BY <1>3, <1>11, <2>1, <2>2
  <2>5. s[k] \in Int /\ s[k - 1] \in Int
    BY <1>9, <1>11
  <2>6. 2 * (s[k] - s[k - 1]) <= 3 * e
    BY <1>12
  <2>7. ~(2 * (s[k] - s[k - 1]) > 3 * e)
    BY <2>5, <2>6
  <2> QED BY <1>12, <2>3, <2>4, <2>7 DEF Steady
<1>13. ASSUME Calm(s, value, e, i, j)
       PROVE  /\ \A r, q \in within : r.v[c] = q.v[c]
              /\ \A k \in (i + 1)..j : 2 * (s[k] - s[k - 1]) <= 3 * e
  <2>1. \A k \in i..j : value[k] = value[i]
    <3>1. i \in Nat /\ j \in Nat
      BY <1>1, <1>7
    <3> QED BY <1>13, <3>1, CalmIsConstant
  <2>2. \A r \in within : r.v[c] = value[i]
    <3> SUFFICES ASSUME NEW r \in within PROVE r.v[c] = value[i]
      OBVIOUS
    <3>1. PICK k \in 1..Len(s) : r.ts = s[k]
      BY <1>5, <1>6
    <3>2. k \in i..j
      BY <1>6, <1>10, <3>1
    <3> QED BY <1>3, <1>6, <2>1, <3>1, <3>2
  <2>3. ASSUME NEW k \in (i + 1)..j PROVE 2 * (s[k] - s[k - 1]) <= 3 * e
    <3>1. ~(2 * (s[k] - s[k - 1]) > 3 * e)
      BY <1>13 DEF Calm, Steady
    <3>2. s[k] \in Int /\ s[k - 1] \in Int
      BY <1>9, <1>11
    <3> QED BY <3>1, <3>2
  <2> QED BY <2>2, <2>3
<1>14. FlatBetween(rows, c, e, s[i], s[j]) <=> Calm(s, value, e, i, j)
  BY <1>8, <1>12, <1>13
<1> QED BY <1>14 DEF s, value

(* The flat stretches of some rows, and the issues their runs make.         *)
StretchesOf(rows, c, e, threshold) ==
    LET flat == {p \in Times(rows) \X Times(rows) :
                    p[1] < p[2] /\ FlatBetween(rows, c, e, p[1], p[2])}
    IN {p \in flat : /\ p[2] - p[1] >= threshold
                     /\ \A q \in flat : q[1] <= p[1] /\ p[2] <= q[2] => q = p}
FirstOf(rows, c, e, i) == Min(RunOf(Ordered(rows), ValuesOf(rows, c), e, i))
LastOf(rows, c, e, i) == Max(RunOf(Ordered(rows), ValuesOf(rows, c), e, i))
IssueOf(d, rows, c, e, i) ==
    LET s == Ordered(rows)
    IN [device |-> d, column |-> c, start |-> s[FirstOf(rows, c, e, i)],
        end |-> s[LastOf(rows, c, e, i)], value |-> ValuesOf(rows, c)[i]]
IssuesOf(d, rows, c, e, threshold) ==
    {f \in {IssueOf(d, rows, c, e, i) : i \in DOMAIN Ordered(rows)} :
        f.start < f.end /\ f.end - f.start >= threshold}

LEMMA Positions ==
    ASSUME NEW rows, Timed(rows)
    PROVE  LET s == Ordered(rows)
           IN /\ Len(s) \in Nat /\ DOMAIN s = 1..Len(s) /\ s \in Seq(Int)
              /\ \A i \in 1..Len(s) : s[i] \in Int /\ s[i] \in Times(rows)
              /\ \A i, j \in 1..Len(s) : /\ s[i] < s[j] <=> i < j
                                         /\ s[i] <= s[j] <=> i <= j
                                         /\ s[i] = s[j] <=> i = j
              /\ \A t \in Times(rows) : \E i \in 1..Len(s) : s[i] = t
<1> DEFINE s == Ordered(rows)
<1>1. /\ s \in Seq(Int) /\ Len(s) \in Nat /\ DOMAIN s = 1..Len(s)
      /\ \A k \in 1..Len(s) : s[k] \in Times(rows)
      /\ \A k, m \in 1..Len(s) : k < m => s[k] < s[m]
      /\ \A t \in Times(rows) : \E k \in 1..Len(s) : s[k] = t
  BY OrderedFacts
<1> HIDE DEF s
<1>2. \A k \in 1..Len(s) : s[k] \in Int
  BY <1>1, ElementOfSeq
<1>3. ASSUME NEW i \in 1..Len(s), NEW j \in 1..Len(s)
      PROVE  /\ s[i] < s[j] <=> i < j
             /\ s[i] <= s[j] <=> i <= j
             /\ s[i] = s[j] <=> i = j
  <2>1. i < j \/ i = j \/ j < i
    BY <1>1
  <2>2. (i < j => s[i] < s[j]) /\ (j < i => s[j] < s[i])
    BY <1>1
  <2>3. s[i] \in Int /\ s[j] \in Int /\ i \in Int /\ j \in Int
    BY <1>1, <1>2
  <2> QED BY <2>1, <2>2, <2>3
<1> QED BY <1>1, <1>2, <1>3 DEF s

LEMMA RunFacts ==
    ASSUME NEW rows, Single(rows), NEW c \in Columns, NEW e \in Int,
           NEW i \in 1..Len(Ordered(rows))
    PROVE  LET s == Ordered(rows)
               value == ValuesOf(rows, c)
               a == FirstOf(rows, c, e, i)
               b == LastOf(rows, c, e, i)
           IN /\ a \in 1..i /\ b \in i..Len(s) /\ value[i] = value[a]
              /\ FlatBetween(rows, c, e, s[a], s[b])
              /\ \A x, y \in 1..Len(s) :
                    /\ x <= i /\ i <= y /\ FlatBetween(rows, c, e, s[x], s[y])
                    => a <= x /\ y <= b
<1> DEFINE s == Ordered(rows)
           value == ValuesOf(rows, c)
           a == FirstOf(rows, c, e, i)
           b == LastOf(rows, c, e, i)
<1>1. Len(s) \in Nat /\ s \in Seq(Int)
  BY Positions DEF Single
<1>2. \A x, y \in 1..Len(s) : x <= y =>
         (FlatBetween(rows, c, e, s[x], s[y]) <=> Calm(s, value, e, x, y))
  BY FlatIsCalm
<1> HIDE DEF s, value
<1>3. /\ a \in 1..i /\ b \in i..Len(s) /\ Calm(s, value, e, a, b)
      /\ \A x \in 1..Len(s) : x <= i /\ Calm(s, value, e, x, i) => a <= x
      /\ \A y \in 1..Len(s) : i <= y /\ Calm(s, value, e, i, y) => y <= b
  <2>1. i \in 1..Len(s)
    BY DEF s
  <2>2. a = Min(RunOf(s, value, e, i)) /\ b = Max(RunOf(s, value, e, i))
    BY DEF s, value, FirstOf, LastOf
  <2> HIDE DEF a, b
  <2> QED BY <1>1, <2>1, <2>2, RunBounds
<1>4. i \in 1..Len(s)
  BY DEF s
<1> HIDE DEF a, b
<1>5. a \in 1..Len(s) /\ b \in 1..Len(s) /\ a <= b /\ a \in Nat /\ b \in Nat /\ i \in a..b
  BY <1>1, <1>3, <1>4
<1>6. value[i] = value[a]
  BY <1>3, <1>5, CalmIsConstant
<1>7. FlatBetween(rows, c, e, s[a], s[b])
  BY <1>2, <1>3, <1>5
<1>8. ASSUME NEW x \in 1..Len(s), NEW y \in 1..Len(s), x <= i, i <= y,
             FlatBetween(rows, c, e, s[x], s[y])
      PROVE  a <= x /\ y <= b
  <2>1. x <= y /\ x \in Nat /\ y \in Nat /\ i \in x..y /\ x \in x..y /\ y \in x..y
    BY <1>1, <1>4, <1>8
  <2>2. Calm(s, value, e, x, y)
    BY <1>2, <1>8, <2>1
  <2>3. Calm(s, value, e, x, i) /\ Calm(s, value, e, i, y)
    BY <2>1, <2>2, CalmParts
  <2> QED BY <1>3, <1>8, <2>3
<1> QED BY <1>3, <1>6, <1>7, <1>8 DEF s, value, a, b

LEMMA IssuesAreStretches ==
    ASSUME NEW d, NEW rows, Single(rows), NEW c \in Columns, NEW e \in Int, NEW threshold
    PROVE  {<<f.start, f.end>> : f \in IssuesOf(d, rows, c, e, threshold)}
             = StretchesOf(rows, c, e, threshold)
<1> DEFINE s == Ordered(rows)
           a(i) == FirstOf(rows, c, e, i)
           b(i) == LastOf(rows, c, e, i)
           issue(i) == IssueOf(d, rows, c, e, i)
           issues == IssuesOf(d, rows, c, e, threshold)
           stretches == StretchesOf(rows, c, e, threshold)
           IsFlat(t, u) == t \in Times(rows) /\ u \in Times(rows) /\ t < u
                             /\ FlatBetween(rows, c, e, t, u)
<1>1. /\ Len(s) \in Nat /\ DOMAIN s = 1..Len(s)
      /\ \A i \in 1..Len(s) : s[i] \in Int /\ s[i] \in Times(rows)
      /\ \A i, j \in 1..Len(s) : /\ s[i] < s[j] <=> i < j
                                 /\ s[i] <= s[j] <=> i <= j
                                 /\ s[i] = s[j] <=> i = j
      /\ \A t \in Times(rows) : \E i \in 1..Len(s) : s[i] = t
  BY Positions DEF Single
<1>2. \A i \in 1..Len(s) :
         /\ a(i) \in 1..i /\ b(i) \in i..Len(s)
         /\ FlatBetween(rows, c, e, s[a(i)], s[b(i)])
         /\ \A x, y \in 1..Len(s) :
               x <= i /\ i <= y /\ FlatBetween(rows, c, e, s[x], s[y]) => a(i) <= x /\ y <= b(i)
  BY RunFacts
<1>3. \A i \in 1..Len(s) : issue(i).start = s[a(i)] /\ issue(i).end = s[b(i)]
  BY DEF IssueOf
<1>4. \A f : f \in issues <=> \E i \in 1..Len(s) : /\ f = issue(i) /\ f.start < f.end
                                                   /\ f.end - f.start >= threshold
  BY <1>1 DEF IssuesOf
<1>5. \A t, u : <<t, u>> \in stretches
                  <=> /\ IsFlat(t, u) /\ u - t >= threshold
                      /\ \A x, y : IsFlat(x, y) /\ x <= t /\ u <= y => x = t /\ y = u
  <2> SUFFICES ASSUME NEW t, NEW u
               PROVE  <<t, u>> \in stretches
                        <=> /\ IsFlat(t, u) /\ u - t >= threshold
                            /\ \A x, y : IsFlat(x, y) /\ x <= t /\ u <= y => x = t /\ y = u
    OBVIOUS
  <2> DEFINE flat == {p \in Times(rows) \X Times(rows) :
                         p[1] < p[2] /\ FlatBetween(rows, c, e, p[1], p[2])}
  <2>1. \A x, y : <<x, y>> \in flat <=> IsFlat(x, y)
    OBVIOUS
  <2>2. \A q \in flat : q = <<q[1], q[2]>>
    OBVIOUS
  <2>3. stretches = {p \in flat : /\ p[2] - p[1] >= threshold
                                  /\ \A q \in flat : q[1] <= p[1] /\ p[2] <= q[2] => q = p}
    BY DEF StretchesOf
  <2> HIDE DEF flat, IsFlat, stretches
  <2>4. <<t, u>> \in stretches
          <=> /\ <<t, u>> \in flat /\ u - t >= threshold
              /\ \A q \in flat : q[1] <= t /\ u <= q[2] => q = <<t, u>>
    BY <2>3
  <2>5. (\A q \in flat : q[1] <= t /\ u <= q[2] => q = <<t, u>>)
          <=> \A x, y : <<x, y>> \in flat /\ x <= t /\ u <= y => <<x, y>> = <<t, u>>
    BY <2>2
  <2> QED BY <2>1, <2>4, <2>5
<1>6. \A p \in stretches : p = <<p[1], p[2]>>
  BY DEF StretchesOf
<1> HIDE DEF s, a, b, issue, issues, stretches
<1>7. \A i \in 1..Len(s) : i \in Nat /\ a(i) \in 1..Len(s) /\ b(i) \in 1..Len(s) /\ a(i) <= i /\ i <= b(i)
  BY <1>1, <1>2, SMTT(30)
<1>8. ASSUME NEW f \in issues PROVE <<f.start, f.end>> \in stretches
  <2>1. PICK i \in 1..Len(s) : f = issue(i) /\ f.start < f.end /\ f.end - f.start >= threshold
    BY <1>4
  <2>2. f.start = s[a(i)] /\ f.end = s[b(i)]
    BY <1>3, <2>1
  <2>3. IsFlat(s[a(i)], s[b(i)])
    BY <1>1, <1>2, <1>7, <2>1, <2>2
  <2>4. ASSUME NEW t, NEW u, IsFlat(t, u), t <= s[a(i)], s[b(i)] <= u
        PROVE  t = s[a(i)] /\ u = s[b(i)]
    <3>1. PICK x \in 1..Len(s) : s[x] = t
      BY <1>1, <2>4
    <3>2. PICK y \in 1..Len(s) : s[y] = u
      BY <1>1, <2>4
    <3>3. x <= a(i) /\ b(i) <= y
      BY <1>1, <1>7, <2>4, <3>1, <3>2
    <3>4. x <= i /\ i <= y
      <4>1. /\ a(i) <= i /\ i <= b(i) /\ i \in Int /\ a(i) \in Int /\ b(i) \in Int
            /\ x \in Int /\ y \in Int
        BY <1>1, <1>7
      <4> HIDE DEF IsFlat
      <4> QED BY ONLY <3>3, <4>1
    <3>5. a(i) <= x /\ y <= b(i)
      BY <1>2, <2>4, <3>1, <3>2, <3>4
    <3>6. x = a(i) /\ y = b(i)
      BY <1>1, <1>7, <3>3, <3>5
    <3> QED BY <3>1, <3>2, <3>6
  <2> HIDE DEF IsFlat
  <2> QED BY <1>5, <2>1, <2>2, <2>3, <2>4
<1>9. ASSUME NEW p \in stretches PROVE \E f \in issues : p = <<f.start, f.end>>
  <2>1. PICK t, u : p = <<t, u>>
    BY <1>6
  <2>2. /\ IsFlat(t, u) /\ u - t >= threshold
        /\ \A x, y : IsFlat(x, y) /\ x <= t /\ u <= y => x = t /\ y = u
    <3> HIDE DEF IsFlat
    <3> QED BY <1>5, <2>1
  <2>3. PICK x \in 1..Len(s) : s[x] = t
    BY <1>1, <2>2
  <2>4. PICK y \in 1..Len(s) : s[y] = u
    BY <1>1, <2>2
  <2>5. x < y /\ FlatBetween(rows, c, e, s[x], s[y])
    BY <1>1, <2>2, <2>3, <2>4
  <2>6. a(x) <= x /\ y <= b(x)
    <3>1. x <= x /\ x <= y
      BY <1>1, <2>5
    <3> QED BY <1>2, <2>5, <3>1
  <2>7. a(x) < b(x)
    BY <1>1, <1>7, <2>5, <2>6
  <2>8. IsFlat(s[a(x)], s[b(x)])
    BY <1>1, <1>2, <1>7, <2>7
  <2>9. s[a(x)] <= t /\ u <= s[b(x)]
    BY <1>1, <1>7, <2>3, <2>4, <2>6
  <2>10. s[a(x)] = t /\ s[b(x)] = u
    <3> HIDE DEF IsFlat
    <3> QED BY <2>2, <2>8, <2>9
  <2>11. t < u
    BY <2>2
  <2>12. issue(x).start = t /\ issue(x).end = u
    BY <1>3, <2>10
  <2>13. issue(x) \in issues
    BY <1>4, <2>2, <2>11, <2>12
  <2> QED BY <2>1, <2>12, <2>13
<1>10. {<<f.start, f.end>> : f \in issues} = stretches
  BY <1>8, <1>9
<1> QED BY <1>10 DEF issues, stretches

LEMMA IssuesCounted ==
    ASSUME NEW d, NEW rows, Single(rows), NEW c \in Columns, NEW e \in Int, NEW threshold
    PROVE  Cardinality(IssuesOf(d, rows, c, e, threshold))
             = Cardinality(StretchesOf(rows, c, e, threshold))
<1> DEFINE s == Ordered(rows)
           a(i) == FirstOf(rows, c, e, i)
           issue(i) == IssueOf(d, rows, c, e, i)
           issues == IssuesOf(d, rows, c, e, threshold)
           g == [i \in 1..Len(s) |-> issue(i)]
           pair == [f \in issues |-> <<f.start, f.end>>]
<1>1. /\ Len(s) \in Nat /\ DOMAIN s = 1..Len(s)
      /\ \A i, j \in 1..Len(s) : s[i] = s[j] <=> i = j
  BY Positions DEF Single
<1>2. \A i \in 1..Len(s) : a(i) \in 1..i /\ ValuesOf(rows, c)[i] = ValuesOf(rows, c)[a(i)]
  BY RunFacts
<1>3. \A i \in 1..Len(s) :
         issue(i) = [device |-> d, column |-> c, start |-> issue(i).start,
                     end |-> issue(i).end, value |-> ValuesOf(rows, c)[i]]
         /\ issue(i).start = s[a(i)]
  BY DEF IssueOf
<1>4. issues \in SUBSET {g[i] : i \in DOMAIN g} /\ DOMAIN g = 1..Len(s)
  BY <1>1 DEF IssuesOf
<1>5. \A f \in issues : \E i \in 1..Len(s) : f = issue(i)
  BY <1>1 DEF IssuesOf
<1>6. {pair[f] : f \in DOMAIN pair} = StretchesOf(rows, c, e, threshold)
  <2>1. {<<f.start, f.end>> : f \in issues} = StretchesOf(rows, c, e, threshold)
    BY IssuesAreStretches
  <2> HIDE DEF issues
  <2> QED BY <2>1
<1> HIDE DEF s, issues, a, issue
<1>7. IsFiniteSet(issues)
  <2>1. IsFiniteSet(DOMAIN g)
    BY <1>1, <1>4, FS_Interval
  <2> HIDE DEF g
  <2>2. IsFiniteSet({g[i] : i \in DOMAIN g})
    BY <2>1, ImageIsFinite
  <2> QED BY <1>4, <2>2, FS_Subset
<1>8. ASSUME NEW f \in issues, NEW h \in issues, f.start = h.start, f.end = h.end PROVE f = h
  <2>1. PICK i \in 1..Len(s) : f = issue(i)
    BY <1>5
  <2>2. PICK j \in 1..Len(s) : h = issue(j)
    BY <1>5
  <2>3. a(i) \in 1..Len(s) /\ a(j) \in 1..Len(s)
    BY <1>1, <1>2
  <2>4. s[a(i)] = s[a(j)]
    BY <1>3, <1>8, <2>1, <2>2
  <2>5. a(i) = a(j)
    BY <1>1, <2>3, <2>4
  <2>6. ValuesOf(rows, c)[i] = ValuesOf(rows, c)[j]
    BY <1>2, <2>5
  <2> QED BY <1>3, <1>8, <2>1, <2>2, <2>6
<1>9. \A f, h \in DOMAIN pair : pair[f] = pair[h] => f = h
  BY <1>8
<1>10. DOMAIN pair = issues
  OBVIOUS
<1> HIDE DEF pair
<1>11. Cardinality({pair[f] : f \in DOMAIN pair}) = Cardinality(DOMAIN pair)
  BY <1>7, <1>9, <1>10, ImageCounts
<1> QED BY <1>6, <1>10, <1>11 DEF issues

(* The rows a flatline is looked for in: those with a value in the column.  *)
Valued(d, c) == {r \in Of(d, Readable(quality)) : r.v[c] # Null}

LEMMA ValuedFacts ==
    ASSUME IsTable(quality, Values), NEW d, NEW c
    PROVE  Single(Valued(d, c)) /\ ExpectedInterval(Ordered(Valued(d, c))) \in Int
<1> DEFINE rows == Valued(d, c)
           s == Ordered(rows)
<1>1. Single(rows)
  <2>1. Timed(Of(d, Readable(quality)))
    BY ReadableIsTimed
  <2>2. rows \in SUBSET Of(d, Readable(quality))
    BY DEF Valued
  <2>3. IsTable(rows, Values)
    BY <2>1, <2>2, PartOfTable DEF Timed
  <2>4. \A r \in rows : r.device = d /\ r.ts \in Int
    BY <2>1, <2>2 DEF Of, Timed
  <2> HIDE DEF rows
  <2> QED BY <2>3, <2>4 DEF Single, Timed, IsTable
<1>2. s \in Seq(Int) /\ Increasing(s)
  <2> HIDE DEF rows
  <2> QED BY <1>1, OrderedFacts DEF Increasing, Single
<1> HIDE DEF s
<1>3. ExpectedInterval(s) \in Int
  <2>1. CASE Len(s) < 2
    BY <2>1 DEF ExpectedInterval
  <2>2. CASE ~(Len(s) < 2)
    <3>1. Len(s) >= 2
      BY <1>2, <2>2
    <3>2. ExpectedInterval(s) \in Nat \ {0}
      BY <1>2, <3>1, ExpectedFacts
    <3> QED BY <3>2
  <2> QED BY <2>1, <2>2
<1> QED BY <1>1, <1>3 DEF s

LEMMA FlatlinesNamed ==
    ASSUME NEW d, NEW c
    PROVE  LET rows == Valued(d, c)
               e == ExpectedInterval(Ordered(rows))
               threshold == Threshold(SensorThreshold[c], FlatlineWindow)
           IN /\ FlatlinesOf(d, c, quality, threshold) = IssuesOf(d, rows, c, e, threshold)
              /\ FlatStretches(d, c) = StretchesOf(rows, c, e, threshold)
<1> DEFINE rows == Valued(d, c)
           s == Ordered(rows)
           e == ExpectedInterval(s)
           threshold == Threshold(SensorThreshold[c], FlatlineWindow)
<1>1. FlatlinesOf(d, c, quality, threshold) = IssuesOf(d, rows, c, e, threshold)
  <2> HIDE DEF threshold
  <2> QED BY DEF FlatlinesOf, IssuesOf, IssueOf, ValuesOf, FirstOf, LastOf, RunOf, Valued
<1>2. \A from, to : Flat(d, c, from, to) <=> FlatBetween(rows, c, e, from, to)
  BY DEF Flat, FlatBetween, Between, Valued
<1>3. FlatStretches(d, c) = StretchesOf(rows, c, e, threshold)
  <2>1. {r.ts : r \in {q \in Of(d, Readable(quality)) : q.v[c] # Null}} = Times(rows)
    BY DEF Times, Valued
  <2> HIDE DEF rows, s, e, threshold
  <2>2. threshold = Threshold(SensorThreshold[c], FlatlineWindow)
    BY DEF threshold
  <2> QED BY <1>2, <2>1, <2>2 DEF FlatStretches, StretchesOf
<1> QED BY <1>1, <1>3

LEMMA FlatlinesFound == RunInv => FlatlinesAreMaximal
<1> SUFFICES ASSUME StageInv, ReportInv, stage = "clean",
                    NEW d \in Devices(quality), NEW c \in Columns
             PROVE  LET found == {f \in findings.flatlines : f.device = d /\ f.column = c}
                    IN /\ {<<f.start, f.end>> : f \in found} = FlatStretches(d, c)
                       /\ Cardinality(found) = Cardinality(FlatStretches(d, c))
  BY DEF FlatlinesAreMaximal, RunInv
<1> DEFINE rows == Valued(d, c)
           e == ExpectedInterval(Ordered(rows))
           threshold == Threshold(SensorThreshold[c], FlatlineWindow)
           found == {f \in findings.flatlines : f.device = d /\ f.column = c}
<1>1. IsTable(quality, Values) /\ findings.flatlines = FlatlinesIn(quality)
  BY QualityIsTable DEF ReportInv, FromAssess, FromClean
<1>2. found = FlatlinesOf(d, c, quality, threshold)
  <2>1. \A x, y, table, t : \A f \in FlatlinesOf(x, y, table, t) : f.device = x /\ f.column = y
    <3> SUFFICES ASSUME NEW x, NEW y, NEW table, NEW t, NEW f \in FlatlinesOf(x, y, table, t)
                 PROVE  f.device = x /\ f.column = y
      OBVIOUS
    <3>1. \E from, to, held : f = [device |-> x, column |-> y, start |-> from, end |-> to,
                                   value |-> held]
      BY DEF FlatlinesOf
    <3> QED BY <3>1
  <2>2. \A f : f \in findings.flatlines
                 <=> \E x \in Devices(quality), y \in Columns :
                        f \in FlatlinesOf(x, y, quality, Threshold(SensorThreshold[y], FlatlineWindow))
    BY <1>1 DEF FlatlinesIn, Flatlines
  <2> QED BY <2>1, <2>2
<1>3. /\ FlatlinesOf(d, c, quality, threshold) = IssuesOf(d, rows, c, e, threshold)
      /\ FlatStretches(d, c) = StretchesOf(rows, c, e, threshold)
  BY FlatlinesNamed
<1>4. Single(rows) /\ e \in Int
  BY <1>1, ValuedFacts
<1> HIDE DEF rows, e, threshold, found
<1>5. {<<f.start, f.end>> : f \in IssuesOf(d, rows, c, e, threshold)}
        = StretchesOf(rows, c, e, threshold)
  BY <1>4, IssuesAreStretches
<1>6. Cardinality(IssuesOf(d, rows, c, e, threshold))
        = Cardinality(StretchesOf(rows, c, e, threshold))
  BY <1>4, IssuesCounted
<1> QED BY <1>2, <1>3, <1>5, <1>6 DEF found

(* All the stretches a sensor is stuck for are reported, whole and once.    *)
THEOREM FlatlinesAreComplete == PipelineSpec => []FlatlinesAreMaximal
BY RunsAsStaged, FlatlinesFound, PTL
=============================================================================
