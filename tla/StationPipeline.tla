-------------------------- MODULE StationPipeline --------------------------
(***************************************************************************)
(* ingestion/pipeline.py and metrics/engine.py: one run over the readings  *)
(* of a station, stage by stage, with the two ways a run is rejected and   *)
(* the metrics of each device at the end.  A run works on its own copy of  *)
(* the readings and shares nothing, so one run at a time is enough; runs   *)
(* side by side meet in MetricStore.                                       *)
(***************************************************************************)
EXTENDS StationData

CONSTANTS
    RawTables,        \* the tables the source may answer with
    Frequencies,      \* resample_frequency, in minutes
    SensorThreshold,  \* flatline_threshold_minutes of each column, or Null
    FlatlineWindow,   \* flatline_window_minutes of the request
    RpmThreshold,     \* active_rpm_threshold
    FlowThreshold     \* specific_power_flow_threshold

ASSUME PipelineAssumption ==
    /\ {"motor_speed", "air_flow_rate", "discharge_pressure", "power_consumption"}
          \subseteq Columns
    /\ Frequencies \subseteq Nat \ {0} /\ FlatlineWindow \in Nat \ {0}
    /\ RpmThreshold \in Nat /\ FlowThreshold \in Nat
    /\ \A table \in RawTables : IsTable(table, Int \cup {Null, Bad})

VARIABLES
    stage,      \* the stage that is next
    config,     \* [strategy, freq, numbered] of the request
    raw,        \* raw_data
    quality,    \* quality_frame
    counts,     \* out-of-range values: as the validator and as the cleaner count
    findings,   \* [missing, malformed, gaps, flatlines] of the report
    cleaned,
    resampled,
    metrics     \* the results, one record per device

pipelineVars ==
    <<stage, config, raw, quality, counts, findings, cleaned, resampled, metrics>>

Stages == {"fetch", "normalize", "nullify", "assess", "clean", "resample",
           "compute", "done", "not_found", "rejected", "crashed"}

NoFindings == [missing |-> <<>>, malformed |-> <<>>, gaps |-> {}, flatlines |-> {}]

(* resample_frequency is an offset string: a number and a unit, or the unit *)
(* alone ("min", "h", "D"), which the request's validator accepts as well.  *)
Configs ==
    {c \in [strategy : Strategies, freq : Frequencies, numbered : BOOLEAN] :
        c.numbered \/ c.freq = 1}

PipelineInit ==
    /\ stage = "fetch" /\ config \in Configs
    /\ raw = {} /\ quality = {} /\ counts = [validated |-> 0, nullified |-> 0]
    /\ findings = NoFindings /\ cleaned = {} /\ resampled = {} /\ metrics = {}

Fetch ==
    /\ stage = "fetch"
    /\ raw' \in RawTables
    /\ stage' = IF raw' = {} THEN "not_found" ELSE "normalize"
    /\ UNCHANGED <<config, quality, counts, findings, cleaned, resampled, metrics>>

Total(Count(_)) == MapThenSumSet(Count, Columns)

Normalize ==
    /\ stage = "normalize"
    /\ quality' = NormalizeTable(raw)
    /\ findings' = [findings EXCEPT !.malformed = [c \in Columns |-> MalformedCount(raw, c)]]
    /\ counts' = [counts EXCEPT !.validated =
                     Total(LAMBDA c : OutOfRangeCount(NormalizeTable(raw), c))]
    /\ stage' = IF Readable(raw) = {} THEN "rejected" ELSE "nullify"
    /\ UNCHANGED <<config, raw, cleaned, resampled, metrics>>

Nullify ==
    /\ stage = "nullify"
    /\ quality' = NullifyTable(quality)
    /\ counts' = [counts EXCEPT !.nullified = Total(LAMBDA c : OutOfRangeCount(quality, c))]
    /\ stage' = "assess"
    /\ UNCHANGED <<config, raw, findings, cleaned, resampled, metrics>>

Assess ==
    /\ stage = "assess"
    /\ findings' = [findings EXCEPT
          !.missing = [c \in Columns |-> MissingCount(quality, c)],
          !.gaps = TimestampGaps(quality),
          !.flatlines = Flatlines(quality, SensorThreshold, FlatlineWindow)]
    /\ stage' = "clean"
    /\ UNCHANGED <<config, raw, quality, counts, cleaned, resampled, metrics>>

Clean ==
    /\ stage = "clean"
    /\ cleaned' = ApplyStrategy(quality, config.strategy)
    /\ stage' = IF cleaned' = {} THEN "rejected" ELSE "resample"
    /\ UNCHANGED <<config, raw, quality, counts, findings, resampled, metrics>>

Resample ==
    /\ stage = "resample"
    /\ resampled' = ResampleTable(cleaned, config.freq)
    /\ stage' = IF resampled' = {} THEN "rejected" ELSE "compute"
    /\ UNCHANGED <<config, raw, quality, counts, findings, cleaned, metrics>>

-----------------------------------------------------------------------------
(* MetricsEngine, for the resampled rows of one device.                    *)

(* Mutant of IntervalOf: the last difference, of a list left unsorted. *)
IntervalLast(s, freq) ==
    IF Len(s) < 2 THEN freq ELSE s[Len(s)] - s[Len(s) - 1]

(* _infer_interval_hours, in minutes: the upper median of the differences, *)
(* or the frequency when there is one row only.                            *)
IntervalOf(s, freq) ==
    IF Len(s) < 2 THEN freq
    ELSE LET rank == (Len(s) - 1) \div 2 + 1
             UpTo(d) == Cardinality({i \in 2..Len(s) : s[i] - s[i - 1] <= d})
         IN CHOOSE d \in Differences(s) :
                UpTo(d) >= rank /\ \A e \in Differences(s) : UpTo(e) >= rank => d <= e

OrZero(value) == IF value = Null THEN 0 ELSE value

Active(rows) == {r \in rows : OrZero(r.v["motor_speed"]) > RpmThreshold}
Flowing(rows) == {r \in rows : OrZero(r.v["air_flow_rate"]) > FlowThreshold}

(* power / flow, where both are known *)
SpecificPower(rows) ==
    LET known == {r \in Flowing(rows) : r.v["power_consumption"] # Null}
    IN IF known = {} THEN 0
       ELSE MapThenSumSet(LAMBDA r : r.v["power_consumption"] \div r.v["air_flow_rate"], known)
            \div Cardinality(known)

PeakOrZero(rows, c) ==
    LET values == {r.v[c] : r \in rows} \ {Null}
    IN IF values = {} THEN 0 ELSE Max(values)

(* The row before r, none for the first. *)
Previous(rows, r) ==
    {p \in rows : p.ts < r.ts /\ \A q \in rows : q.ts < r.ts => q.ts <= p.ts}

(* Mutant of CycleCount: shift(1, fill_value=False). *)
CycleCountFromRest(rows) ==
    Quantify(rows, LAMBDA r : r \in Active(rows) /\ Previous(rows, r) \cap Active(rows) = {})

(* active_mask & previous.eq(False): the first row has no previous one. *)
CycleCount(rows) ==
    Quantify(rows, LAMBDA r :
        r \in Active(rows) /\ \E p \in Previous(rows, r) : p \notin Active(rows))

MetricsOf(device, rows, freq) ==
    LET s == Ordered(rows)
        interval == IntervalOf(s, freq)
    IN [device |-> device, window_start |-> s[1], window_end |-> s[Len(s)],
        active_duration |-> Cardinality(Active(rows)) * interval,
        active_rows |-> Cardinality(Active(rows)),
        rows |-> Cardinality(rows),
        average_pressure |-> OrZero(MeanOf(rows, "discharge_pressure")),
        peak_pressure |-> PeakOrZero(rows, "discharge_pressure"),
        mean_specific_power |-> SpecificPower(rows),
        cycle_count |-> CycleCount(rows),
        total_flow |-> MapThenSumSet(LAMBDA r : OrZero(r.v["air_flow_rate"]), rows) * interval]

ComputeMetrics(table, freq) ==
    {MetricsOf(d, Of(d, table), freq) : d \in Devices(table)}

(* Only a device with a single row makes the engine read the frequency, and *)
(* to_timedelta reads none without a number: nobody catches its ValueError. *)
IntervalUnknown ==
    ~config.numbered /\ \E d \in Devices(resampled) : Cardinality(Of(d, resampled)) = 1

ComputeCrashes ==
    /\ stage = "compute" /\ IntervalUnknown
    /\ stage' = "crashed"
    /\ UNCHANGED <<config, raw, quality, counts, findings, cleaned, resampled, metrics>>

Compute ==
    /\ stage = "compute" /\ ~IntervalUnknown
    /\ metrics' = ComputeMetrics(resampled, config.freq)
    /\ stage' = "done"
    /\ UNCHANGED <<config, raw, quality, counts, findings, cleaned, resampled>>

PipelineNext ==
    \/ Fetch \/ Normalize \/ Nullify \/ Assess \/ Clean \/ Resample
    \/ ComputeCrashes \/ Compute

PipelineSpec == PipelineInit /\ [][PipelineNext]_pipelineVars
-----------------------------------------------------------------------------
(* ProcessStationResponse.from_summary: what the client of a run is told.   *)
MetricNames == 7

Summary ==
    [rows_read |-> Cardinality(raw), rows_after_cleaning |-> Cardinality(cleaned),
     rows_after_resampling |-> Cardinality(resampled),
     devices_processed |-> Cardinality(Devices(resampled)),
     metrics_saved |-> MetricNames * Cardinality(metrics),
     time_range |-> [start |-> Min({r.ts : r \in resampled}),
                     end |-> Max({r.ts : r \in resampled})]]

Assessed == stage \in {"clean", "resample", "compute", "done"}

(* The three independent counts of a report agree: what the validator calls *)
(* out of range is what the cleaner nulls, and the missing values are those *)
(* the source left out, the malformed and the nulled ones, none counted     *)
(* twice (validators.py:48-58, cleaners.py:27-31, quality.py:23-26).  And   *)
(* the summary sent to the client adds up: no stage made rows, every device *)
(* processed has all its metrics saved, and the processed window is the one *)
(* their windows span (schemas.py:113-137).                                 *)
ReportAddsUp ==
    Assessed =>
        /\ counts.validated = counts.nullified
        /\ Total(LAMBDA c : findings.missing[c]) =
              Total(LAMBDA c : Quantify(raw, LAMBDA r : r.v[c] = Null))
              + Total(LAMBDA c : findings.malformed[c]) + counts.nullified
        /\ stage = "done" =>
              /\ Summary.rows_read >= Summary.rows_after_cleaning
              /\ Summary.rows_after_cleaning >= Summary.rows_after_resampling
              /\ Summary.metrics_saved = MetricNames * Summary.devices_processed
              /\ Summary.time_range.start = Min({m.window_start : m \in metrics})
              /\ Summary.time_range.end = Max({m.window_end : m \in metrics})

(* Filling never lets a reading depend on a later one: cleaning what was    *)
(* known up to any instant gives the same rows as cleaning everything       *)
(* (cleaners.py:58).                                                        *)
FillIsTimeFaithful ==
    stage = "resample" /\ config.strategy = "fill" =>
        \A now \in {r.ts : r \in cleaned} :
            LET Until(table) == {r \in table : r.ts <= now}
            IN ApplyStrategy(Until(Readable(quality)), "fill") = Until(cleaned)

(* A reading without any value says nothing: leaving it out of the source   *)
(* leaves every other cleaned reading as it is, whatever the strategy and   *)
(* the spacing of the readings (cleaners.py:60, 64-68).                     *)
EmptyRowsChangeNothing ==
    stage = "resample" =>
        \A r \in Readable(quality) :
            (\A c \in Columns : r.v[c] = Null) =>
                LET Others(table) == {q \in table : <<q.device, q.ts>> # <<r.device, r.ts>>}
                IN ApplyStrategy(quality \ {r}, config.strategy) = Others(cleaned)

(* What a run reports of a device is what a run over the readings of that   *)
(* device alone reports, whatever the other devices measured and when: no   *)
(* gap, flatline, filled value, bin or metric crosses devices (quality.py:  *)
(* 36, 95, cleaners.py:55, resampling.py:22, engine.py:26).                 *)
CleanedAlone(d) == NullifyTable(NormalizeTable(Of(d, raw)))
MeasureAlone(d) ==
    ComputeMetrics(ResampleTable(
        ApplyStrategy(CleanedAlone(d), config.strategy), config.freq), config.freq)
DevicesIndependent ==
    stage = "done" =>
        \A d \in Devices(raw) :
            /\ {m \in metrics : m.device = d} = MeasureAlone(d)
            /\ {g \in findings.gaps : g.device = d} = TimestampGaps(CleanedAlone(d))
            /\ {f \in findings.flatlines : f.device = d} =
                  Flatlines(CleanedAlone(d), SensorThreshold, FlatlineWindow)

(* Where the readings keep to a grid, the gaps account for every reading    *)
(* that is not there (quality.py:43-48).                                    *)
GapsAccountForMissing ==
    stage = "clean" =>
        \A d \in Devices(quality) :
            LET s == Ordered(Of(d, Readable(quality)))
                expected == ExpectedInterval(s)
                gaps == {g \in findings.gaps : g.device = d}
            IN Len(s) >= 2 /\ (\A diff \in Differences(s) : diff % expected = 0) =>
                 (Len(s) - 1 + MapThenSumSet(LAMBDA g : g.missing, gaps)) * expected
                   = s[Len(s)] - s[1]

(* A flatline is a stretch of equal readings without a break of cadence,    *)
(* long enough, that no such stretch contains; all of them are reported,    *)
(* once (quality.py:107-135).                                               *)
Flat(d, c, from, to) ==
    LET rows == {r \in Of(d, Readable(quality)) : r.v[c] # Null}
        within == {r \in rows : from <= r.ts /\ r.ts <= to}
        expected == ExpectedInterval(Ordered(rows))
    IN /\ \A r, q \in within : r.v[c] = q.v[c]
       /\ \A step \in Differences(Ordered(within)) : 2 * step <= 3 * expected
FlatStretches(d, c) ==
    LET times == {r.ts : r \in {q \in Of(d, Readable(quality)) : q.v[c] # Null}}
        flat == {p \in times \X times : p[1] < p[2] /\ Flat(d, c, p[1], p[2])}
    IN {p \in flat :
           /\ p[2] - p[1] >= Threshold(SensorThreshold[c], FlatlineWindow)
           /\ \A q \in flat : q[1] <= p[1] /\ p[2] <= q[2] => q = p}
FlatlinesAreMaximal ==
    stage = "clean" =>
        \A d \in Devices(quality), c \in Columns :
            LET found == {f \in findings.flatlines : f.device = d /\ f.column = c}
            IN /\ {<<f.start, f.end>> : f \in found} = FlatStretches(d, c)
               /\ Cardinality(found) = Cardinality(FlatStretches(d, c))

(* A device is measured exactly when it has a reading the strategy can use, *)
(* and a run is rejected only when no device has one (pipeline.py:84-93).   *)
(* One kind of run is lost although its readings are good: the frequency is *)
(* a unit alone and some device's readings fall into one bin (engine.py:89).*)
Usable(r, c) == r.v[c] \notin {Null, Bad} /\ Low[c] <= r.v[c] /\ r.v[c] <= High[c]
UsableDevices ==
    {r.device : r \in {q \in Readable(raw) :
        IF config.strategy = "drop" THEN \A c \in Columns : Usable(q, c)
        ELSE \E c \in Columns : Usable(q, c)}}
MeasuredWhenUsable ==
    /\ stage = "done" => {m.device : m \in metrics} = UsableDevices
    /\ stage = "rejected" => UsableDevices = {}
    /\ stage = "crashed" =>
          /\ ~config.numbered
          /\ \E d \in UsableDevices :
                Cardinality({Bin(r.ts, config.freq) :
                    r \in {q \in Of(d, cleaned) : HasValues(q.v)}}) = 1

(* cycle_count counts the starts seen in the window: together with the      *)
(* stops it makes up the changes of activity, and starts and stops alternate *)
(* from the first row's state to the last's (engine.py:106-109).            *)
CyclesAreStarts ==
    \A m \in metrics :
        LET rows == Of(m.device, resampled)
            On(r) == r \in Active(rows)
            changes == Quantify(rows, LAMBDA r :
                           \E p \in Previous(rows, r) : On(p) # On(r))
            Ends(ts) == Quantify(rows, LAMBDA r : r.ts = ts /\ On(r))
        IN 2 * m.cycle_count = changes + Ends(m.window_end) - Ends(m.window_start)

(* While most bins follow each other, gaps do not stretch the active time:  *)
(* every active bin counts for its own length (engine.py:87).               *)
GapsDoNotStretchTime ==
    \A m \in metrics :
        LET s == Ordered(Of(m.device, resampled))
        IN 2 * TimesSeen(s, config.freq) > Len(s) - 1 =>
             m.active_duration = m.active_rows * config.freq

(* No device is active for longer than its window ("Active time where       *)
(* `motor_speed > active_rpm_threshold`", README.md:613).                   *)
ActiveTimeFitsWindow ==
    \A m \in metrics :
        m.active_duration <= m.window_end - m.window_start + config.freq

(* A flatline is reported only when it lasts at least the greater of the    *)
(* request's window and the sensor's threshold ("Flatline detection uses    *)
(* the greater of", README.md:601).                                         *)
GreaterThresholdUsed ==
    \A f \in findings.flatlines :
        /\ f.end - f.start >= FlatlineWindow
        /\ SensorThreshold[f.column] # Null => f.end - f.start >= SensorThreshold[f.column]

(* Filling leaves nothing missing in a column that has a value              *)
(* ("forward-fill then backfill per device", README.md:571).                *)
FillLeavesNothingMissing ==
    stage = "resample" /\ config.strategy = "fill" =>
        \A d \in Devices(cleaned), c \in Columns :
            (\E r \in Of(d, cleaned) : r.v[c] # Null)
                => \A r \in Of(d, cleaned) : r.v[c] # Null
=============================================================================
