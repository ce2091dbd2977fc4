---------------------------- MODULE MetricStore ----------------------------
(***************************************************************************)
(* POST /stations/{id}/process on FastAPI's thread pool: any number of     *)
(* runs side by side, each reading the sensor database, computing metrics  *)
(* and saving them into the metric database, while new readings arrive.    *)
(* service/routes.py, service/orchestrator.py, storage/sqlite.py,          *)
(* ingestion/repositories/sqlite.py and metrics/engine.py; one station.    *)
(*                                                                         *)
(* What a metric's value is belongs to StationPipeline: here it stands for *)
(* the readings and the threshold it was computed from.                    *)
(***************************************************************************)
EXTENDS Integers, FiniteSets, FiniteSetsExt

CONSTANTS
    Runs,          \* the requests of an instance
    Requests,      \* [from, to, freq, strategy, threshold] they may carry
    Measurements,  \* readings the sensor database may get: [device, ts]
    Incomplete,    \* those missing some value once validated
    Worthless,     \* those left without any
    Metrics,       \* the metrics of a device
    OffsetText     \* whether the sensor database writes timestamps with an offset

ASSUME StoreAssumption ==
    /\ \A q \in Requests : q.from \in Nat /\ q.to \in Nat /\ q.from < q.to
                           /\ q.freq \in Nat \ {0}
                           /\ q.strategy \in {"drop", "fill", "interpolate"}
    /\ \A x \in Measurements : x.ts \in Nat
    /\ Worthless \subseteq Incomplete /\ Incomplete \subseteq Measurements
    /\ Requests # {} /\ Metrics # {} /\ IsFiniteSet(Metrics)
    /\ OffsetText \in BOOLEAN /\ IsFiniteSet(Runs)

VARIABLES
    readings,  \* the sensor database
    table,     \* the metric database: key -> [readings, threshold, run, computed_at]
    pc,        \* where each run is, or how it was answered
    req,       \* its request
    snapshot,  \* the readings it works on
    stamp,     \* its computed_at
    clock,     \* the next computed_at
    earlier    \* history: the runs that had been answered when it began

storeVars == <<readings, table, pc, req, snapshot, stamp, clock, earlier>>

InProgress == {"fetch", "metadata", "clean", "compute", "save", "respond"}
Answered == {"200", "404", "422", "500", "503"}

StoreInit ==
    /\ readings = {} /\ table = [k \in {} |-> {}]
    /\ pc = [r \in Runs |-> "new"]
    /\ req = [r \in Runs |-> CHOOSE q \in Requests : TRUE]
    /\ snapshot = [r \in Runs |-> {}] /\ stamp = [r \in Runs |-> 0]
    /\ clock = 1 /\ earlier = [r \in Runs |-> {}]

Goto(r, label) == pc' = [pc EXCEPT ![r] = label]

(* Something else writes the sensor database. *)
NewReading ==
    /\ \E x \in Measurements \ readings : readings' = readings \cup {x}
    /\ UNCHANGED <<table, pc, req, snapshot, stamp, clock, earlier>>

Begin(r) ==
    /\ pc[r] = "new" /\ Goto(r, "fetch")
    /\ \E q \in Requests : req' = [req EXCEPT ![r] = q]
    /\ earlier' = [earlier EXCEPT ![r] = {s \in Runs : pc[s] \in Answered}]
    /\ UNCHANGED <<readings, table, snapshot, stamp, clock>>

(* Mutant of InWindow: the end belongs to the window. *)
InWindowInclusive(x, q) == q.from <= x.ts /\ x.ts <= q.to

(* Both ends are compared as text: a stored "...T06:00:00+00:00" comes      *)
(* after the bound "...T06:00:00", so the end is left out of the window     *)
(* when the database writes offsets.                                        *)
InWindow(x, q) ==
    q.from <= x.ts /\ (x.ts < q.to \/ (x.ts = q.to /\ ~OffsetText))

FetchReadings(r) ==
    /\ pc[r] = "fetch"
    /\ LET found == {x \in readings : InWindow(x, req[r])}
       IN /\ snapshot' = [snapshot EXCEPT ![r] = found]
          /\ Goto(r, IF found = {} THEN "404" ELSE "metadata")
    /\ UNCHANGED <<readings, table, req, stamp, clock, earlier>>

FetchMetadata(r) ==
    /\ pc[r] = "metadata" /\ Goto(r, "clean")
    /\ UNCHANGED <<readings, table, req, snapshot, stamp, clock, earlier>>

(* The rows of a snapshot that cleaning and resampling leave something of:  *)
(* the complete ones when the others are dropped, and else filled ones too, *)
(* after a value of the same device.                                        *)
Kept(rows, strategy) ==
    IF strategy = "drop" THEN rows \ Incomplete
    ELSE {x \in rows : \E y \in rows \ Worthless : y.device = x.device /\ y.ts <= x.ts}

Clean(r) ==
    /\ pc[r] = "clean"
    /\ Goto(r, IF Kept(snapshot[r], req[r].strategy) = {} THEN "422" ELSE "compute")
    /\ UNCHANGED <<readings, table, req, snapshot, stamp, clock, earlier>>

(* computed_at is taken here, long before the results are saved. *)
Compute(r) ==
    /\ pc[r] = "compute" /\ Goto(r, "save")
    /\ stamp' = [stamp EXCEPT ![r] = clock] /\ clock' = clock + 1
    /\ UNCHANGED <<readings, table, req, snapshot, earlier>>

-----------------------------------------------------------------------------
(* The primary key of metric_results: the window is that of the bins that   *)
(* have data, not the one requested, and thresholds are no part of it.      *)
Bin(ts, freq) == ts - (ts % freq)

Key(device, metric, rows, q) ==
    [device |-> device, metric |-> metric,
     window_start |-> Bin(Min({x.ts : x \in rows}), q.freq),
     window_end |-> Bin(Max({x.ts : x \in rows}), q.freq),
     freq |-> q.freq, strategy |-> q.strategy]

KeptOf(r, device) == {x \in Kept(snapshot[r], req[r].strategy) : x.device = device}

KeysOf(r) ==
    {Key(d, m, KeptOf(r, d), req[r]) :
        d \in {x.device : x \in Kept(snapshot[r], req[r].strategy)}, m \in Metrics}

Row(r, k) == [readings |-> KeptOf(r, k.device), threshold |-> req[r].threshold,
              run |-> r, computed_at |-> stamp[r]]

(* Mutant of Upserted: ON CONFLICT DO NOTHING. *)
InsertedIfAbsent(r, keys) ==
    [k \in DOMAIN table \cup keys |-> IF k \in DOMAIN table THEN table[k] ELSE Row(r, k)]

(* INSERT ... ON CONFLICT DO UPDATE, for some of the results. *)
Upserted(r, keys) ==
    [k \in DOMAIN table \cup keys |-> IF k \in keys THEN Row(r, k) ELSE table[k]]

(* One transaction. *)
Save(r) ==
    /\ pc[r] = "save" /\ Goto(r, "respond")
    /\ table' = Upserted(r, KeysOf(r))
    /\ UNCHANGED <<readings, req, snapshot, stamp, clock, earlier>>

Respond(r) ==
    /\ pc[r] = "respond" /\ Goto(r, "200")
    /\ UNCHANGED <<readings, table, req, snapshot, stamp, clock, earlier>>

(* Mutant of StorageFails: each row is committed on its own. *)
StorageFailsHalfway(r) ==
    /\ pc[r] \in {"fetch", "metadata", "save"}
    /\ Goto(r, "503") \/ (pc[r] = "fetch" /\ Goto(r, "500"))
    /\ IF pc[r] = "save"
       THEN \E keys \in SUBSET KeysOf(r) : table' = Upserted(r, keys)
       ELSE UNCHANGED table
    /\ UNCHANGED <<readings, req, snapshot, stamp, clock, earlier>>

(* A database cannot be read or written, a locked one included: sqlite3.Error *)
(* becomes StorageError, 503, and the transaction is rolled back.  When the   *)
(* query for the readings fails, pandas raises a DatabaseError of its own in  *)
(* its place, which nothing catches: 500.                                     *)
StorageFails(r) ==
    /\ pc[r] \in {"fetch", "metadata", "save"}
    /\ Goto(r, "503") \/ (pc[r] = "fetch" /\ Goto(r, "500"))
    /\ UNCHANGED <<readings, table, req, snapshot, stamp, clock, earlier>>

(* The process is killed and started again: the databases stay, the runs    *)
(* in progress are gone.                                                    *)
Restart ==
    /\ \E r \in Runs : pc[r] \in InProgress
    /\ pc' = [r \in Runs |-> IF pc[r] \in InProgress THEN "lost" ELSE pc[r]]
    /\ UNCHANGED <<readings, table, req, snapshot, stamp, clock, earlier>>

RunStep(r) ==
    \/ FetchReadings(r) \/ FetchMetadata(r) \/ Clean(r) \/ Compute(r)
    \/ Save(r) \/ Respond(r) \/ StorageFails(r)

StoreNext == NewReading \/ Restart \/ \E r \in Runs : Begin(r) \/ RunStep(r)

StoreSpec == StoreInit /\ [][StoreNext]_storeVars
-----------------------------------------------------------------------------
(* The metrics of a device, window and configuration always come from one   *)
(* run, whatever runs save at the same time: no query mixes the metrics of  *)
(* two computations (sqlite.py:81-83).                                      *)
MetricsOfOneRun ==
    \A k \in DOMAIN table, m \in Metrics :
        LET other == [k EXCEPT !.metric = m]
        IN other \in DOMAIN table /\ table[other].run = table[k].run
                                  /\ table[other].readings = table[k].readings

(* What readers of the table are promised: see Publication.                 *)
Progress(label) ==
    CASE label = "respond"            -> "published"
      [] label = "200"                -> "ok"
      [] label \in Answered \ {"200"} -> "failed"
      [] label = "lost"               -> "lost"
      [] OTHER                        -> "open"
Promise == INSTANCE Publication WITH
    shown <- table, status <- [r \in Runs |-> Progress(pc[r])]

(* The results of a run appear at once, for all its devices, before it is   *)
(* answered with 200; what failed or was lost before that left nothing      *)
(* behind, whatever other runs save meanwhile (sqlite.py:80-85).            *)
KeepsPublication == Promise!PublicationSpec

(* An acknowledged result is never lost to an older run: its row is there,  *)
(* through restarts too, and holds nothing computed by a run that had been  *)
(* answered before it began.  Only a run at the same time can replace it    *)
(* with an older computation (orchestrator.py:44-47).                       *)
NewestUnlessConcurrent ==
    \A r \in Runs : pc[r] = "200" =>
        \A k \in KeysOf(r) :
            k \in DOMAIN table /\ table[k].run \notin earlier[r]

(* "reprocessing the same window/config cleanly overwrites prior results"   *)
(* (README.md:743): once a run is answered, no row of an earlier run with   *)
(* the same request is left for the devices it measured.                    *)
ReprocessingOverwrites ==
    \A r \in Runs : pc[r] = "200" =>
        \A k \in DOMAIN table :
            LET s == table[k].run
            IN s \in earlier[r] /\ req[s] = req[r] =>
                 k.device \notin {j.device : j \in KeysOf(r)}
=============================================================================
