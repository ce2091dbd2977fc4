# EcoPlant: a verification development

TLA+ models of the compressed-air monitoring platform in this repository, the
TLC configurations that check them, and theorems that TLAPS checks: every safety
property of the runs that pass is proved for all values of the constants. File
references are relative to the repository (`src/` of this
development); `ap/` stands for `src/air_platform/`.

## 1. The system

| Part | Code | State it keeps | Operations |
|---|---|---|---|
| Event producer | `producer.py` | thread, stop event, cursor, batch, counter, error | `start`, `stop`, replay of the database in batches with sleeps, shuffles and injected errors, sentinel at the end |
| Launcher | `run_with_producer.py`, `ap/bootstrap/container.py` | the shared bounded queue | wires one producer to the consumer of the application |
| Queue transport | `ap/transport/` | the queue, a sticky "sentinel received" flag | `receive`, `receive_blocking`, `size`; `ack` and `reject` do nothing |
| Consumer runner | `ap/ingestion/consumer.py` | thread, stop event | `start_background`, `stop`, `run_loop`, `run_until_empty` |
| Event handler | `ap/ingestion/handler.py`, `parser.py` | bounded cache of event ids | parse, skip duplicates, map, upsert an hour and a day bucket per metric |
| Status, errors, aggregates | `ap/repositories/` | counters, watermark, depth, running flag; the last errors; buckets | one locked operation each |
| Ingestion pipeline | `ap/ingestion/pipeline.py` and the modules it calls | none | fetch, validate, nullify, assess, clean, resample |
| Metrics engine | `ap/metrics/engine.py` | none | seven metrics per device |
| Metric store | `ap/storage/sqlite.py` | the table `metric_results` | upsert of a run's results, queries |
| Service | `ap/service/` | lazily built services | `POST /stations/{id}/process` on a thread pool, read-only routes, LLM routes |
| LLM provider | `ap/llm/openai_provider.py` | none between calls | calls with retries, back-off and typed errors |
| LLM use cases | `ap/llm/use_cases.py` | none between requests | summary, natural-language query, quality report |

How they interact. The producer's thread puts events into the queue and the
consumer's thread takes them out, through two locks and a stop event on either
side; anyone may also call `run_until_empty` from a thread of their own. The
handler writes the aggregate, status and error repositories, each under its
own lock, so other threads see the states in between. Independently of that,
any number of requests run the batch path side by side: they read the sensor
database while others write it, compute on their own copy, and meet in the
upsert of the metric store. The LLM routes read the metric store or run the
pipeline, and call a provider that may fail at any time.

What is hard here: starts and stops that race with the end of the stream and
with joins that time out; the sentinel, which is an item of the queue and a
flag that is never reset; duplicates against a bounded cache; several counters
that have to agree without a common lock; eviction while late events arrive;
UTC offsets; runs that overlap, fail half-way or are killed; definitions
of gaps, flatlines, cycles and intervals at their boundaries; retries.
`PROJECT.json` lists every hazard at its line with the properties aimed at it.

What makes each part correct: the producer loses nothing and ends its stream;
the consumer settles every event exactly once and ends when, and only when, it
should; the repositories agree with each other; an aggregate is the summary of
the points of its bucket; a pipeline run neither looks ahead nor across
devices and its report adds up; stored metrics are never a mix of runs nor
replaced by an older one; a failing provider never costs the caller the data.

## 2. Modules

```
SharedQueue ---- Settlement               abstract: every message settled once
   |    \             ^
   |     StreamConsumer        AggregateStore       StationData
SensorProducer   |                   |                  |
        \        |            EventAggregation    StationPipeline
         EventStream  ---- implements Settlement

Publication                abstract: a run's results appear at once or never
     ^
MetricStore -- MetricQueries          LLMProvider -- LLMUseCases
```

The modules with theorems, each over the one to the left of it:

```
EventStream -- EventStreamSafety -- EventStreamVerdicts
                              \---- EventStreamEnding
EventAggregation -- EventAggregationProofs  \
MetricQueries ----- MetricStoreProofs        |  all of them with SetLemmas
LLMUseCases ------- LLMUseCasesProofs        |
StationPipeline --- StationPipelineProofs   /
```

`MC*` modules only give values to constants that a cfg file cannot write.
Definitions commented as "Mutant of X" are broken variants of X; each property
is violated when its mutant takes the place of the original.

**SharedQueue** is `queue.Queue(maxsize)`: a sequence of messages and
sentinels, a put that blocks while it is full and a get. A message is its id,
its timestamp (0 for none) and a *kind*, which says what the steps of
`EventHandler.handle` make of its payload: a reading, an event without usable
values, a payload that is not an event, one of wrong types, one whose
timestamp cannot be read, one whose number overflows a float.

**SensorProducer** is the thread of `SensorEventProducer`: one action per step
between two accesses to what other threads see. `ppc` is the place in
`_produce`, `_publish_batch` or the `finally` clause, `resume` the place
`_publish_batch` returns to. Shuffling is any reordering; the time slept is not
modelled, that the accumulated batch is published before it is. Failures: the
connection (before the `try`), and the query, a fetch or a row (inside it).
Putting the sentinel (`PutSentinel`) and the end of the thread (`ProducerEnds`)
are two steps: in between `is_alive()` still holds, `start` is refused, and the
consumer may already have taken the sentinel and left.

**StreamConsumer** is `ConsumerRunner` with all it calls. `pc[t]` is the place
of two threads, `loop` (the background thread) and `drain` (a caller of
`run_until_empty`); `mpc` that of the caller of `start_background` and `stop`.
Each locked repository call is one step, and what the code does between two of
them is not atomic: the queue size is read in one step and stored in another,
the hour bucket is written before the day bucket, the duplicate check and the
insertion of the id are apart. The handler's cache `seen` keeps the order of
insertion, and a duplicate does not refresh its place.

**EventStream** puts both and an external source of messages side by side and
states the properties. `KeepsPromise` says that the whole implements
**Settlement** under the mapping: a worker's hand is the message of a thread
that is past the get and not yet settled, the tally is the three counters.
`Health` is what `GET /health` says of the producer.

**AggregateStore** and **EventAggregation** are the aggregates in detail: what
the upserts of `_process_reading` compute, one step each. `data` is a sequence
because a dict iterates in insertion order and `min()` takes the first of
several oldest buckets; eviction comes after insertion and may hit the entry
just inserted. `points` and `evicted` are history. `Query` is the windowed
query of `GET /metrics/stations/{id}`; it holds the lock, so it is a function
of the state, and the upserts of an event are steps between which it may fall.

**StationData** holds the algorithms of validation, cleaning, quality and
resampling as operators on tables (sets of rows). **StationPipeline** is the
stage machine of `IngestionPipeline.run` around them, followed by
`MetricsEngine`; `stage` is the stage that is next, and ends in `done`,
`not_found`, `rejected` or `crashed` (an exception nobody catches, answered
with 500). `Summary` is the response of `POST /stations/{id}/process`. Times
are minutes and values integers chosen so that every mean and interpolation of
an instance is an integer.

**MetricStore** is the concurrency of `POST /stations/{id}/process`: `pc[r]` is
the place of each run or the status it was answered with. The value of a
metric is represented by the readings and the threshold it was computed from;
the key is that of the table, with the window of the bins that had data.
A reading may lack some values (`Incomplete`, which `dropna` drops) or all
(`Worthless`, which has nothing to be filled from either). Any run can fail at
each database access: with 503 where the repository turns `sqlite3.Error` into
`StorageError`, and with 500 as well where pandas runs the query, as its own
`DatabaseError` passes that `except`. `Restart` kills all runs in progress
while the databases stay. `computed_at` is taken in `Compute`, long before
`Save`. **Publication** is what it promises to readers of the table: the rows
of a run appear in one step, whole devices at a time, before it is answered
with success; nothing else changes the table. `KeepsPublication` maps the
labels of a run to five states.

**MetricQueries** adds the readers: `Found` is the SELECT behind
`GET /metrics`, the station summary and natural-language queries, `Aggregate`
what `_aggregate` makes of the rows. A query is one statement on one state of
the table, so it is an operator, not an action; the properties quantify over
all queries in every state.

**LLMProvider** is `_with_retry` around one SDK call, **LLMUseCases** the
routes and use cases around it: validation of the window, the guards of a
natural-language query, the fetch, the phrasing, the response; and
`GET /metrics`, which shares the validation and the fetch and needs no key.

## 3. Runs

| Run | Question | Instance |
|---|---|---|
| `StreamPipeline` | Is anything lost between producer and consumer, does the loop end only when it should, is `consumer_running` honest, is there ever a second loop thread, can a truncated stream look complete, does everything end that should? | three rows (a batch of two, then a gap), a queue of two, two starts, stops at any point, joins that time out, connection and read failures; fairness; 107 000 states |
| `StreamShared` | Is every message settled once, do counters, errors, watermark and buckets agree, is a repeated event aggregated once, when does `run_until_empty` keep its word, is Settlement implemented? | three external messages out of four of two ids (a reading, one without values, one that overflows, a malformed one), in every order, a loop and a drain, an id cache of two, an error list of one; 1.95 million states |
| `Aggregation` | Is an aggregate the exact summary of its points, what may eviction cost, and does a query count the events of its window? | five events out of six (two devices, two metrics, three clocks, late, missing and out of range), eight buckets, every query over the bucket starts around them; 37 000 states |
| `Pipeline` | Do the algorithms match their definitions, does the report add up, which runs are lost? | every table of one device over six minutes with three readings (on, off, empty), every table of two devices with malformed and out-of-range values and unreadable timestamps, three strategies, two frequencies and a unit alone; 450 000 states |
| `Store` | Can results be mixed, lost, left half-written, not found, or counted twice? | two runs (symmetric); four requests: two windows side by side, one over both with another strategy and threshold, one that starts within a bin; four readings of two devices that arrive at any time, one worthless and one incomplete; failures and restarts; every query over five instants; 115 000 states |
| `UseCases` | Does a failing provider cost data, is the budget of attempts kept, is a query ever broadened? | four kinds of request, every outcome of up to eight attempts per call, both forms of a window, every structured query; 483 000 states |

The bounds are enough in this sense. *Streaming*: two events and a sentinel
suffice for each order of items, a queue of two is full and empty in the same
behaviour, two starts include every overlap of a start with an old thread, and
three deliveries are the fewest that come back to an id after another one. Of the kinds
that fail, a malformed message stands for those rejected before the duplicate
check and an overflowing one for those rejected after it; the wrong-type and
bad-time kinds take the same branches and are covered by the proofs only.
*Aggregation*: an event of both metrics fills four buckets, so the third event
passes eight; two events of one clock leave room for exact queries.
*Pipeline*: six minutes hold two gaps, or a gap inside a flatline, or two
cycles. *Store*: two runs are what it takes to overwrite, to interleave, to
leave rows side by side and to be adjacent; what holds of three and more is
proved (section 5). *UseCases*: the back-off reaches its cap at the sixth
retry.

Bounds named in the guards: `MaxRuns`, `MaxStarts`, `MaxDrains`,
`MaxExternal` (calls from outside), `MaxEvents`, the set `Runs`.

`CHECK_DEADLOCK FALSE` is set where the system may stop: a stream that has
ended and is not started again, a run or a request that has been answered, the
last event. A producer waiting for room that nobody makes is a legitimate
stop for the same reason; what must go on is stated by the liveness properties.

**Fairness** is assumed only in `StreamPipeline`, and only for threads that are inside the
code: the producer's thread, the loop thread, a caller of `run_until_empty`,
and the second half of `start_background` and `stop`. Each is weak fairness:
the operating system runs a thread that can run, `receive_blocking` and `join`
return after their timeouts. Calls from outside (a start, a stop, a put) are
never owed. No fairness is assumed between a blocked put and other puts; the
liveness properties are stated for one source.

**Violation runs.** Each checks one statement made by a comment or a document,
which the code does not keep:

| Run | What the code does |
|---|---|
| `SentinelOnEveryExit` | `producer.py:159` "Always sends a sentinel (None) on exit": not when `sqlite3.connect` raises, which is before the `try`. |
| `StartedMeansConsuming` | `consumer.py:74` "Already running": after a stop whose join timed out, `start_background` returns and the thread it found then obeys the old stop event. Nobody consumes. |
| `FillLeavesNothingMissing` | README:571 "forward-fill then backfill": the code only fills forward. |
| `ActiveTimeFitsWindow` | README:613 active time: the upper median of the distances between bins stands for the length of every bin, so a device with gaps can be active for longer than its window. |
| `ReprocessingOverwrites` | README:743 "reprocessing the same window/config cleanly overwrites prior results": the key holds the window of the data, which moves as readings arrive; the old rows stay. |
| `GreaterThresholdUsed` | README:601 "Flatline detection uses the greater of" the request's window and the sensor's threshold: the code uses the sensor's when there is one (`quality.py:115`), so a longer window has no effect. |

Further statements hold under a condition only, and are checked under it:
`EndsOnlyAfterSoleRun` (the loop ends only when the producer has put its
sentinel and the queue is empty; not when a producer is started a second time,
as the sentinel flag is never reset),
`ProcessesAllAlone` (`run_until_empty` leaves nothing; not with a sentinel
ahead of other messages or another thread processing one), and `AggregatedOnce`
(a replay cannot inflate aggregates; not when the id has left the cache, nor
once `run_until_empty` was called, as two threads can hold two deliveries). `ProducerStopsWhileConsumed` has the condition
that the consumer runs, as a blocked put does not look at the stop event.
`ConsumerStops` says that a loop told to stop ends after at most one more
message, however many are queued or arrive meanwhile; it leaves out callers of
`run_until_empty`, whose messages it could not tell from the loop's.
`ProcessedIsFound` needs a window that starts where a bin does: otherwise the
label of a lone bin lies before the start, and the summary of a window that
has just been processed says it has no metrics. `AlignedQueriesAreExact` needs
bounds on bucket starts, one UTC offset and no eviction: a window that starts
within a bucket leaves that bucket out. `SuccessMeansAggregated` needs ids that
name events (`IdsNameEvents`): the duplicate check compares ids only, so a
reading that shares the id of an event without values is skipped.

Two conditions were found too weak by their proofs, and TLC then showed the
counterexample. Windows that *meet* are disjoint only if the end is left out,
which a database that writes no UTC offsets does not do (`OffsetText`): rows of
[0, 2] and [2, 4] both hold a reading at 2, and a sum counts it twice;
`DisjointWindowsCountOnce` therefore has `Apart`. And rows of disjoint windows
can still end in one bin, when a window starts within it: both rows then carry
the same `window_end`, the SELECT puts the one that starts first ahead, and
`max(key=window_end)` takes that. `LatestIsNewest` therefore asks that no bin
is in two of the windows (`TiledByBins`).

**Observations** that no run of its own states. A `resample_frequency` that is
a unit alone ("min", "h") passes `validate_resample_frequency` and works, unless some
device has a single resampled row: `pd.to_timedelta` raises on it and the
request for the whole station ends with 500 (`ComputeCrashes`;
`MeasuredWhenUsable` says it is the only such loss). A window with one naive
and one aware end raises TypeError where the two are compared
(`schemas.py:179`, `use_cases.py:275`), which nothing catches: 500. A query whose
`start_time` is fine and whose `end_time` is unreadable is answered with a
clarification that names `start_time` (`use_cases.py:256`).

## 4. Modelling decisions

- `_events_produced` is reset by `start`, so `Conserved` is stated for one run.
- The ids of a producer's events are drawn per run and never repeat (uuid4).
- A failing upsert (`EventProcessingError`) cannot happen with the in-memory
  repository and is left out, as are `ack` and `reject`.
- `mpc` is one caller of `start_background` and `stop`, the lifespan of the
  application; two concurrent callers of them do not occur in the code.
- The stored `avg` is `total / count` at each update and left out.
- Percentages of the quality report are kept as counts; wording, warnings,
  metadata, logging and prompts are left out. Floats are integers.
- The text comparison of timestamps in the sensor repository is modelled by
  what it does to the end of the window (`OffsetText`).
- A table of readings has no two rows of one device with the same readable
  time, and at most one whose time cannot be read (`IsTable`). The sensor
  table has no such constraint, so this is a limit of the model: what
  duplicated timestamps do to intervals and cycles is not covered.
- Validation of a structured answer happens inside the SDK; its error is
  modelled as the code's `except` clauses treat it. The SDK's client retries
  on its own as well (its default `max_retries`); one attempt of `LLMProvider`
  is one call of the client, whatever it does inside, so `BudgetSpent` counts
  the attempts of `_with_retry` and not the requests sent.
- `GapsAccountForMissing` is about readings on a grid, where the number of
  missing intervals is exact. `RoundedQuotient` rounds halves to even, as
  Python does, but what that does off the grid is the subject of no property.

## 5. Theorems

Every invariant, action property and refinement that a passing run checks is
also a theorem, for all values of the constants under the assumptions the
modules name. Only the three liveness properties are model-checked alone.

**The streaming path** (`EventStream!Spec`), for every queue size, batch size,
database, set of external messages, cache and list size and number of starts,
drains and runs. The assumptions (`QueueMaxAssumption`, `SentinelAssumption`,
`ProducerAssumption`, `ConsumerAssumption`, `ExternalAssumption`) say only that
these are numbers, sequences and sets of the right kind; that joins return is
not assumed.

| Theorem | Property | Argument |
|---|---|---|
| `TypeCorrect` | TypeOK | Inductive. Beyond types it says that the producer reads a row and puts an event only where there is one, without which `Rows[row]` and `Head(out)` would be undefined. |
| `NoSecondLoop` | OneLoopThread | Inductive with TypeOK: between the check of `is_alive` and the spawn only `main` could create a thread. |
| `EveryEventAccounted` | Accounted | Inductive with TypeOK: each step of a thread moves its message along, or moves one unit from "in flight" to one counter. |
| `RunningFlagHonest` | RunningMeansAlive | Needs OneLoopThread: the flag is set before the spawn, and the thread that clears it must be the one started last. |
| `ItemsConserved` | Conserved | Strengthened by "nothing was produced, and no sentinel put, before the first run", as a run resets the counter. |
| `ErrorsListed` | ErrorsMatchCounters | `ErrorsInv` counts the pending errors thread by thread instead of by a cardinality; needs OneLoopThread, as a spawn resets a thread's label. |
| `SettlementKept` | KeepsPromise | `VerdictsDeserved`: a thread at `hour` or `day` holds a reading, and one at `error` or `settle` a verdict its message allows. Every action is then one of Settlement's or leaves queue, hands and tally alone. |
| `WatermarkHonest` | WatermarkCoversAggregates | `HeldIsCovered`: a message past `consume` is covered already, so its upsert is too; the watermark never goes back. |
| `BucketsInStep` | BucketsAgree | `BucketsInv`, the same for every number that may be an id; `AppendCounts` says how an upsert changes the number of occurrences of an id. |
| `SuccessIsCounted` | SuccessMeansAggregated | `OriginInv` follows a message from where it comes (External, or an id the producer drew) through batch, queue and hands, so that an id names what it stands for. `CountedInv`: the cache only remembers readings that are in both aggregates, and a thread on its way through them has done the ones behind it. Eviction from the cache is harmless here. |
| `NothingCountedTwice` | AggregatedOnce | `OnceInv`: with one thread and room for all ids (`FitsCache`) the cache repeats none and forgets none (`NothingForgotten`, by counting), what is aggregated is in it or about to be, and what is on its way to the aggregates is not. |
| `LoopEndsLast` | EndsOnlyAfterSoleRun | `EndingInv`: a thread that leaves was told to or has seen a sentinel; the sentinel of a sole run is the last item of the queue, and after it the producer is at `ending` or `idle`, where it puts nothing. |
| `EndedMeansDrained` | StreamDrained | From `EndingInv` (the sentinel was taken, nothing is queued, the last depth read was 0), RunningMeansAlive and Conserved. |
| `TruncationReported` | TruncationExplained | `RowsAccounted`: until an error or a stop, what is counted, in hand, in the batch and not yet read are all the rows. |
| `AvailableProcessed` | ProcessesAllAlone | `AloneInv`: the goal, a length taken at the call, never exceeds what is consumed, in hand and queued, and `run_until_empty` leaves only when the last two are nothing. |

**The aggregates** (`EventAggregation!AggSpec`), for every set of events,
metrics, bucket count and tick lengths where a day is whole hours, under
`AggregationAssumption` and `MaxBucketsAssumption`. `AggInv` is inductive: the
points come in twins, an hour and a day bucket (`Paired`, the reason for
keeping what is still to do in it); every key that was never evicted has the
exact summary of its points (`Exact`); an entry never exceeds that summary,
evicted or not (`Bounded`); and it lies in its bucket.

| Theorem | Property | Argument |
|---|---|---|
| `AggregatesStayExact` | AggregatesAreExact | From `AggInv`. The summary of one more point is the updated summary, and an entry that comes back after its eviction starts below it. |
| `QueriesStayExact` | AlignedQueriesAreExact | The points of a query are split by series and start of their bucket, and the sum over the parts is the sum over the whole (`SumByParts`); an aligned bound selects buckets and points alike (`QueryBounds`). |
| `LatestStaysInside` | LatestInBucket | The division behind `FloorToBucket`: a bucket starts at or before its points and ends after them, UTC offsets included. |
| `OldestGoesFirst` | OldestLeavesFirst (action property) | What an insertion evicts is the minimum over all starts, the new one's included. |

**The batch run** (`StationPipeline!PipelineSpec`), for every schema, range,
table, threshold and frequency, under `SchemaAssumption` and
`PipelineAssumption` (finitely many columns, values that are integers, missing
or malformed, and tables as section 4 says). `RunsAsStaged` proves the
inductive invariant `RunInv`: after each stage its table is the function of the
raw table that the stages before it make up, the report holds the counts of
those tables, and a run that ended did so for its stage's reason. What remains
of each property is then about one table:

| Theorem | Property | Argument |
|---|---|---|
| `FillKeepsTime` | FillIsTimeFaithful | The values known before an instant are the same in the whole and in its beginning. |
| `EmptyRowsSayNothing` | EmptyRowsChangeNothing | A row without values is known in no column, so it is never the latest nor the earliest of what is known. |
| `UsableIsMeasured` | MeasuredWhenUsable | Usable values are those that survive both rewritings (`InRangeUsable`); each strategy keeps a device that has them, and a bin with a value has a mean. |
| `DevicesStayApart` | DevicesIndependent | Each stage commutes with taking the rows of one device (`DeviceKept`, `DeviceBinned`); a gap or a flatline is found from the rows of its device only (`DeviceAlone`). |
| `ActiveTimeIsBinned` | GapsDoNotStretchTime | `Ordered` is determined by ranks (`Ranks`, `OrderedFacts`); no step between bins is shorter than the frequency, so the upper median is the frequency as soon as most are equal to it. |
| `ReportsAddUp` | ReportAddsUp | A missing value was absent, malformed or out of range, and only one of them (`MissingExplained`); sums over columns add up; a stage never makes rows (`ImageSize`); windows of the devices span the whole. |
| `CyclesAreCounted` | CyclesAreStarts | "The row before" is a bijection from all rows but the first to all but the last, so active rows counted at either end differ by the ends only (`PreviousFacts`, `StartsAndStops`). |
| `GapsAreComplete` | GapsAccountForMissing | On a grid each step is a multiple of the expected interval, `RoundedQuotient` is exact there, and the steps telescope (`GridAddsUp`). |
| `FlatlinesAreComplete` | FlatlinesAreMaximal | Two positions have one `RunId` exactly when nothing changes and nothing breaks between them (`SameRun`); so a run is the largest such stretch around each of its positions (`RunBounds`), which on the timestamps is a flat stretch (`StepsBetween`, `FlatIsCalm`), and two issues of one start are one. |

**The metric store** (`MetricStore!StoreSpec`, with the queries of
`MetricQueries`), for every set of runs, requests, readings and metrics, under
`StoreAssumption` and `QueriesAssumption` (numbers of the right kind, a finite
set of runs and metrics, at least one request and one metric).

| Theorem | Property | Argument |
|---|---|---|
| `NeverOlder` | NewestUnlessConcurrent | `RowsAreNewest`: it holds from the save on, and stays, because the runs a run knows as earlier have been answered (`EarlierAnswered`) and so never save again; whoever else overwrites its rows is not one of them. |
| `StorePublishes` | KeepsPublication | `StoreInv`: a run at `save` has readings that cleaning keeps (`SomethingKept`), and its keys are closed under metrics (`KeysAreWhole`), so a save shows at least one device, and each whole. Failures and restarts leave the table alone. |
| `NeverMixed` | (MetricsOfOneRun, checked by no run) | Follows from Publication alone: whole devices are replaced by whole devices. |
| `StoredIsFound` | ProcessedIsFound | The keys of an answered run are in the table, whoever saved them last (NewestUnlessConcurrent), and the labels of its bins lie in the window it asked for when that starts where a bin does. |
| `SummedOnce` | DisjointWindowsCountOnce | `QueriesInv`: a row is what its run computed of readings its window asks for, so rows of windows that are `Apart` share none, and disjoint finite sets add up (`DisjointSizes`). |
| `LatestHoldsNewest` | LatestIsNewest | With no bin in two windows the rows' `window_end` and `window_start` are ordered as the windows are, hence as the readings. |

**The LLM layer** (`LLMUseCases!UCSpec`), for every number of retries and set
of instants (`RetriesAssumption`, `UseCasesAssumption`). `UCInv` is inductive:
a call that gave up did so at its last attempt with that attempt's failure
(`ProviderInv`), data in hand is never dropped (`DataInv`), and a query past
its guards is complete (`NarrowInv`). From it: `TimeoutsToldApart`
(ErrorTellsLastFailure), `DataGoesOut` (DataSurvivesTheLLM), `QueriesStayNarrow`
(NeverBroadens). `BudgetKept` (BudgetSpent) has `BudgetInv`: before attempt k
the sleeps are k - 1, each of its own back-off; `PowerOfTwo` doubles, so they
never shrink, not even by jitter, nor pass the cap.

How the proofs are built. The initial condition and each action are separate
steps; a lemma per component (`...Producer`, `...Consumer`) has one step per
action. **SetLemmas** has what several of them need: minimum and maximum of a
finite set of integers, sums over finite sets (`MapThenSumSet` as a measure
that exists, is unique, splits over parts and follows a bijection), sizes of
images and of disjoint unions. The folds and the recursive functions
(`PointsOf`, `PowerOfTwo`) are given by `CHOOSE`, so each is shown to exist and
to be unique; induction is by the smallest counterexample (`SmallestNumber`,
`SmallestSubset`), as an induction theorem over operators is out of the
provers' reach. Two definitions are written for this: `PointsOf` filters by a
recursive function, `PowerOfTwo` takes the place of `2^k`.

Only model-checked: `StreamEnds`, `ProducerStopsWhileConsumed` and
`ConsumerStops`, as fairness and ENABLED are beyond the prover; and the six
statements of the violation runs, which are false.

## 6. Not modelled

The schema loader and settings are parsed once and their results are
constants. Prompts and response models copy text and fields. The services
built lazily on `app.state` are interchangeable, so a lost race costs only work
done twice. `GET /processing/status` and `GET /processing/errors` return the
state of one repository, copied under its lock, and have no action: every state
of the model is a state they may show. The SQLite file format, HTTP and the
thread pool itself are the environment.

## 7. Plan

Done, in this order: SharedQueue, SensorProducer, StreamConsumer, EventStream;
Settlement; the aggregates; MetricStore; the pipeline; the LLM layer; the
proofs of the streaming path; MetricQueries, the queries of the aggregates,
`GET /metrics`, `GET /health`; Publication; the proofs of the refinements, of
the end of the stream, of the store and of the LLM layer; the proofs of the
duplicate check, the aggregates and their queries, the queries of the store,
the back-off, and the algorithms of the batch run.

Left:

1. Tables with repeated timestamps of a device: what they do to intervals,
   gaps and cycles, and the properties that survive them.
2. Interpolation: that what it fills lies between the values around it.
3. What a client may conclude from `/processing/status` and
   `/processing/errors` read one after the other.
