------------------------- MODULE MetricStoreProofs -------------------------
(***************************************************************************)
(* What MetricStore guarantees whatever the runs, the requests and the     *)
(* readings: the results of a run are published as Publication says, never *)
(* mixed, and an answered run is not overwritten by an older one; and what *)
(* queries make of them: they find what was stored, count a reading once   *)
(* and take the latest value from the newest row.                          *)
(***************************************************************************)
EXTENDS MetricQueries, SetLemmas

Labels == {"new", "lost"} \cup InProgress \cup Answered

Rendered(k) ==
    /\ k.metric \in Metrics
    /\ k = [device |-> k.device, metric |-> k.metric, window_start |-> k.window_start,
            window_end |-> k.window_end, freq |-> k.freq, strategy |-> k.strategy]

StoreFunctions ==
    /\ pc \in [Runs -> Labels] /\ req \in [Runs -> Requests]
    /\ DOMAIN snapshot = Runs /\ DOMAIN stamp = Runs /\ DOMAIN earlier = Runs

(* What cleaning let through is there to be measured. *)
SomethingKept ==
    \A r \in Runs :
        pc[r] \in {"compute", "save"} => Kept(snapshot[r], req[r].strategy) # {}

(* Every row was put there by the one save of a run. *)
RowsOfSaved ==
    \A k \in DOMAIN table :
        /\ Rendered(k)
        /\ table[k].run \in Runs
        /\ pc[table[k].run] \in {"respond", "200", "lost"}

(* Who had been answered before a run began has been answered. *)
EarlierAnswered ==
    \A r \in Runs : \A s \in earlier[r] : s \in Runs /\ pc[s] \in Answered

StoreInv == StoreFunctions /\ SomethingKept /\ RowsOfSaved /\ EarlierAnswered

-----------------------------------------------------------------------------
(* The keys of a run are those of whole devices, and there are some.        *)
LEMMA KeysAreWhole ==
    ASSUME NEW r \in Runs, NEW k \in KeysOf(r), NEW m \in Metrics
    PROVE  /\ Rendered(k)
           /\ [k EXCEPT !.metric = m] \in KeysOf(r)
           /\ [k EXCEPT !.metric = m].device = k.device
<1>1. PICK d \in {x.device : x \in Kept(snapshot[r], req[r].strategy)}, n \in Metrics :
         k = Key(d, n, KeptOf(r, d), req[r])
  BY DEF KeysOf
<1>2. [k EXCEPT !.metric = m] = Key(d, m, KeptOf(r, d), req[r])
  BY <1>1 DEF Key
<1>3. Key(d, m, KeptOf(r, d), req[r]) \in KeysOf(r)
  BY DEF KeysOf
<1>4. Rendered(k) /\ k.device = d
  BY <1>1 DEF Key, Rendered
<1>5. Key(d, m, KeptOf(r, d), req[r]).device = d
  BY DEF Key
<1> QED BY <1>2, <1>3, <1>4, <1>5

LEMMA KeysExist ==
    ASSUME NEW r \in Runs, Kept(snapshot[r], req[r].strategy) # {}
    PROVE  KeysOf(r) # {}
<1>1. PICK x \in Kept(snapshot[r], req[r].strategy) : TRUE
  OBVIOUS
<1>2. PICK m \in Metrics : TRUE
  BY StoreAssumption
<1>3. Key(x.device, m, KeptOf(r, x.device), req[r]) \in KeysOf(r)
  BY <1>1, <1>2 DEF KeysOf
<1> QED BY <1>3

LEMMA InitInv == StoreInit => StoreInv
<1> SUFFICES ASSUME StoreInit PROVE StoreInv
  OBVIOUS
<1>1. (CHOOSE q \in Requests : TRUE) \in Requests
  BY StoreAssumption
<1> QED BY <1>1 DEF StoreInit, StoreInv, StoreFunctions, SomethingKept, RowsOfSaved,
              EarlierAnswered, Labels

(* A step of a run that stores nothing.                                     *)
LEMMA StepWithoutSave ==
    ASSUME StoreInv, NEW r \in Runs,
           FetchReadings(r) \/ FetchMetadata(r) \/ Clean(r) \/ Compute(r)
             \/ Respond(r) \/ StorageFails(r)
    PROVE  StoreInv'
<1> USE DEF StoreInv, StoreFunctions, Labels, InProgress, Answered, Goto
<1>1. CASE FetchReadings(r)
  BY <1>1 DEF FetchReadings, SomethingKept, RowsOfSaved, EarlierAnswered
<1>2. CASE FetchMetadata(r)
  BY <1>2 DEF FetchMetadata, SomethingKept, RowsOfSaved, EarlierAnswered
<1>3. CASE Clean(r)
  BY <1>3 DEF Clean, SomethingKept, RowsOfSaved, EarlierAnswered
<1>4. CASE Compute(r)
  BY <1>4 DEF Compute, SomethingKept, RowsOfSaved, EarlierAnswered
<1>5. CASE Respond(r)
  BY <1>5 DEF Respond, SomethingKept, RowsOfSaved, EarlierAnswered
<1>6. CASE StorageFails(r)
  BY <1>6 DEF StorageFails, SomethingKept, RowsOfSaved, EarlierAnswered
<1> QED BY <1>1, <1>2, <1>3, <1>4, <1>5, <1>6

LEMMA StepSave == ASSUME StoreInv, NEW r \in Runs, Save(r) PROVE StoreInv'
<1> USE DEF StoreInv, StoreFunctions, Labels, InProgress, Answered, Goto, Save
<1>1. StoreFunctions' /\ SomethingKept' /\ EarlierAnswered'
  BY DEF SomethingKept, EarlierAnswered
<1>2. RowsOfSaved'
  <2> SUFFICES ASSUME NEW k \in DOMAIN table'
               PROVE  /\ Rendered(k) /\ table'[k].run \in Runs
                      /\ pc'[table'[k].run] \in {"respond", "200", "lost"}
    BY DEF RowsOfSaved, Rendered
  <2>1. CASE k \in KeysOf(r)
    <3>1. PICK m \in Metrics : TRUE
      BY StoreAssumption
    <3>2. Rendered(k)
      BY <2>1, <3>1, KeysAreWhole
    <3>3. table'[k].run = r
      BY <2>1 DEF Upserted, Row
    <3> QED BY <3>2, <3>3
  <2>2. CASE k \notin KeysOf(r)
    <3>1. k \in DOMAIN table /\ table'[k] = table[k]
      BY <2>2 DEF Upserted
    <3> QED BY <3>1 DEF RowsOfSaved
  <2> QED BY <2>1, <2>2
<1> QED BY <1>1, <1>2

LEMMA NextInv == StoreInv /\ [StoreNext]_storeVars => StoreInv'
<1> SUFFICES ASSUME StoreInv, [StoreNext]_storeVars PROVE StoreInv'
  OBVIOUS
<1> USE DEF StoreInv, StoreFunctions, Labels, InProgress, Answered, Goto
<1>1. CASE NewReading
  BY <1>1 DEF NewReading, SomethingKept, RowsOfSaved, EarlierAnswered
<1>2. CASE Restart
  BY <1>2 DEF Restart, SomethingKept, RowsOfSaved, EarlierAnswered
<1>3. ASSUME NEW r \in Runs, Begin(r) PROVE StoreInv'
  BY <1>3 DEF Begin, SomethingKept, RowsOfSaved, EarlierAnswered
<1>4. ASSUME NEW r \in Runs, RunStep(r) PROVE StoreInv'
  BY <1>4, StepWithoutSave, StepSave DEF RunStep
<1>5. CASE UNCHANGED storeVars
  BY <1>5 DEF storeVars, SomethingKept, RowsOfSaved, EarlierAnswered
<1> QED BY <1>1, <1>2, <1>3, <1>4, <1>5 DEF StoreNext
-----------------------------------------------------------------------------
(* Of two runs, the one that ended before the other began cannot have       *)
(* stored what the other finds overwritten.                                 *)
RowsAreNewest ==
    \A r \in Runs : pc[r] \in {"respond", "200"} =>
        \A k \in KeysOf(r) : k \in DOMAIN table /\ table[k].run \notin earlier[r]

(* What a run stores is a function of variables that stay once it has       *)
(* cleaned.                                                                 *)
LEMMA KeysStay ==
    ASSUME NEW r \in Runs, snapshot'[r] = snapshot[r], req'[r] = req[r]
    PROVE  KeysOf(r)' = KeysOf(r)
BY DEF KeysOf, KeptOf

LEMMA InitNewest == StoreInit => RowsAreNewest
BY DEF StoreInit, RowsAreNewest

LEMMA NextNewest == StoreInv /\ RowsAreNewest /\ [StoreNext]_storeVars => RowsAreNewest'
<1> SUFFICES ASSUME StoreInv, RowsAreNewest, [StoreNext]_storeVars,
                    NEW r \in Runs, pc'[r] \in {"respond", "200"}, NEW k \in KeysOf(r)'
             PROVE  k \in DOMAIN table' /\ table'[k].run \notin earlier'[r]
  BY DEF RowsAreNewest
<1> USE DEF StoreInv, StoreFunctions, Labels, InProgress, Answered, Goto
<1>1. ASSUME table' = table, earlier'[r] = earlier[r], pc[r] \in {"respond", "200"},
             snapshot'[r] = snapshot[r], req'[r] = req[r]
      PROVE  k \in DOMAIN table' /\ table'[k].run \notin earlier'[r]
  BY <1>1, KeysStay DEF RowsAreNewest
<1>2. CASE NewReading
  BY <1>1, <1>2 DEF NewReading
<1>3. CASE Restart
  BY <1>1, <1>3 DEF Restart
<1>4. CASE UNCHANGED storeVars
  BY <1>1, <1>4 DEF storeVars
<1>5. ASSUME NEW s \in Runs, Begin(s)
      PROVE  k \in DOMAIN table' /\ table'[k].run \notin earlier'[r]
  BY <1>1, <1>5 DEF Begin
<1>6. ASSUME NEW s \in Runs, RunStep(s), ~Save(s)
      PROVE  k \in DOMAIN table' /\ table'[k].run \notin earlier'[r]
  BY <1>1, <1>6 DEF RunStep, FetchReadings, FetchMetadata, Clean, Compute, Respond,
                    StorageFails
<1>7. ASSUME NEW s \in Runs, Save(s)
      PROVE  k \in DOMAIN table' /\ table'[k].run \notin earlier'[r]
  <2>1. k \in KeysOf(r) /\ earlier' = earlier
    BY <1>7, KeysStay DEF Save
  <2>2. s \notin earlier[r]
    BY <1>7 DEF Save, EarlierAnswered
  <2>3. CASE k \in KeysOf(s)
    BY <1>7, <2>1, <2>2, <2>3 DEF Save, Upserted, Row
  <2>4. CASE k \notin KeysOf(s)
    <3>1. r # s
      BY <2>1, <2>4
    <3>2. k \in DOMAIN table /\ table[k].run \notin earlier[r]
      BY <1>7, <2>1, <3>1 DEF Save, RowsAreNewest
    <3> QED BY <1>7, <2>1, <2>4, <3>2 DEF Save, Upserted
  <2> QED BY <2>3, <2>4
<1> QED BY <1>2, <1>3, <1>4, <1>5, <1>6, <1>7 DEF StoreNext

(* An acknowledged result is never lost to an older run, for every number   *)
(* of runs and whatever windows, strategies and readings they have: only a  *)
(* run that was there at the same time can overwrite it (orchestrator.py:47). *)
THEOREM NeverOlder == StoreSpec => []NewestUnlessConcurrent
<1>1. RowsAreNewest => NewestUnlessConcurrent
  BY DEF RowsAreNewest, NewestUnlessConcurrent
<1> QED BY <1>1, InitInv, NextInv, InitNewest, NextNewest, PTL DEF StoreSpec

-----------------------------------------------------------------------------
(* The refinement: every step of the store is one of Publication's or none. *)

Status == [r \in Runs |-> Progress(pc[r])]

LEMMA InitPublishes == StoreInit => Promise!PublicationInit
BY DEF StoreInit, Promise!PublicationInit, Progress, Answered

(* A step that leaves the table and what others see of the runs is none.    *)
LEMMA StepUnseen ==
    ASSUME table' = table, \A s \in Runs : Progress(pc'[s]) = Progress(pc[s])
    PROVE  UNCHANGED <<table, Status>>
BY DEF Status

LEMMA SavePublishes == ASSUME StoreInv, NEW r \in Runs, Save(r) PROVE Promise!Publish(r)
<1> USE DEF StoreInv, StoreFunctions, Labels, InProgress, Answered, Goto, Save
<1>1. Status[r] = "open" /\ Status' = [Status EXCEPT ![r] = "published"]
  BY DEF Status, Progress
<1>2. KeysOf(r) # {}
  BY KeysExist DEF SomethingKept
<1>3. \A k \in KeysOf(r) : k \in DOMAIN table' /\ table'[k] = Row(r, k)
  BY DEF Upserted
<1>4. \A k \in DOMAIN table' : k \notin KeysOf(r) => k \in DOMAIN table /\ table'[k] = table[k]
  BY DEF Upserted
<1>5. {k \in DOMAIN table' : table'[k].run = r} = KeysOf(r)
  <2>1. \A k \in DOMAIN table : table[k].run # r
    BY DEF RowsOfSaved
  <2>2. \A k \in KeysOf(r) : table'[k].run = r
    <3>1. \A k \in KeysOf(r) : Row(r, k).run = r
      BY DEF Row
    <3> QED BY <1>3, <3>1
  <2> QED BY <1>3, <1>4, <2>1, <2>2
<1>6. \A k \in KeysOf(r), m \in Metrics :
         LET other == [k EXCEPT !.metric = m]
         IN other \in KeysOf(r) /\ table'[other].readings = table'[k].readings
  <2> SUFFICES ASSUME NEW k \in KeysOf(r), NEW m \in Metrics
               PROVE  /\ [k EXCEPT !.metric = m] \in KeysOf(r)
                      /\ table'[[k EXCEPT !.metric = m]].readings = table'[k].readings
    OBVIOUS
  <2>1. [k EXCEPT !.metric = m] \in KeysOf(r) /\ [k EXCEPT !.metric = m].device = k.device
    BY KeysAreWhole
  <2>2. table'[[k EXCEPT !.metric = m]] = Row(r, [k EXCEPT !.metric = m])
    BY <1>3, <2>1
  <2>3. table'[k] = Row(r, k)
    BY <1>3
  <2> QED BY <2>1, <2>2, <2>3 DEF Row
<1>7. DOMAIN table' = DOMAIN table \cup KeysOf(r)
  BY DEF Upserted
<1>8. \A k \in DOMAIN table \ KeysOf(r) : table'[k] = table[k]
  BY DEF Upserted
<1>9. Promise!ShownBy(r)
  BY <1>2, <1>5, <1>6, <1>7, <1>8 DEF Promise!ShownBy
<1> QED BY <1>1, <1>9 DEF Promise!Publish, Status

LEMMA FailureFails ==
    ASSUME StoreInv, NEW r \in Runs, NEW label \in Answered \ {"200"},
           Progress(pc[r]) = "open", Goto(r, label), table' = table
    PROVE  Promise!Fail(r)
<1>1. Status[r] = "open" /\ Status' = [Status EXCEPT ![r] = "failed"]
  BY DEF StoreInv, StoreFunctions, Status, Progress, Goto, Answered
<1> QED BY <1>1 DEF Promise!Fail, Status

LEMMA RespondSucceeds ==
    ASSUME StoreInv, NEW r \in Runs, Respond(r) PROVE Promise!Succeed(r)
<1>1. Status[r] = "published" /\ Status' = [Status EXCEPT ![r] = "ok"]
  BY DEF StoreInv, StoreFunctions, Status, Progress, Goto, Respond, Answered
<1> QED BY <1>1 DEF Promise!Succeed, Status, Respond

LEMMA RestartLoses == ASSUME StoreInv, Restart PROVE Promise!Lose
<1> USE DEF StoreInv, StoreFunctions, Labels, InProgress, Answered, Restart
<1>1. \A r \in Runs : Status'[r] # Status[r] =>
         Status[r] \in {"open", "published"} /\ Status'[r] = "lost"
  BY DEF Status, Progress
<1>2. Status' \in [Runs -> {"open", "published", "ok", "failed", "lost"}]
  BY DEF Status, Progress
<1> QED BY <1>1, <1>2 DEF Promise!Lose, Status

LEMMA StepPublishes ==
    ASSUME StoreInv, [StoreNext]_storeVars
    PROVE  [Promise!PublicationNext]_<<table, Status>>
<1> USE DEF StoreInv, StoreFunctions, Labels, InProgress, Answered
<1>1. CASE NewReading
  BY <1>1, StepUnseen DEF NewReading
<1>2. CASE Restart
  BY <1>2, RestartLoses DEF Promise!PublicationNext
<1>3. CASE UNCHANGED storeVars
  BY <1>3, StepUnseen DEF storeVars
<1>4. ASSUME NEW r \in Runs, Begin(r) \/ FetchMetadata(r) \/ Compute(r)
      PROVE  UNCHANGED <<table, Status>>
  <2>1. table' = table /\ \A s \in Runs : Progress(pc'[s]) = Progress(pc[s])
    BY <1>4 DEF Begin, FetchMetadata, Compute, Goto, Progress
  <2> QED BY <2>1, StepUnseen
<1>5. ASSUME NEW r \in Runs, FetchReadings(r) \/ Clean(r)
      PROVE  [Promise!PublicationNext]_<<table, Status>>
  <2>1. PICK label \in {"metadata", "compute", "404", "422"} : Goto(r, label)
    BY <1>5 DEF FetchReadings, Clean
  <2>2. table' = table /\ pc[r] \in {"fetch", "clean"} /\ Progress(pc[r]) = "open"
    BY <1>5 DEF FetchReadings, Clean, Progress
  <2>3. CASE label \in {"404", "422"}
    BY <2>1, <2>2, <2>3, FailureFails DEF Promise!PublicationNext
  <2>4. CASE label \in {"metadata", "compute"}
    <3>1. \A s \in Runs : Progress(pc'[s]) = Progress(pc[s])
      BY <2>1, <2>2, <2>4 DEF Goto, Progress
    <3> QED BY <2>2, <3>1, StepUnseen
  <2> QED BY <2>3, <2>4
<1>6. ASSUME NEW r \in Runs, StorageFails(r)
      PROVE  Promise!Fail(r)
  BY <1>6, FailureFails DEF StorageFails, Progress
<1>7. ASSUME NEW r \in Runs, RunStep(r)
      PROVE  [Promise!PublicationNext]_<<table, Status>>
  BY <1>4, <1>5, <1>6, <1>7, SavePublishes, RespondSucceeds
     DEF RunStep, Promise!PublicationNext
<1> QED BY <1>1, <1>2, <1>3, <1>4, <1>7 DEF StoreNext

(* The store publishes the results of a run as Publication promises: in one *)
(* step, whole, before the answer, once; and a run that fails or is lost    *)
(* leaves nothing behind (sqlite.py:80-85).                                 *)
THEOREM StorePublishes == StoreSpec => KeepsPublication
<1>1. StoreInv /\ [StoreNext]_storeVars => [Promise!PublicationNext]_<<table, Status>>
  BY StepPublishes
<1> QED BY <1>1, InitInv, NextInv, InitPublishes, PTL
       DEF StoreSpec, KeepsPublication, Promise!PublicationSpec, Status

-----------------------------------------------------------------------------
(* From the promise alone: a publication keeps devices whole.               *)
LEMMA PublicationKeepsWhole ==
    ASSUME MetricsOfOneRun, RowsOfSaved, NEW r \in Runs, Promise!ShownBy(r)
    PROVE  MetricsOfOneRun'
<1> DEFINE batch == {k \in DOMAIN table' : table'[k].run = r}
<1> SUFFICES ASSUME NEW k \in DOMAIN table', NEW m \in Metrics
             PROVE  /\ [k EXCEPT !.metric = m] \in DOMAIN table'
                    /\ table'[[k EXCEPT !.metric = m]].run = table'[k].run
                    /\ table'[[k EXCEPT !.metric = m]].readings = table'[k].readings
  BY DEF MetricsOfOneRun
<1>1. CASE k \in batch
  BY <1>1 DEF Promise!ShownBy
<1>2. CASE k \notin batch
  <2> DEFINE other == [k EXCEPT !.metric = m]
  <2>1. k \in DOMAIN table /\ table'[k] = table[k]
    BY <1>2 DEF Promise!ShownBy
  <2>2. other \in DOMAIN table /\ table[other].run = table[k].run
                              /\ table[other].readings = table[k].readings
    BY <2>1 DEF MetricsOfOneRun
  <2>3. other \notin batch
    <3>1. k.metric \in Metrics /\ [other EXCEPT !.metric = k.metric] = k
      BY <2>1 DEF RowsOfSaved, Rendered
    <3>2. \A j \in batch, n \in Metrics : [j EXCEPT !.metric = n] \in batch
      BY DEF Promise!ShownBy
    <3> QED BY <1>2, <3>1, <3>2, ZenonT(40)
  <2>4. other \in DOMAIN table' /\ table'[other] = table[other]
    BY <2>2, <2>3 DEF Promise!ShownBy
  <2> QED BY <2>1, <2>2, <2>4
<1> QED BY <1>1, <1>2

(* No reader ever finds the metrics of a device, window and configuration   *)
(* mixed from two runs (sqlite.py:81-83).                                   *)
THEOREM NeverMixed == StoreSpec => []MetricsOfOneRun
<1>1. StoreInit => MetricsOfOneRun
  BY DEF StoreInit, MetricsOfOneRun
<1>2. StoreInv /\ MetricsOfOneRun /\ [StoreNext]_storeVars => MetricsOfOneRun'
  <2> SUFFICES ASSUME StoreInv, MetricsOfOneRun, [StoreNext]_storeVars
               PROVE  MetricsOfOneRun'
    OBVIOUS
  <2>1. CASE table' = table
    BY <2>1 DEF MetricsOfOneRun
  <2>2. CASE table' # table
    <3>1. PICK r \in Runs : Promise!Publish(r)
      BY <2>2, StepPublishes DEF Promise!PublicationNext, Promise!Succeed,
                                 Promise!Fail, Promise!Lose
    <3> QED BY <3>1, PublicationKeepsWhole DEF Promise!Publish, StoreInv
  <2> QED BY <2>1, <2>2
<1> QED BY <1>1, <1>2, InitInv, NextInv, PTL DEF StoreSpec

-----------------------------------------------------------------------------
(* A run works on readings that are in the database for good, and those its *)
(* window asks for.                                                         *)
SnapshotsTaken ==
    /\ IsFiniteSet(readings) /\ readings \subseteq Measurements
    /\ \A r \in Runs :
          /\ pc[r] \in {"new", "fetch"} => snapshot[r] = {}
          /\ \A x \in snapshot[r] : x \in readings /\ InWindow(x, req[r])

(* A row is what its run computed. *)
RowsStand ==
    /\ IsFiniteSet(DOMAIN table)
    /\ \A k \in DOMAIN table :
          k \in KeysOf(table[k].run) /\ table[k] = Row(table[k].run, k)

QueriesInv == SnapshotsTaken /\ RowsStand

(* A run has finitely many keys. *)
LEMMA KeysFinite ==
    ASSUME StoreInv, SnapshotsTaken, NEW r \in Runs PROVE IsFiniteSet(KeysOf(r))
<1> DEFINE kept == Kept(snapshot[r], req[r].strategy)
           key == [p \in kept \X Metrics |-> Key(p[1].device, p[2], KeptOf(r, p[1].device), req[r])]
<1>1. IsFiniteSet(kept)
  <2>1. kept \subseteq readings
    BY DEF Kept, SnapshotsTaken
  <2> QED BY <2>1, FS_Subset DEF SnapshotsTaken
<1>2. IsFiniteSet(kept \X Metrics)
  <2> HIDE DEF kept
  <2> QED BY <1>1, FS_Product, StoreAssumption
<1>3. KeysOf(r) = {key[p] : p \in DOMAIN key}
  <2>1. \A k \in KeysOf(r) : \E p \in DOMAIN key : k = key[p]
    <3> SUFFICES ASSUME NEW k \in KeysOf(r) PROVE \E p \in DOMAIN key : k = key[p]
      OBVIOUS
    <3>1. PICK x \in kept, n \in Metrics : k = Key(x.device, n, KeptOf(r, x.device), req[r])
      BY DEF KeysOf
    <3>2. <<x, n>> \in DOMAIN key /\ key[<<x, n>>] = k
      BY <3>1
    <3> QED BY <3>2
  <2>2. \A p \in DOMAIN key : key[p] \in KeysOf(r)
    BY DEF KeysOf
  <2> QED BY <2>1, <2>2
<1>4. DOMAIN key = kept \X Metrics
  OBVIOUS
<1> HIDE DEF key, kept
<1> QED BY <1>2, <1>3, <1>4, ImageIsFinite

(* What a run has computed stays. *)
LEMMA RowStays ==
    ASSUME NEW r \in Runs, NEW k, snapshot'[r] = snapshot[r], req'[r] = req[r],
           stamp'[r] = stamp[r]
    PROVE  Row(r, k)' = Row(r, k)
BY DEF Row, KeptOf

(* Rows stand as long as no other row comes and their runs keep their data. *)
LEMMA RowsStandStill ==
    ASSUME StoreInv, RowsStand, table' = table,
           \A r \in Runs : pc[r] \in {"respond", "200", "lost"} =>
               snapshot'[r] = snapshot[r] /\ req'[r] = req[r] /\ stamp'[r] = stamp[r]
    PROVE  RowsStand'
<1> SUFFICES ASSUME NEW k \in DOMAIN table
             PROVE  k \in KeysOf(table[k].run)' /\ table[k] = Row(table[k].run, k)'
  BY DEF RowsStand
<1> DEFINE r == table[k].run
<1>1. r \in Runs /\ pc[r] \in {"respond", "200", "lost"}
  BY DEF StoreInv, RowsOfSaved
<1>2. k \in KeysOf(r) /\ table[k] = Row(r, k)
  BY DEF RowsStand
<1> HIDE DEF r
<1>3. KeysOf(r)' = KeysOf(r) /\ Row(r, k)' = Row(r, k)
  BY <1>1, KeysStay, RowStays DEF r
<1> QED BY <1>2, <1>3 DEF r

(* Every step of the store keeps both. *)
LEMMA QueriesNext ==
    ASSUME StoreInv, QueriesInv, [StoreNext]_storeVars PROVE QueriesInv'
<1> USE DEF StoreInv, StoreFunctions, Labels, InProgress, Answered, Goto
<1>1. CASE NewReading
  <2>1. SnapshotsTaken'
    <3>1. PICK x \in Measurements \ readings : readings' = readings \cup {x}
      BY <1>1 DEF NewReading
    <3>2. IsFiniteSet(readings')
      BY <3>1, FS_AddElement DEF QueriesInv, SnapshotsTaken
    <3> QED BY <1>1, <3>1, <3>2 DEF NewReading, QueriesInv, SnapshotsTaken
  <2>2. RowsStand'
    BY <1>1, RowsStandStill DEF NewReading, QueriesInv
  <2> QED BY <2>1, <2>2 DEF QueriesInv
<1>2. CASE Restart
  <2>1. SnapshotsTaken'
    BY <1>2 DEF Restart, QueriesInv, SnapshotsTaken
  <2>2. RowsStand'
    BY <1>2, RowsStandStill DEF Restart, QueriesInv
  <2> QED BY <2>1, <2>2 DEF QueriesInv
<1>3. CASE UNCHANGED storeVars
  <2>1. SnapshotsTaken'
    BY <1>3 DEF storeVars, QueriesInv, SnapshotsTaken
  <2>2. RowsStand'
    BY <1>3, RowsStandStill DEF storeVars, QueriesInv
  <2> QED BY <2>1, <2>2 DEF QueriesInv
<1>4. ASSUME NEW r \in Runs, Begin(r) PROVE QueriesInv'
  <2>1. SnapshotsTaken'
    BY <1>4 DEF Begin, QueriesInv, SnapshotsTaken
  <2>2. RowsStand'
    BY <1>4, RowsStandStill DEF Begin, QueriesInv
  <2> QED BY <2>1, <2>2 DEF QueriesInv
<1>5. ASSUME NEW r \in Runs, FetchReadings(r) PROVE QueriesInv'
  <2>1. SnapshotsTaken'
    BY <1>5 DEF FetchReadings, QueriesInv, SnapshotsTaken
  <2>2. RowsStand'
    BY <1>5, RowsStandStill DEF FetchReadings, QueriesInv
  <2> QED BY <2>1, <2>2 DEF QueriesInv
<1>6. ASSUME NEW r \in Runs,
             FetchMetadata(r) \/ Clean(r) \/ Compute(r) \/ Respond(r) \/ StorageFails(r)
      PROVE  QueriesInv'
  <2>1. /\ UNCHANGED <<table, readings, snapshot, req>>
        /\ \A s \in Runs : pc[s] \in {"respond", "200", "lost"} => stamp'[s] = stamp[s]
        /\ \A s \in Runs : pc'[s] \in {"new", "fetch"} => pc[s] \in {"new", "fetch"}
    BY <1>6 DEF FetchMetadata, Clean, Compute, Respond, StorageFails
  <2>2. SnapshotsTaken'
    BY <2>1 DEF QueriesInv, SnapshotsTaken
  <2>3. RowsStand'
    BY <2>1, RowsStandStill DEF QueriesInv
  <2> QED BY <2>2, <2>3 DEF QueriesInv
<1>7. ASSUME NEW r \in Runs, Save(r) PROVE QueriesInv'
  <2>1. /\ UNCHANGED <<readings, snapshot, req, stamp>>
        /\ \A s \in Runs : pc'[s] \in {"new", "fetch"} => pc[s] \in {"new", "fetch"}
        /\ table' = Upserted(r, KeysOf(r))
    BY <1>7 DEF Save
  <2>2. SnapshotsTaken'
    BY <2>1 DEF QueriesInv, SnapshotsTaken
  <2>3. IsFiniteSet(DOMAIN table')
    <3>1. DOMAIN table' = DOMAIN table \cup KeysOf(r)
      BY <2>1 DEF Upserted
    <3>2. IsFiniteSet(KeysOf(r))
      BY KeysFinite DEF QueriesInv
    <3>3. IsFiniteSet(DOMAIN table)
      BY DEF QueriesInv, RowsStand
    <3>4. IsFiniteSet(DOMAIN table \cup KeysOf(r))
      BY <3>2, <3>3, FS_Union
    <3> QED BY <3>1, <3>4
  <2>4. ASSUME NEW k \in DOMAIN table'
        PROVE  (k \in KeysOf(table[k].run))' /\ (table[k] = Row(table[k].run, k))'
    <3>1. \A s \in Runs : KeysOf(s)' = KeysOf(s) /\ Row(s, k)' = Row(s, k)
      BY <2>1, KeysStay, RowStays
    <3>2. CASE k \in KeysOf(r)
      <4>1. table'[k] = Row(r, k)
        BY <2>1, <3>2 DEF Upserted
      <4>2. table'[k].run = r
        BY <4>1 DEF Row
      <4>3. k \in KeysOf(r)' /\ table'[k] = Row(r, k)'
        BY <3>1, <3>2, <4>1
      <4> QED BY <4>2, <4>3
    <3>3. CASE k \notin KeysOf(r)
      <4>1. k \in DOMAIN table /\ table'[k] = table[k]
        BY <2>1, <3>3 DEF Upserted
      <4>2. table[k].run \in Runs /\ k \in KeysOf(table[k].run)
            /\ table[k] = Row(table[k].run, k)
        BY <4>1 DEF QueriesInv, RowsStand, RowsOfSaved
      <4> QED BY <3>1, <4>1, <4>2
    <3> QED BY <3>2, <3>3
  <2>5. RowsStand'
    BY <2>3, <2>4 DEF RowsStand
  <2> QED BY <2>2, <2>5 DEF QueriesInv
<1> QED BY <1>1, <1>2, <1>3, <1>4, <1>5, <1>6, <1>7 DEF StoreNext, RunStep

LEMMA QueriesInit == StoreInit => QueriesInv
BY FS_EmptySet DEF StoreInit, QueriesInv, SnapshotsTaken, RowsStand

-----------------------------------------------------------------------------
(* Where a bin starts. *)
LEMMA BinStarts ==
    ASSUME NEW f \in Nat \ {0}, NEW a \in Nat, NEW b \in Nat
    PROVE  /\ Bin(a, f) \in Nat /\ Bin(a, f) <= a
           /\ a <= b => Bin(a, f) <= Bin(b, f)
           /\ a % f = 0 => Bin(a, f) = a
<1>1. f > 0
  OBVIOUS
<1>2. a % f \in 0..(f - 1) /\ a % f <= a
  BY <1>1
<1>3. a <= b => a - (a % f) <= b - (b % f)
  BY <1>1, SMTT(60)
<1> QED BY <1>2, <1>3 DEF Bin

(* What a key says of the readings it stands for. *)
LEMMA KeyWindow ==
    ASSUME StoreInv, QueriesInv, NEW r \in Runs, NEW k \in KeysOf(r)
    PROVE  /\ IsFiniteSet(KeptOf(r, k.device))
           /\ \A x \in KeptOf(r, k.device) :
                 x \in readings /\ x.ts \in Nat /\ InWindow(x, req[r])
           /\ \E lo, hi \in KeptOf(r, k.device) :
                 /\ \A x \in KeptOf(r, k.device) : lo.ts <= x.ts /\ x.ts <= hi.ts
                 /\ k.window_start = Bin(lo.ts, req[r].freq)
                 /\ k.window_end = Bin(hi.ts, req[r].freq)
<1>1. PICK d \in {x.device : x \in Kept(snapshot[r], req[r].strategy)}, n \in Metrics :
         k = Key(d, n, KeptOf(r, d), req[r])
  BY DEF KeysOf
<1> DEFINE rows == KeptOf(r, d)
           times == {x.ts : x \in rows}
<1>2. k.device = d
  BY <1>1 DEF Key
<1>3. rows # {} /\ rows \subseteq snapshot[r]
  BY DEF KeptOf, Kept
<1>4. \A x \in rows : x \in readings /\ x.ts \in Nat /\ InWindow(x, req[r])
  BY <1>3, StoreAssumption DEF QueriesInv, SnapshotsTaken
<1>5. IsFiniteSet(rows)
  <2>1. rows \subseteq readings /\ IsFiniteSet(readings)
    BY <1>4 DEF QueriesInv, SnapshotsTaken
  <2> HIDE DEF rows
  <2> QED BY <2>1, FS_Subset
<1>6. IsFiniteSet(times)
  <2> DEFINE f == [x \in rows |-> x.ts]
  <2>1. times = {f[x] : x \in DOMAIN f} /\ DOMAIN f = rows
    OBVIOUS
  <2> HIDE DEF f, times, rows
  <2> QED BY <1>5, <2>1, ImageIsFinite
<1>7. times \in SUBSET Int /\ times # {}
  BY <1>3, <1>4
<1>8. /\ Max(times) \in times /\ \A y \in times : y <= Max(times)
      /\ Min(times) \in times /\ \A y \in times : Min(times) <= y
  <2> HIDE DEF times
  <2> QED BY <1>6, <1>7, GreatestExists, LeastExists
<1>9. PICK lo \in rows, hi \in rows : lo.ts = Min(times) /\ hi.ts = Max(times)
  BY <1>8
<1>10. k.window_start = Bin(lo.ts, req[r].freq) /\ k.window_end = Bin(hi.ts, req[r].freq)
  BY <1>1, <1>9 DEF Key
<1>11. \A x \in rows : lo.ts <= x.ts /\ x.ts <= hi.ts
  BY <1>8, <1>9
<1> QED BY <1>2, <1>4, <1>5, <1>9, <1>10, <1>11

(* What a row holds. *)
LEMMA RowHolds ==
    ASSUME StoreInv, QueriesInv, NEW k \in DOMAIN table
    PROVE  /\ IsFiniteSet(table[k].readings) /\ Worth(k) \in Nat
           /\ Asked(k) \in Requests
           /\ \A x \in table[k].readings :
                 x \in readings /\ x.ts \in Nat /\ InWindow(x, Asked(k))
           /\ \E hi \in table[k].readings :
                 /\ \A x \in table[k].readings : x.ts <= hi.ts
                 /\ k.window_end = Bin(hi.ts, Asked(k).freq)
<1> DEFINE r == table[k].run
<1>1. r \in Runs /\ k \in KeysOf(r) /\ table[k] = Row(r, k)
  BY DEF StoreInv, RowsOfSaved, QueriesInv, RowsStand
<1>2. table[k].readings = KeptOf(r, k.device)
  BY <1>1 DEF Row
<1>3. Asked(k) = req[r] /\ req[r] \in Requests
  BY <1>1 DEF Asked, StoreInv, StoreFunctions
<1> HIDE DEF r
<1>4. IsFiniteSet(table[k].readings)
  BY <1>1, <1>2, KeyWindow
<1>5. Worth(k) \in Nat
  BY <1>4, FS_CardinalityType DEF Worth
<1> QED BY <1>1, <1>2, <1>3, <1>4, <1>5, KeyWindow

(* The greatest of some rows is a number, not the absence of one. *)
LEMMA GreatestWorth ==
    ASSUME StoreInv, QueriesInv, NEW rows \in SUBSET DOMAIN table, rows # {}
    PROVE  Max({Worth(k) : k \in rows}) \in Nat
<1> DEFINE f == [k \in rows |-> Worth(k)]
           worths == {Worth(k) : k \in rows}
<1>1. IsFiniteSet(rows)
  BY FS_Subset DEF QueriesInv, RowsStand
<1>2. worths = {f[k] : k \in DOMAIN f} /\ DOMAIN f = rows
  OBVIOUS
<1>3. IsFiniteSet(worths)
  <2> HIDE DEF f, worths
  <2> QED BY <1>1, <1>2, ImageIsFinite
<1>4. worths \subseteq Nat /\ worths # {}
  BY RowHolds
<1>5. Max(worths) \in worths
  <2>1. worths \in SUBSET Int
    BY <1>4
  <2> HIDE DEF worths
  <2> QED BY <1>3, <1>4, <2>1, GreatestExists
<1> QED BY <1>4, <1>5

(* Rows that stand answer the query of the window they came from. *)
LEMMA FoundAgain ==
    ASSUME StoreInv, QueriesInv, NewestUnlessConcurrent PROVE ProcessedIsFound
<1> SUFFICES ASSUME NEW r \in Runs, pc[r] = "200", req[r].from % req[r].freq = 0,
                    NEW k \in KeysOf(r), NEW q \in Queries,
                    q.device \in {None, k.device}, q.metric \in {None, k.metric},
                    q.start \in {None, req[r].from}, q.end \in {None, req[r].to}
             PROVE  k \in Found(q) /\ Aggregate(Found(q), "max") # {None}
  BY DEF ProcessedIsFound
<1>1. k \in DOMAIN table
  BY DEF NewestUnlessConcurrent
<1>2. PICK lo, hi \in KeptOf(r, k.device) :
         k.window_start = Bin(lo.ts, req[r].freq) /\ k.window_end = Bin(hi.ts, req[r].freq)
  BY KeyWindow
<1>3. /\ lo.ts \in Nat /\ hi.ts \in Nat /\ InWindow(lo, req[r]) /\ InWindow(hi, req[r])
      /\ req[r].from \in Nat /\ req[r].to \in Nat /\ req[r].freq \in Nat \ {0}
  BY KeyWindow, StoreAssumption DEF StoreInv, StoreFunctions
<1>4. k.window_start <= req[r].to
  <2>1. Bin(lo.ts, req[r].freq) \in Nat /\ Bin(lo.ts, req[r].freq) <= lo.ts
    BY <1>3, BinStarts
  <2> QED BY <1>2, <1>3, <2>1 DEF InWindow
<1>5. req[r].from <= k.window_end
  <2>1. req[r].from <= hi.ts
    BY <1>3 DEF InWindow
  <2>2. Bin(req[r].from, req[r].freq) <= Bin(hi.ts, req[r].freq)
    BY <1>3, <2>1, BinStarts
  <2>3. Bin(req[r].from, req[r].freq) = req[r].from
    BY <1>3, BinStarts
  <2> QED BY <1>2, <2>2, <2>3
<1>6. k \in Found(q)
  BY <1>1, <1>4, <1>5 DEF Found, Overlaps
<1>7. Max({Worth(j) : j \in Found(q)}) \in Nat
  <2>1. Found(q) \in SUBSET DOMAIN table
    BY DEF Found
  <2> QED BY <1>6, <2>1, GreatestWorth
<1>8. Aggregate(Found(q), "max") = {Max({Worth(j) : j \in Found(q)})}
  BY <1>6 DEF Aggregate
<1> QED BY <1>6, <1>7, <1>8, QueriesAssumption

(* Windows that are apart part their readings. *)
LEMMA ApartShareNothing ==
    ASSUME StoreInv, QueriesInv, NEW j \in DOMAIN table, NEW k \in DOMAIN table,
           Apart(Asked(j), Asked(k)),
           NEW x \in table[j].readings, NEW y \in table[k].readings
    PROVE  x.ts < y.ts
<1>1. /\ x.ts \in Nat /\ y.ts \in Nat /\ InWindow(x, Asked(j)) /\ InWindow(y, Asked(k))
      /\ Asked(j).to \in Nat /\ Asked(k).from \in Nat
  BY RowHolds, StoreAssumption
<1> QED BY <1>1 DEF Apart, InWindow

(* The rows part the readings, so the readings' number is a measure of them. *)
LEMMA CountedOnce == ASSUME StoreInv, QueriesInv PROVE DisjointWindowsCountOnce
<1> SUFFICES ASSUME NEW q \in SeriesQueries, Found(q) # {}, TiledBy(Found(q))
             PROVE  /\ Aggregate(Found(q), "sum")
                          = {Cardinality(UNION {table[k].readings : k \in Found(q)})}
                    /\ \A x \in UNION {table[k].readings : k \in Found(q)} :
                          Cardinality(Holding(Found(q), x)) = 1
  BY DEF DisjointWindowsCountOnce
<1> DEFINE rows == Found(q)
           all(s) == UNION {table[k].readings : k \in s}
           worth == [k \in rows |-> Worth(k)]
           m == [s \in SUBSET rows |-> Cardinality(all(s))]
<1>1. rows \subseteq DOMAIN table /\ IsFiniteSet(rows)
  <2>1. rows \subseteq DOMAIN table /\ IsFiniteSet(DOMAIN table)
    BY DEF Found, QueriesInv, RowsStand
  <2> HIDE DEF rows
  <2> QED BY <2>1, FS_Subset
<1>2. \A j, k \in rows : j = k \/ table[j].readings \cap table[k].readings = {}
  <2> SUFFICES ASSUME NEW j \in rows, NEW k \in rows, j # k,
                      NEW x \in table[j].readings, x \in table[k].readings
               PROVE  FALSE
    OBVIOUS
  <2>1. Apart(Asked(j), Asked(k)) \/ Apart(Asked(k), Asked(j))
    BY DEF TiledBy
  <2>2. x.ts < x.ts
    BY <1>1, <2>1, ApartShareNothing
  <2>3. x.ts \in Nat
    BY <1>1, RowHolds
  <2> QED BY <2>2, <2>3
<1>3. \A s \in SUBSET rows : IsFiniteSet(all(s)) /\ Cardinality(all(s)) \in Nat
  <2> SUFFICES ASSUME NEW s \in SUBSET rows
               PROVE  IsFiniteSet(all(s)) /\ Cardinality(all(s)) \in Nat
    OBVIOUS
  <2>1. all(s) \subseteq readings /\ IsFiniteSet(readings)
    BY <1>1, RowHolds DEF QueriesInv, SnapshotsTaken
  <2> HIDE DEF all
  <2> QED BY <2>1, FS_Subset, FS_CardinalityType
<1>4. Measure(worth, m, rows)
  <2>1. m \in [SUBSET rows -> Int]
    <3> HIDE DEF all, rows
    <3>1. \A s \in SUBSET rows : Cardinality(all(s)) \in Int
      BY <1>3
    <3> QED BY <3>1
  <2>2. m[{}] = 0
    BY FS_EmptySet
  <2>3. ASSUME NEW s \in SUBSET rows, NEW k \in s PROVE m[s] = worth[k] + m[s \ {k}]
    <3> DEFINE mine == table[k].readings
               theirs == all(s \ {k})
    <3>1. all(s) = mine \cup theirs
      OBVIOUS
    <3>2. mine \cap theirs = {}
      BY <1>2
    <3>3. IsFiniteSet(mine) /\ IsFiniteSet(theirs)
          /\ Cardinality(mine) \in Nat /\ Cardinality(theirs) \in Nat
      <4>1. IsFiniteSet(mine) /\ Cardinality(mine) \in Nat
        BY <1>1, RowHolds, FS_CardinalityType
      <4> HIDE DEF mine, all
      <4> QED BY <1>3, <4>1
    <3>4. Cardinality(all(s)) = Cardinality(mine) + Cardinality(theirs)
      <4> HIDE DEF mine, theirs, all
      <4>1. Cardinality(mine \cap theirs) = 0
        BY <3>2, FS_EmptySet
      <4>2. Cardinality(mine \cup theirs)
              = Cardinality(mine) + Cardinality(theirs) - Cardinality(mine \cap theirs)
        BY <3>3, FS_Union
      <4> QED BY <3>1, <3>3, <4>1, <4>2
    <3>5. worth[k] = Cardinality(mine)
      BY DEF Worth
    <3> QED BY <3>4, <3>5
  <2> HIDE DEF m, worth, rows
  <2> QED BY <2>1, <2>2, <2>3 DEF Measure
<1>5. MapThenSumSet(Worth, rows) = Cardinality(all(rows))
  <2> DEFINE Step(iter, s) ==
                 IF s = {} THEN 0
                 ELSE Worth(CHOOSE k \in s : TRUE) + iter[s \ {CHOOSE k \in s : TRUE}]
             Sums(iter) == iter = [s \in SUBSET rows |-> Step(iter, s)]
  <2>1. MapThenSumSet(Worth, rows) = (CHOOSE iter : Sums(iter))[rows]
    BY DEF MapThenSumSet, MapThenFoldSet
  <2>2. \A iter : Sums(iter) <=> Fold(worth, iter, rows)
    <3> SUFFICES ASSUME NEW iter PROVE \A s \in SUBSET rows : Step(iter, s) = FoldStep(worth, iter, s)
      BY DEF Fold
    <3> QED BY DEF FoldStep
  <2>3. Fold(worth, m, rows)
    <3> HIDE DEF m, worth, rows
    <3> QED BY <1>4, MeasureFolds
  <2>4. \A iter : Sums(iter) => iter = m
    <3> HIDE DEF m, worth, rows, Sums
    <3> QED BY <1>1, <2>2, <2>3, FoldUnique
  <2>5. (CHOOSE iter : Sums(iter)) = m
    <3> HIDE DEF m, worth, rows, Sums
    <3> QED BY <2>2, <2>3, <2>4
  <2> QED BY <2>1, <2>5
<1>6. Aggregate(rows, "sum") = {MapThenSumSet(Worth, rows)}
  BY DEF Aggregate
<1>7. ASSUME NEW x \in all(rows) PROVE Cardinality(Holding(rows, x)) = 1
  <2>1. PICK k \in rows : x \in table[k].readings
    OBVIOUS
  <2>2. Holding(rows, x) = {k}
    BY <1>2, <2>1 DEF Holding
  <2> QED BY <2>2, FS_Singleton
<1> QED BY <1>5, <1>6, <1>7

(* The row with the newest reading ends in a later bin than every other. *)
LEMMA NewestIsLatest == ASSUME StoreInv, QueriesInv PROVE LatestIsNewest
<1> SUFFICES ASSUME NEW q \in SeriesQueries, TiledByBins(Found(q)),
                    NEW j \in Found(q), NEW x \in table[j].readings,
                    \A k \in Found(q) : \A y \in table[k].readings : y.ts <= x.ts,
                    NEW k \in LatestRows(Found(q)), x \notin table[k].readings
             PROVE  FALSE
  BY DEF LatestIsNewest, Holding, LatestRows
<1>1. j \in DOMAIN table /\ k \in DOMAIN table /\ k \in Found(q) /\ j # k
  BY DEF LatestRows, Found
<1>2. PICK hi \in table[k].readings : k.window_end = Bin(hi.ts, Asked(k).freq)
  BY <1>1, RowHolds
<1>3. PICK top \in table[j].readings :
         x.ts <= top.ts /\ j.window_end = Bin(top.ts, Asked(j).freq)
  BY <1>1, RowHolds
<1>4. /\ x.ts \in Nat /\ hi.ts \in Nat /\ top.ts \in Nat
      /\ InWindow(x, Asked(j)) /\ InWindow(top, Asked(j)) /\ InWindow(hi, Asked(k))
      /\ Asked(j) \in Requests /\ Asked(k) \in Requests
  BY <1>1, RowHolds
<1>5. /\ Asked(j).to \in Nat /\ Asked(k).to \in Nat
      /\ Asked(j).from \in Nat /\ Asked(k).from \in Nat
      /\ Asked(j).freq \in Nat \ {0} /\ Asked(k).freq \in Nat \ {0}
  BY <1>4, StoreAssumption
<1>6. ~BinnedApart(Asked(j), Asked(k))
  <2> SUFFICES ASSUME BinnedApart(Asked(j), Asked(k)) PROVE FALSE
    OBVIOUS
  <2> DEFINE edge == Bin(Asked(k).from, Asked(k).freq)
  <2>1. edge \in Nat /\ edge <= Asked(k).from
    BY <1>5, BinStarts
  <2>2. WholeBins(Asked(k)).from = edge
    BY <1>4 DEF WholeBins
  <2> HIDE DEF edge
  <2>3. x.ts < hi.ts
    BY <1>4, <1>5, <2>1, <2>2 DEF BinnedApart, Apart, InWindow
  <2>4. hi.ts <= x.ts
    BY <1>1, <1>2
  <2> QED BY <1>4, <2>3, <2>4
<1>7. ~BinnedApart(Asked(k), Asked(j))
  <2> SUFFICES ASSUME BinnedApart(Asked(k), Asked(j)) PROVE FALSE
    OBVIOUS
  <2> DEFINE edge == Bin(Asked(j).from, Asked(j).freq)
  <2>1. edge \in Nat /\ edge <= Bin(top.ts, Asked(j).freq) /\ Bin(top.ts, Asked(j).freq) \in Nat
    BY <1>4, <1>5, BinStarts DEF InWindow
  <2>2. WholeBins(Asked(j)).from = edge
    BY <1>4 DEF WholeBins
  <2>3. Bin(hi.ts, Asked(k).freq) \in Nat /\ Bin(hi.ts, Asked(k).freq) <= hi.ts
    BY <1>4, <1>5, BinStarts
  <2> HIDE DEF edge
  <2>4. hi.ts < edge
    BY <1>4, <1>5, <2>1, <2>2 DEF BinnedApart, Apart, InWindow
  <2>5. j.window_end <= k.window_end
    BY DEF LatestRows
  <2> QED BY <1>2, <1>3, <1>4, <2>1, <2>3, <2>4, <2>5
<1> QED BY <1>1, <1>6, <1>7 DEF TiledByBins

(* After a run was answered with 200, every query of its window finds its   *)
(* rows and has a value to give, for any number of runs, devices, metrics   *)
(* and configurations, as long as the window starts where a bin does        *)
(* (sqlite.py:113).                                                         *)
THEOREM StoredIsFound == StoreSpec => []ProcessedIsFound
BY NeverOlder, FoundAgain, InitInv, NextInv, QueriesInit, QueriesNext, PTL DEF StoreSpec

(* The sum over rows of disjoint windows counts every reading once,         *)
(* whatever windows the runs asked for (use_cases.py:293).                  *)
THEOREM SummedOnce == StoreSpec => []DisjointWindowsCountOnce
BY CountedOnce, InitInv, NextInv, QueriesInit, QueriesNext, PTL DEF StoreSpec

(* The latest of rows that share no bin holds the newest reading, in        *)
(* whatever order the windows were processed (use_cases.py:480).            *)
THEOREM LatestHoldsNewest == StoreSpec => []LatestIsNewest
BY NewestIsLatest, InitInv, NextInv, QueriesInit, QueriesNext, PTL DEF StoreSpec
=============================================================================
