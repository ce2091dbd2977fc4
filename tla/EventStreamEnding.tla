-------------------------- MODULE EventStreamEnding --------------------------
(***************************************************************************)
(* How the stream ends, for every value of the constants: the loop leaves  *)
(* by itself only behind the last event, what it leaves is settled, and    *)
(* run_until_empty settles what was there when it was called.              *)
(***************************************************************************)
EXTENDS EventStreamSafety

Leaving == {"exitsize", "exitdepth", "exitrunning", "ending"}

(* A thread that leaves was told to or has seen a sentinel, and so had one  *)
(* that is gone, unless main is about to start the next.                    *)
LeftForReason ==
    /\ pc["loop"] \in Leaving => cstop \/ sentinelReceived
    /\ starts > 0 /\ pc["loop"] = "idle" /\ mpc \notin {"setrunning", "spawn"}
         => cstop \/ sentinelReceived

(* Of one run of a producer that is the only source, the sentinel is the    *)
(* last item, and when it has been taken there is nothing left to take.     *)
SentinelIsLast ==
    runs <= 1 /\ externals = 0 =>
        /\ runs = 0 => ppc = "idle" /\ sentinels = 0
        /\ sentinels <= 1 /\ (sentinels = 1 => ppc \in {"ending", "idle"})
        /\ sentinels = 0 => \A i \in 1..Len(queue) : queue[i] # Sentinel
        /\ \A i \in 1..Len(queue) : queue[i] = Sentinel => i = Len(queue)
        /\ sentinelReceived => sentinels = 1 /\ sentinelsTaken = 1 /\ queue = <<>>
        /\ ~sentinelReceived => sentinelsTaken = 0

(* A loop that leaves behind the sentinel reports an empty queue.           *)
DepthIsLast ==
    /\ drains = 0 => pc["drain"] = "idle"
    /\ runs <= 1 /\ externals = 0 /\ drains = 0 /\ ~cstop =>
        /\ pc["loop"] = "exitdepth" => size["loop"] = 0
        /\ pc["loop"] \in {"exitrunning", "ending"} => depth = 0
        /\ starts > 0 /\ pc["loop"] = "idle" /\ mpc \notin {"setrunning", "spawn"}
             => depth = 0

EndingInv == LeftForReason /\ SentinelIsLast /\ DepthIsLast

-----------------------------------------------------------------------------
LEMMA EndingTyped ==
    TypeOK => /\ Counters /\ queue \in Seq(Message \cup {Sentinel})
              /\ pc \in [Threads -> Labels] /\ size \in [Threads -> Nat]
              /\ sentinelReceived \in BOOLEAN /\ pc["drain"] \notin LoopLabels
              /\ drains \in Nat /\ starts \in Nat
BY CounterTypes DEF TypeOK, QueueTypeOK, ConsumerTypeOK

LEMMA TailOfQueue ==
    ASSUME NEW s \in Seq(Message \cup {Sentinel}), s # <<>>
    PROVE  /\ Head(s) = s[1] /\ Tail(s) \in Seq(Message \cup {Sentinel})
           /\ Len(Tail(s)) = Len(s) - 1 /\ Len(s) >= 1
           /\ \A i \in 1..Len(Tail(s)) : Tail(s)[i] = s[i + 1]
OBVIOUS

(* A get leaves the sentinel last; taking the sentinel leaves nothing.      *)
LEMMA GetKeepsLast ==
    ASSUME TypeOK, SentinelIsLast, NEW t \in Threads,
           ReceiveMessage(t) \/ ReceiveSentinel(t), UNCHANGED <<externals, pvars>>
    PROVE  SentinelIsLast'
<1>1. /\ queue \in Seq(Message \cup {Sentinel}) /\ queue # <<>> /\ queue' = Tail(queue)
      /\ sentinels \in Nat /\ runs \in Nat
  BY DEF TypeOK, QueueTypeOK, ProducerTypeOK, ReceiveMessage, ReceiveSentinel, Get
<1>2. UNCHANGED <<ppc, runs, sentinels, externals>>
  BY DEF pvars
<1>3. SUFFICES ASSUME runs <= 1, externals = 0
               PROVE /\ runs = 0 => ppc = "idle" /\ sentinels = 0
                     /\ sentinels <= 1 /\ (sentinels = 1 => ppc \in {"ending", "idle"})
                     /\ sentinels = 0 => \A i \in 1..Len(queue') : queue'[i] # Sentinel
                     /\ \A i \in 1..Len(queue') : queue'[i] = Sentinel => i = Len(queue')
                     /\ sentinelReceived' => sentinels = 1 /\ sentinelsTaken' = 1 /\ queue' = <<>>
                     /\ ~sentinelReceived' => sentinelsTaken' = 0
  BY <1>2 DEF SentinelIsLast
<1>4. ~sentinelReceived /\ sentinelsTaken = 0
  BY <1>1, <1>3 DEF SentinelIsLast
<1>5. /\ Len(queue') = Len(queue) - 1 /\ Head(queue) = queue[1] /\ Len(queue) >= 1
      /\ \A i \in 1..Len(queue') : queue'[i] = queue[i + 1]
  BY <1>1, TailOfQueue
<1> DEFINE Before(i) == (sentinels = 0 => queue[i] # Sentinel)
                     /\ (queue[i] = Sentinel => i = Len(queue))
<1>6. \A i \in 1..Len(queue) : Before(i)
  BY <1>1, <1>3 DEF SentinelIsLast
<1>7. Len(queue) \in Nat /\ Len(queue') \in Nat
  BY <1>1, <1>5
<1>8. \A i \in 1..Len(queue') : i + 1 \in 1..Len(queue) /\ (i + 1 = Len(queue) => i = Len(queue'))
  BY <1>5, <1>7
<1>9. /\ sentinels = 0 => \A i \in 1..Len(queue') : queue'[i] # Sentinel
      /\ \A i \in 1..Len(queue') : queue'[i] = Sentinel => i = Len(queue')
  <2> SUFFICES ASSUME NEW i \in 1..Len(queue')
               PROVE  /\ sentinels = 0 => queue'[i] # Sentinel
                      /\ queue'[i] = Sentinel => i = Len(queue')
    OBVIOUS
  <2>1. Before(i + 1) /\ queue'[i] = queue[i + 1] /\ (i + 1 = Len(queue) => i = Len(queue'))
    BY <1>5, <1>6, <1>8
  <2> QED  BY <2>1
<1>10. CASE ReceiveMessage(t)
  BY <1>3, <1>4, <1>9, <1>10 DEF ReceiveMessage, SentinelIsLast
<1>11. CASE ReceiveSentinel(t)
  <2>1. queue[1] = Sentinel /\ sentinelReceived' /\ sentinelsTaken' = 1
    BY <1>4, <1>5, <1>11 DEF ReceiveSentinel
  <2>2. sentinels = 1 /\ Len(queue) = 1
    <3>1. sentinels <= 1
      BY <1>3 DEF SentinelIsLast
    <3>2. 1 \in 1..Len(queue)
      BY <1>5, <1>7
    <3>3. Before(1)
      BY <1>6, <3>2
    <3> QED  BY <1>1, <2>1, <3>1, <3>3
  <2>3. queue' = <<>>
    BY <1>1, <1>5, <2>2
  <2>4. ppc \in {"ending", "idle"} /\ runs # 0
    BY <1>3, <2>2 DEF SentinelIsLast
  <2> QED  BY <1>9, <2>1, <2>2, <2>3, <2>4
<1> QED  BY <1>10, <1>11

(* What the producer puts comes before its sentinel.                        *)
LEMMA PutKeepsLast ==
    ASSUME TypeOK, SentinelIsLast, PutEvent \/ PutSentinel, UNCHANGED <<externals, cvars>>
    PROVE  SentinelIsLast'
<1>1. queue \in Seq(Message \cup {Sentinel}) /\ sentinels \in Nat /\ runs \in Nat
  BY DEF TypeOK, QueueTypeOK, ProducerTypeOK
<1>2. UNCHANGED <<runs, externals, sentinelReceived, sentinelsTaken>>
  BY DEF cvars, PutEvent, PutSentinel
<1>3. SUFFICES ASSUME runs <= 1, externals = 0 PROVE SentinelIsLast'
  BY <1>2 DEF SentinelIsLast
<1>4. /\ ppc # "idle" /\ runs # 0 /\ sentinels = 0 /\ ~sentinelReceived
      /\ sentinelsTaken = 0 /\ \A i \in 1..Len(queue) : queue[i] # Sentinel
  BY <1>1, <1>3 DEF SentinelIsLast, PutEvent, PutSentinel
<1>5. ASSUME NEW x \in Message \cup {Sentinel}, queue' = Append(queue, x)
      PROVE  /\ Len(queue') = Len(queue) + 1 /\ queue'[Len(queue')] = x
             /\ \A i \in 1..Len(queue) : queue'[i] = queue[i]
  BY <1>1, <1>5
<1>6. CASE PutEvent
  <2>1. Head(out) \in Message /\ queue' = Append(queue, Head(out))
    BY <1>6 DEF PutEvent, Put, TypeOK, ProducerTypeOK
  <2>2. \A i \in 1..Len(queue') : queue'[i] # Sentinel
    BY <1>1, <1>4, <1>5, <2>1, SentinelAssumption
  <2> QED  BY <1>2, <1>4, <1>6, <2>2 DEF PutEvent, SentinelIsLast
<1>7. CASE PutSentinel
  <2>1. queue' = Append(queue, Sentinel) /\ sentinels' = 1 /\ ppc' = "ending"
    BY <1>4, <1>7 DEF PutSentinel, Put
  <2>2. \A i \in 1..Len(queue') : queue'[i] = Sentinel => i = Len(queue')
    BY <1>1, <1>4, <1>5, <2>1
  <2> QED  BY <1>2, <1>4, <2>1, <2>2 DEF SentinelIsLast
<1> QED  BY <1>6, <1>7

LEMMA LastProducer ==
    ASSUME TypeOK, SentinelIsLast, ProducerNext, UNCHANGED <<externals, cvars>>
    PROVE  SentinelIsLast'
<1> USE EndingTyped DEF Counters, cvars
<1>1. CASE StartProducer
  BY <1>1 DEF StartProducer, ProducerAlive, SentinelIsLast
<1>2. CASE StopProducer
  BY <1>2 DEF StopProducer, SentinelIsLast
<1>3. CASE Connect
  BY <1>3 DEF Connect, SentinelIsLast
<1>4. CASE ConnectFails
  BY <1>4 DEF ConnectFails, SentinelIsLast
<1>5. CASE SeeStop
  BY <1>5 DEF SeeStop, SentinelIsLast
<1>6. CASE FlushAtEnd
  BY <1>6 DEF FlushAtEnd, PublishThen, SentinelIsLast
<1>7. CASE ReadFails
  BY <1>7 DEF ReadFails, SentinelIsLast
<1>8. CASE ReadRow
  BY <1>8 DEF ReadRow, PublishThen, AppendRow, SentinelIsLast
<1>9. CASE AppendAfterGap
  BY <1>9 DEF AppendAfterGap, AppendRow, PublishThen, SentinelIsLast
<1>10. CASE PublishNext
  BY <1>10 DEF PublishNext, SentinelIsLast
<1>11. CASE PutEvent
  BY <1>11, PutKeepsLast
<1>12. CASE CountEvent
  BY <1>12 DEF CountEvent, SentinelIsLast
<1>13. CASE PutSentinel
  BY <1>13, PutKeepsLast
<1>14. CASE ProducerEnds
  BY <1>14 DEF ProducerEnds, SentinelIsLast
<1> QED
  BY <1>1, <1>2, <1>3, <1>4, <1>5, <1>6, <1>7, <1>8, <1>9, <1>10, <1>11, <1>12,
     <1>13, <1>14
  DEF ProducerNext, ProducerThread

LEMMA LastConsumer ==
    ASSUME TypeOK, SentinelIsLast, ConsumerNext, UNCHANGED <<externals, pvars>>
    PROVE  SentinelIsLast'
<1> USE DEF pvars, transportVars, SentinelIsLast
<1>1. CASE StartWhileAlive
  BY <1>1 DEF StartWhileAlive
<1>2. CASE StartClears
  BY <1>2 DEF StartClears
<1>3. CASE StartSetsRunning
  BY <1>3 DEF StartSetsRunning
<1>4. CASE StartSpawns
  BY <1>4 DEF StartSpawns
<1>5. CASE StopSignals
  BY <1>5 DEF StopSignals
<1>6. CASE StopJoins
  BY <1>6 DEF StopJoins
<1>7. CASE StopClearsRunning
  BY <1>7 DEF StopClearsRunning
<1>8. CASE CallRunUntilEmpty
  BY <1>8 DEF CallRunUntilEmpty
<1>9. CASE CheckStop
  BY <1>9 DEF CheckStop, Goto
<1>10. CASE CheckSentinel
  BY <1>10 DEF CheckSentinel, Goto
<1>11. CASE LoopClearsRunning
  BY <1>11 DEF LoopClearsRunning, Goto
<1>12. CASE LoopEnds
  BY <1>12 DEF LoopEnds, Goto
<1>13. ASSUME NEW t \in Threads, ReceiveMessage(t) PROVE SentinelIsLast'
  BY <1>13, GetKeepsLast
<1>14. ASSUME NEW t \in Threads, ReceiveSentinel(t) PROVE SentinelIsLast'
  BY <1>14, GetKeepsLast
<1>15. ASSUME NEW t \in Threads, ReceiveNothing(t) PROVE SentinelIsLast'
  BY <1>15 DEF ReceiveNothing, Goto
<1>16. ASSUME NEW t \in Threads, Consume(t) PROVE SentinelIsLast'
  BY <1>16 DEF Consume, Goto
<1>17. ASSUME NEW t \in Threads, ReadSize(t) PROVE SentinelIsLast'
  BY <1>17 DEF ReadSize, Goto
<1>18. ASSUME NEW t \in Threads, SetDepth(t) PROVE SentinelIsLast'
  BY <1>18 DEF SetDepth, Goto
<1>19. ASSUME NEW t \in Threads, HandleRejects(t) PROVE SentinelIsLast'
  BY <1>19 DEF HandleRejects, Goto
<1>20. ASSUME NEW t \in Threads, HandleSkipsDuplicate(t) PROVE SentinelIsLast'
  BY <1>20 DEF HandleSkipsDuplicate, Goto
<1>21. ASSUME NEW t \in Threads, HandleAccepts(t) PROVE SentinelIsLast'
  BY <1>21 DEF HandleAccepts, Goto
<1>22. ASSUME NEW t \in Threads, UpsertHour(t) PROVE SentinelIsLast'
  BY <1>22 DEF UpsertHour, Goto, Upsert
<1>23. ASSUME NEW t \in Threads, UpsertDay(t) PROVE SentinelIsLast'
  BY <1>23 DEF UpsertDay, Goto, Upsert
<1>24. ASSUME NEW t \in Threads, Remember(t) PROVE SentinelIsLast'
  BY <1>24 DEF Remember, Goto
<1>25. ASSUME NEW t \in Threads, RecordError(t) PROVE SentinelIsLast'
  BY <1>25 DEF RecordError, Goto
<1>26. ASSUME NEW t \in Threads, Settle(t) PROVE SentinelIsLast'
  BY <1>26 DEF Settle, Goto, NextRound
<1>27. ASSUME NEW t \in Threads, SetExitDepth(t) PROVE SentinelIsLast'
  BY <1>27 DEF SetExitDepth, Goto
<1> QED
  BY <1>1, <1>2, <1>3, <1>4, <1>5, <1>6, <1>7, <1>8, <1>9, <1>10, <1>11, <1>12,
     <1>13, <1>14, <1>15, <1>16, <1>17, <1>18, <1>19, <1>20, <1>21, <1>22,
     <1>23, <1>24, <1>25, <1>26, <1>27
  DEF ConsumerNext, MainCalls, MainReturns, LoopThread, DrainThread, LoopOnly,
      Receive, ProcessMessage, Threads

LEMMA LeavingConsumer ==
    ASSUME TypeOK, EndingInv, ConsumerNext, UNCHANGED <<externals, pvars>>
    PROVE  (LeftForReason /\ DepthIsLast)'
<1>0. UNCHANGED <<runs, externals>>
  BY DEF pvars
<1> USE <1>0, EndingTyped DEF transportVars, mainVars, callVars, handlerVars, counterVars,
        statusVars, EndingInv, LeftForReason, SentinelIsLast, DepthIsLast, Leaving,
        Threads, Labels, LoopLabels, Counters, LoopAlive
<1>1. CASE StartWhileAlive
  BY <1>1 DEF StartWhileAlive
<1>2. CASE StartClears
  BY <1>2 DEF StartClears
<1>3. CASE StartSetsRunning
  BY <1>3 DEF StartSetsRunning
<1>4. CASE StartSpawns
  BY <1>4 DEF StartSpawns
<1>5. CASE StopSignals
  BY <1>5 DEF StopSignals
<1>6. CASE StopJoins
  BY <1>6 DEF StopJoins
<1>7. CASE StopClearsRunning
  BY <1>7 DEF StopClearsRunning
<1>8. CASE CallRunUntilEmpty
  BY <1>8 DEF CallRunUntilEmpty
<1>9. CASE CheckStop
  BY <1>9 DEF CheckStop, Goto
<1>10. CASE CheckSentinel
  BY <1>10 DEF CheckSentinel, Goto
<1>11. CASE LoopClearsRunning
  BY <1>11 DEF LoopClearsRunning, Goto
<1>12. CASE LoopEnds
  BY <1>12 DEF LoopEnds, Goto
<1>13. ASSUME NEW t \in Threads, ReceiveMessage(t) PROVE (LeftForReason /\ DepthIsLast)'
  BY <1>13 DEF ReceiveMessage, Goto
<1>14. ASSUME NEW t \in Threads, ReceiveSentinel(t) PROVE (LeftForReason /\ DepthIsLast)'
  BY <1>14 DEF ReceiveSentinel, Goto
<1>15. ASSUME NEW t \in Threads, ReceiveNothing(t) PROVE (LeftForReason /\ DepthIsLast)'
  BY <1>15 DEF ReceiveNothing, Goto
<1>16. ASSUME NEW t \in Threads, Consume(t) PROVE (LeftForReason /\ DepthIsLast)'
  BY <1>16 DEF Consume, Goto
<1>17. ASSUME NEW t \in Threads, ReadSize(t) PROVE (LeftForReason /\ DepthIsLast)'
  BY <1>17 DEF ReadSize, Goto
<1>18. ASSUME NEW t \in Threads, SetDepth(t) PROVE (LeftForReason /\ DepthIsLast)'
  BY <1>18 DEF SetDepth, Goto
<1>19. ASSUME NEW t \in Threads, HandleRejects(t) PROVE (LeftForReason /\ DepthIsLast)'
  BY <1>19 DEF HandleRejects, Goto
<1>20. ASSUME NEW t \in Threads, HandleSkipsDuplicate(t) PROVE (LeftForReason /\ DepthIsLast)'
  BY <1>20 DEF HandleSkipsDuplicate, Goto
<1>21. ASSUME NEW t \in Threads, HandleAccepts(t) PROVE (LeftForReason /\ DepthIsLast)'
  BY <1>21 DEF HandleAccepts, Goto
<1>22. ASSUME NEW t \in Threads, UpsertHour(t) PROVE (LeftForReason /\ DepthIsLast)'
  BY <1>22 DEF UpsertHour, Goto, Upsert
<1>23. ASSUME NEW t \in Threads, UpsertDay(t) PROVE (LeftForReason /\ DepthIsLast)'
  BY <1>23 DEF UpsertDay, Goto, Upsert
<1>24. ASSUME NEW t \in Threads, Remember(t) PROVE (LeftForReason /\ DepthIsLast)'
  BY <1>24 DEF Remember, Goto
<1>25. ASSUME NEW t \in Threads, RecordError(t) PROVE (LeftForReason /\ DepthIsLast)'
  BY <1>25 DEF RecordError, Goto
<1>26. ASSUME NEW t \in Threads, Settle(t) PROVE (LeftForReason /\ DepthIsLast)'
  BY <1>26 DEF Settle, Goto, NextRound
<1>27. ASSUME NEW t \in Threads, SetExitDepth(t) PROVE (LeftForReason /\ DepthIsLast)'
  BY <1>27 DEF SetExitDepth, Goto
<1> QED
  BY <1>1, <1>2, <1>3, <1>4, <1>5, <1>6, <1>7, <1>8, <1>9, <1>10, <1>11, <1>12,
     <1>13, <1>14, <1>15, <1>16, <1>17, <1>18, <1>19, <1>20, <1>21, <1>22,
     <1>23, <1>24, <1>25, <1>26, <1>27
  DEF ConsumerNext, MainCalls, MainReturns, LoopThread, DrainThread, LoopOnly,
      Receive, ProcessMessage, Threads

LEMMA EndingStep == TypeOK /\ EndingInv /\ [Next]_vars => EndingInv'
<1> SUFFICES ASSUME TypeOK, EndingInv, [Next]_vars PROVE EndingInv'
  OBVIOUS
<1> USE DEF EndingInv
<1>1. CASE ConsumerStep
  BY <1>1, LastConsumer, LeavingConsumer DEF ConsumerStep
<1>2. CASE ProducerStep
  <2>1. SentinelIsLast'
    BY <1>2, LastProducer DEF ProducerStep
  <2>2. UNCHANGED <<externals, cvars>> /\ (runs' <= 1 => runs <= 1)
    BY <1>2, EndingTyped DEF Counters, ProducerStep, ProducerNext, ProducerThread, StartProducer,
       StopProducer, Connect, ConnectFails, SeeStop, FlushAtEnd, ReadFails, ReadRow,
       AppendRow, AppendAfterGap, PublishNext, PutEvent, CountEvent, PutSentinel,
       ProducerEnds
  <2>3. LeftForReason'
    BY <2>2 DEF LeftForReason, cvars
  <2>4. DepthIsLast'
    BY <2>2 DEF DepthIsLast, cvars
  <2> QED  BY <2>1, <2>3, <2>4
<1>3. CASE ExternalPut
  <2>1. externals' # 0 /\ UNCHANGED cvars
    BY <1>3, EndingTyped DEF ExternalPut, Counters
  <2> QED  BY <2>1 DEF LeftForReason, SentinelIsLast, DepthIsLast, cvars
<1>4. CASE UNCHANGED vars
  BY <1>4 DEF vars, cvars, pvars, LeftForReason, SentinelIsLast, DepthIsLast
<1> QED  BY <1>1, <1>2, <1>3, <1>4 DEF Next

LEMMA EndingInit == Init => EndingInv
BY DEF Init, ProducerInit, ConsumerInit, EndingInv, LeftForReason, SentinelIsLast,
   DepthIsLast, Leaving, Threads

(* The loop of a stream with one source that runs once never leaves by      *)
(* itself before the producer has put its last item, nor while anything is  *)
(* queued, not even when run_until_empty takes the sentinel.                *)
THEOREM LoopEndsLast == Spec => []EndsOnlyAfterSoleRun
<1>1. TypeOK /\ EndingInv => EndsOnlyAfterSoleRun
  BY EndingTyped DEF Counters, EndingInv, LeftForReason, SentinelIsLast, EndsOnlyAfterSoleRun,
     EndsOnlyAfterProducer, LoopEndsByItself, ProducerIsDone, Leaving
<1> QED  BY <1>1, EndingInit, EndingStep, TypeCorrect, PTL DEF Spec

(* When such a loop has ended by itself, every event the producer counted   *)
(* has been consumed, the flag is off and the depth reported is 0.          *)
THEOREM EndedMeansDrained == Spec => []StreamDrained
<1>1. ASSUME TypeOK, EndingInv, Conserved, RunningMeansAlive PROVE StreamDrained
  <2> SUFFICES ASSUME starts > 0, mpc = "idle", ~cstop, ~LoopAlive,
                      runs = 1, externals = 0, drains = 0
               PROVE  consumed = produced /\ depth = 0 /\ ~running
    BY DEF StreamDrained
  <2>1. ~running
    BY <1>1 DEF RunningMeansAlive
  <2>2. sentinelReceived /\ depth = 0
    BY <1>1 DEF EndingInv, LeftForReason, DepthIsLast, LoopAlive
  <2>3. ppc # "count" /\ sentinels = sentinelsTaken /\ queue = <<>>
    BY <1>1, <2>2 DEF EndingInv, SentinelIsLast
  <2>4. pc["loop"] = "idle" /\ pc["drain"] = "idle"
    BY <1>1 DEF EndingInv, DepthIsLast, LoopAlive
  <2>5. consumed = produced
    BY <1>1, <2>3, <2>4, EndingTyped DEF Conserved, Taken, Counters
  <2> QED  BY <2>1, <2>2, <2>5
<1> QED
  BY <1>1, EndingInit, EndingStep, TypeCorrect, ItemsConserved, RunningFlagHonest, PTL
  DEF Spec

-----------------------------------------------------------------------------
(* TruncationExplained                                                     *)

(* As long as nothing went wrong and nobody stopped it, every row the       *)
(* producer has read is counted, in the hands of _publish_batch, between    *)
(* put and count, or batched; it leaves when they all are counted.  The     *)
(* last batch stays in place when it is handed over.                        *)
RowsAccounted ==
    /\ runs = 0 => ppc = "idle" /\ sentinels = 0
    /\ runs = 1 => sentinels <= 1 /\ (sentinels = 1 => ppc \in {"ending", "idle"})
    /\ runs = 1 /\ ~pstop /\ ~producerError =>
        /\ ppc = "connect" => produced = 0
        /\ ppc \in {"read", "append"} => produced + Len(batch) = row - 1
        /\ ppc \in {"publish", "put"} /\ resume # "sentinel" =>
               produced + Len(out) + Len(batch) = row - 1
        /\ ppc = "count" /\ resume # "sentinel" =>
               produced + 1 + Len(out) + Len(batch) = row - 1
        /\ ppc \in {"publish", "put"} /\ resume = "sentinel" =>
               produced + Len(out) >= Len(Rows)
        /\ ppc = "count" /\ resume = "sentinel" =>
               produced + 1 + Len(out) >= Len(Rows)
        /\ ppc = "sentinel" \/ sentinels = 1 => produced >= Len(Rows)

LEMMA PublishSize ==
    ASSUME ProducerTypeOK, NEW b \in Seq(Message), NEW next, next # "publish",
           PublishThen(b, next)
    PROVE  /\ ppc' \in {next, "publish"} /\ (ppc' = "publish" => resume' = next)
           /\ IF ppc' = "publish" THEN Len(out') = Len(b) ELSE b = <<>>
BY ReorderingsType DEF PublishThen

LEMMA ProducerSizes ==
    ProducerTypeOK => /\ Len(out) \in Nat /\ Len(batch) \in Nat /\ batch \in Seq(Message)
                      /\ produced \in Nat /\ runs \in Nat /\ sentinels \in Nat /\ row \in Nat
                      /\ pstop \in BOOLEAN /\ producerError \in BOOLEAN /\ Len(Rows) \in Nat
BY ProducerAssumption DEF ProducerTypeOK

LEMMA AppendSize ==
    ASSUME ProducerTypeOK, RowsAccounted, row <= Len(Rows), ppc \in {"read", "append"},
           NEW kind \in EventKinds, AppendRow(kind)
    PROVE  RowsAccounted'
<1> DEFINE grown == Append(batch, EventOf(kind))
<1>1. grown \in Seq(Message) /\ Len(grown) = Len(batch) + 1 /\ grown # <<>>
  BY EventOfType DEF ProducerTypeOK
<1>2. UNCHANGED <<produced, pstop, producerError, runs, sentinels>> /\ row' = row + 1
  BY DEF AppendRow
<1>3. CASE PublishThen(grown, "read") /\ batch' = <<>>
  <2>1. ppc' = "publish" /\ resume' = "read" /\ Len(out') = Len(batch) + 1 /\ Len(batch') = 0
    BY <1>1, <1>3, PublishSize
  <2> QED  BY <1>2, <2>1, ProducerSizes, SMTT(40) DEF RowsAccounted
<1>4. CASE ppc' = "read" /\ batch' = grown
  BY <1>1, <1>2, <1>4, ProducerSizes, SMTT(40) DEF RowsAccounted
<1> QED  BY <1>3, <1>4 DEF AppendRow

LEMMA AccountedProducer ==
    ASSUME ProducerTypeOK, RowsAccounted, ProducerNext
    PROVE  RowsAccounted'
<1> USE ProducerSizes DEF RowsAccounted
<1>1. CASE StartProducer
  BY <1>1 DEF StartProducer, ProducerAlive
<1>2. CASE StopProducer
  BY <1>2 DEF StopProducer
<1>3. CASE Connect
  BY <1>3 DEF Connect
<1>4. CASE ConnectFails
  BY <1>4 DEF ConnectFails
<1>5. CASE SeeStop
  BY <1>5 DEF SeeStop
<1>6. CASE FlushAtEnd
  <2>1. /\ ppc' \in {"sentinel", "publish"} /\ (ppc' = "publish" => resume' = "sentinel")
        /\ IF ppc' = "publish" THEN Len(out') = Len(batch) ELSE batch = <<>>
    BY <1>6, PublishSize DEF FlushAtEnd
  <2> QED  BY <1>6, <2>1 DEF FlushAtEnd
<1>7. CASE ReadFails
  BY <1>7 DEF ReadFails
<1>8. CASE ReadRow
  <2>1. CASE GapBeforeRow
    <3>1. /\ ppc' \in {"append", "publish"} /\ (ppc' = "publish" => resume' = "append")
          /\ IF ppc' = "publish" THEN Len(out') = Len(batch) ELSE batch = <<>>
      BY <1>8, <2>1, PublishSize DEF ReadRow
    <3> QED  BY <1>8, <2>1, <3>1 DEF ReadRow
  <2>2. CASE ~GapBeforeRow
    BY <1>8, <2>2, AppendSize DEF ReadRow
  <2> QED  BY <2>1, <2>2
<1>9. CASE AppendAfterGap
  BY <1>9, AppendSize DEF AppendAfterGap, ProducerTypeOK
<1>10. CASE PublishNext
  <2>1. CASE out # <<>> /\ ~pstop
    BY <1>10, <2>1 DEF PublishNext
  <2>2. CASE pstop
    BY <1>10, <2>2 DEF PublishNext, ProducerTypeOK
  <2>3. CASE out = <<>>
    <3>1. Len(out) = 0 /\ Len(out') = 0
      BY <1>10, <2>3 DEF PublishNext
    <3> QED  BY <1>10, <2>3, <3>1 DEF PublishNext, ProducerTypeOK
  <2> QED  BY <2>1, <2>2, <2>3
<1>11. CASE PutEvent
  <2>1. Len(out') = Len(out) - 1
    BY <1>11 DEF PutEvent, ProducerTypeOK
  <2> QED  BY <1>11, <2>1, SMTT(30) DEF PutEvent
<1>12. CASE CountEvent
  BY <1>12 DEF CountEvent
<1>13. CASE PutSentinel
  BY <1>13 DEF PutSentinel
<1>14. CASE ProducerEnds
  BY <1>14 DEF ProducerEnds
<1> QED
  BY <1>1, <1>2, <1>3, <1>4, <1>5, <1>6, <1>7, <1>8, <1>9, <1>10, <1>11, <1>12,
     <1>13, <1>14
  DEF ProducerNext, ProducerThread

LEMMA AccountedRowsStep == TypeOK /\ RowsAccounted /\ [Next]_vars => RowsAccounted'
<1> SUFFICES ASSUME TypeOK, RowsAccounted, [Next]_vars PROVE RowsAccounted'
  OBVIOUS
<1>1. CASE ProducerStep
  BY <1>1, AccountedProducer DEF ProducerStep, TypeOK
<1>2. CASE UNCHANGED pvars
  BY <1>2 DEF pvars, RowsAccounted
<1> QED  BY <1>1, <1>2 DEF Next, ExternalPut, ConsumerStep, vars

(* A sentinel never follows a truncated stream unexplained: rows are only   *)
(* missing behind it when the producer was stopped or /health is degraded.  *)
THEOREM TruncationReported == Spec => []TruncationExplained
<1>1. Init => RowsAccounted
  BY DEF Init, ProducerInit, RowsAccounted
<1>2. TypeOK /\ RowsAccounted => TruncationExplained
  BY ProducerSizes DEF TypeOK, RowsAccounted, TruncationExplained, Health
<1> QED  BY <1>1, <1>2, TypeCorrect, AccountedRowsStep, PTL DEF Spec
-----------------------------------------------------------------------------
(* ProcessesAllAlone                                                       *)

(* While run_until_empty is the only consumer and no sentinel is about, what *)
(* was put before it was called is consumed, in its hands or still queued;   *)
(* it leaves only when nothing is left of the last two.                      *)
AloneInv ==
    starts = 0 /\ sentinels = 0 =>
        /\ pc["loop"] = "idle" /\ mpc = "idle"
        /\ \A i \in 1..Len(queue) : queue[i] # Sentinel
        /\ drains > 0 =>
             /\ goal <= consumed + Taken("drain") + Len(queue)
             /\ pc["drain"] \in {"idle", "exitsize", "exitdepth"} => goal <= consumed

LEMMA AloneTyped ==
    TypeOK => /\ Counters /\ queue \in Seq(Message \cup {Sentinel}) /\ goal \in Nat
              /\ pc \in [Threads -> Labels] /\ pc["drain"] \notin LoopLabels
              /\ drains \in Nat /\ starts \in Nat
BY CounterTypes DEF TypeOK, QueueTypeOK, ConsumerTypeOK

(* Without a sentinel, every item queued is an event. *)
LEMMA AllQueuedAreEvents ==
    ASSUME TypeOK, \A i \in 1..Len(queue) : queue[i] # Sentinel
    PROVE  EventsQueued = Len(queue)
<1>1. {i \in 1..Len(queue) : queue[i] # Sentinel} = 1..Len(queue)
  OBVIOUS
<1>2. Len(queue) \in Nat
  BY AloneTyped
<1>3. Cardinality(1..Len(queue)) = Len(queue)
  BY <1>2, UpToCounts
<1> QED  BY <1>1, <1>3 DEF EventsQueued

LEMMA AloneConsumer ==
    ASSUME TypeOK, AloneInv, UNCHANGED sentinels, ConsumerNext
    PROVE  AloneInv'
<1> USE AloneTyped DEF transportVars, mainVars, callVars, handlerVars, counterVars,
        statusVars, AloneInv, Counters, Taken, Threads, Labels, LoopLabels
<1>1. CASE StartWhileAlive
  BY <1>1 DEF StartWhileAlive
<1>2. CASE StartClears
  BY <1>2 DEF StartClears
<1>3. CASE StartSetsRunning
  BY <1>3 DEF StartSetsRunning
<1>4. CASE StartSpawns
  BY <1>4 DEF StartSpawns
<1>5. CASE StopSignals
  BY <1>5 DEF StopSignals
<1>6. CASE StopJoins
  BY <1>6 DEF StopJoins
<1>7. CASE StopClearsRunning
  BY <1>7 DEF StopClearsRunning
<1>8. CASE CallRunUntilEmpty
  BY <1>8, AllQueuedAreEvents, SMTT(30) DEF CallRunUntilEmpty
<1>9. CASE CheckStop
  BY <1>9 DEF CheckStop, Goto
<1>10. CASE CheckSentinel
  BY <1>10 DEF CheckSentinel, Goto
<1>11. CASE LoopClearsRunning
  BY <1>11 DEF LoopClearsRunning, Goto
<1>12. CASE LoopEnds
  BY <1>12 DEF LoopEnds, Goto
<1>13. ASSUME NEW t \in Threads, ReceiveMessage(t) PROVE AloneInv'
  <2>1. /\ queue # <<>> /\ queue' = Tail(queue) /\ pc[t] = "receive"
        /\ UNCHANGED <<goal, drains, starts, mpc, consumed, sentinels>>
        /\ pc' = [pc EXCEPT ![t] = "consume"]
    BY <1>13 DEF ReceiveMessage, Get, Goto
  <2>2. Len(queue') = Len(queue) - 1 /\ \A i \in 1..Len(queue') : queue'[i] = queue[i + 1]
    BY <2>1, TailOfQueue
  <2>3. \A i \in 1..Len(queue') : i + 1 \in 1..Len(queue)
    BY <2>2, SMTT(30)
  <2> QED  BY <2>1, <2>2, <2>3, SMTT(30)
<1>14. ASSUME NEW t \in Threads, ReceiveSentinel(t) PROVE AloneInv'
  <2>1. /\ queue # <<>> /\ Head(queue) = Sentinel /\ pc[t] = "receive"
        /\ UNCHANGED <<goal, drains, starts, mpc, consumed, sentinels>>
    BY <1>14 DEF ReceiveSentinel, Get
  <2>2. 1 \in 1..Len(queue) /\ Head(queue) = queue[1]
    BY <2>1
  <2>3. ~(starts' = 0 /\ sentinels' = 0)
    BY <2>1, <2>2
  <2> QED  BY <2>3
<1>15. ASSUME NEW t \in Threads, ReceiveNothing(t) PROVE AloneInv'
  BY <1>15 DEF ReceiveNothing, Goto
<1>16. ASSUME NEW t \in Threads, Consume(t) PROVE AloneInv'
  BY <1>16 DEF Consume, Goto
<1>17. ASSUME NEW t \in Threads, ReadSize(t) PROVE AloneInv'
  BY <1>17 DEF ReadSize, Goto
<1>18. ASSUME NEW t \in Threads, SetDepth(t) PROVE AloneInv'
  BY <1>18 DEF SetDepth, Goto
<1>19. ASSUME NEW t \in Threads, HandleRejects(t) PROVE AloneInv'
  BY <1>19 DEF HandleRejects, Goto
<1>20. ASSUME NEW t \in Threads, HandleSkipsDuplicate(t) PROVE AloneInv'
  BY <1>20 DEF HandleSkipsDuplicate, Goto
<1>21. ASSUME NEW t \in Threads, HandleAccepts(t) PROVE AloneInv'
  BY <1>21 DEF HandleAccepts, Goto
<1>22. ASSUME NEW t \in Threads, UpsertHour(t) PROVE AloneInv'
  BY <1>22 DEF UpsertHour, Goto, Upsert
<1>23. ASSUME NEW t \in Threads, UpsertDay(t) PROVE AloneInv'
  BY <1>23 DEF UpsertDay, Goto, Upsert
<1>24. ASSUME NEW t \in Threads, Remember(t) PROVE AloneInv'
  BY <1>24 DEF Remember, Goto
<1>25. ASSUME NEW t \in Threads, RecordError(t) PROVE AloneInv'
  BY <1>25 DEF RecordError, Goto
<1>26. ASSUME NEW t \in Threads, Settle(t) PROVE AloneInv'
  BY <1>26 DEF Settle, Goto, NextRound
<1>27. ASSUME NEW t \in Threads, SetExitDepth(t) PROVE AloneInv'
  BY <1>27 DEF SetExitDepth, Goto
<1> QED
  BY <1>1, <1>2, <1>3, <1>4, <1>5, <1>6, <1>7, <1>8, <1>9, <1>10, <1>11, <1>12,
     <1>13, <1>14, <1>15, <1>16, <1>17, <1>18, <1>19, <1>20, <1>21, <1>22,
     <1>23, <1>24, <1>25, <1>26, <1>27
  DEF ConsumerNext, MainCalls, MainReturns, LoopThread, DrainThread, LoopOnly,
      Receive, ProcessMessage, Threads

LEMMA AloneStep == TypeOK /\ AloneInv /\ [Next]_vars => AloneInv'
<1> SUFFICES ASSUME TypeOK, AloneInv, [Next]_vars PROVE AloneInv'
  OBVIOUS
<1>1. CASE ConsumerStep
  BY <1>1, AloneConsumer DEF ConsumerStep, pvars
<1>2. ASSUME NEW m \in Message, Put(m), UNCHANGED <<cvars, sentinels>> PROVE AloneInv'
  <2>1. Len(queue') = Len(queue) + 1 /\ queue' = Append(queue, m) /\ m # Sentinel
    BY <1>2, PutGrows, SentinelAssumption DEF Put
  <2>2. \A i \in 1..Len(queue') : queue'[i] = IF i = Len(queue') THEN m ELSE queue[i]
    BY <2>1, AloneTyped
  <2>3. UNCHANGED <<starts, drains, goal, consumed, pc, mpc, sentinels>>
    BY <1>2 DEF cvars
  <2> QED  BY <2>1, <2>2, <2>3, AloneTyped, SMTT(30) DEF AloneInv, Counters, Taken
<1>3. CASE UNCHANGED <<queue, cvars>> /\ (sentinels' = 0 => sentinels = 0)
  BY <1>3, AloneTyped DEF cvars, AloneInv, Taken
<1>4. CASE ExternalPut
  BY <1>2, <1>4, ExternalAssumption DEF ExternalPut, pvars
<1>5. CASE ProducerStep
  <2>1. CASE PutEvent
    <3>1. Head(out) \in Message
      BY <2>1 DEF TypeOK, ProducerTypeOK, PutEvent
    <3> QED  BY <1>2, <1>5, <2>1, <3>1 DEF PutEvent, ProducerStep
  <2>2. CASE PutSentinel
    <3>1. sentinels' # 0 /\ UNCHANGED cvars
      BY <1>5, <2>2, AloneTyped DEF PutSentinel, ProducerStep, Counters
    <3> QED  BY <3>1 DEF AloneInv
  <2>3. CASE ProducerNext /\ ~PutEvent /\ ~PutSentinel
    BY <1>3, <1>5, <2>3
    DEF ProducerStep, ProducerNext, ProducerThread, StartProducer, StopProducer, Connect,
        ConnectFails, SeeStop, FlushAtEnd, ReadFails, ReadRow, AppendAfterGap, AppendRow,
        PublishNext, CountEvent, ProducerEnds
  <2> QED  BY <1>5, <2>1, <2>2, <2>3 DEF ProducerStep
<1> QED  BY <1>1, <1>3, <1>4, <1>5 DEF Next, vars, pvars

(* run_until_empty, called while no other thread consumes and no sentinel   *)
(* is about, has settled everything that was put before the call when it    *)
(* returns, whatever is put while it runs (consumer.py:114-127).            *)
THEOREM AvailableProcessed == Spec => []ProcessesAllAlone
<1>1. Init => AloneInv
  BY DEF Init, ProducerInit, ConsumerInit, AloneInv, Threads
<1>2. TypeOK /\ AloneInv /\ Accounted => ProcessesAllAlone
  BY AloneTyped DEF AloneInv, Accounted, InFlight, HoldingLabels, ProcessesAllAlone,
     ProcessesAllAvailable, Counters, Threads
<1> QED
  BY <1>1, <1>2, AloneStep, TypeCorrect, EveryEventAccounted, PTL DEF Spec
=============================================================================
