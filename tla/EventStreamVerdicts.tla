-------------------------- MODULE EventStreamVerdicts --------------------------
(***************************************************************************)
(* What becomes of the messages of EventStream, for every value of the     *)
(* constants: it keeps what Settlement promises, its watermark covers its  *)
(* aggregates, the hour and the day hold the same events, what is reported *)
(* as a success is in them, and under the conditions of the duplicate      *)
(* check only once.                                                        *)
(***************************************************************************)
EXTENDS EventStreamSafety

(* What a thread holds on its way through handle() is what that way is for: *)
(* only a reading is aggregated, and the verdict a thread brings to the     *)
(* counters is one its message allows.                                      *)
VerdictsDeserved ==
    \A t \in Threads :
        /\ pc[t] \in {"hour", "day"} => msg[t].kind = "reading"
        /\ pc[t] = "remember" => msg[t].kind \in {"reading", "no_value"}
        /\ pc[t] \in {"error", "settle"} => verdict[t] \in Promise!MaySettle(msg[t])

LEMMA VerdictsTyped ==
    TypeOK => /\ pc \in [Threads -> Labels] /\ verdict \in [Threads -> Verdicts]
              /\ msg \in [Threads -> Message]
BY DEF TypeOK, ConsumerTypeOK

LEMMA DeservedConsumer ==
    ASSUME TypeOK, VerdictsDeserved, ConsumerNext
    PROVE  VerdictsDeserved'
<1> USE VerdictsTyped DEF transportVars, mainVars, callVars, handlerVars, counterVars,
        statusVars, VerdictsDeserved, Threads, Labels, LoopLabels, Verdicts
<1>1. CASE StartWhileAlive
  BY <1>1 DEF StartWhileAlive
<1>2. CASE StartClears
  BY <1>2 DEF StartClears
<1>3. CASE StartSetsRunning
  BY <1>3 DEF StartSetsRunning
<1>4. CASE StartSpawns
  BY <1>4 DEF StartSpawns
<1>5. CASE StopSignals
  BY <1>5 DEF StopSignals
<1>6. CASE StopJoins
  BY <1>6 DEF StopJoins
<1>7. CASE StopClearsRunning
  BY <1>7 DEF StopClearsRunning
<1>8. CASE CallRunUntilEmpty
  BY <1>8 DEF CallRunUntilEmpty
<1>9. CASE CheckStop
  BY <1>9 DEF CheckStop, Goto
<1>10. CASE CheckSentinel
  BY <1>10 DEF CheckSentinel, Goto
<1>11. CASE LoopClearsRunning
  BY <1>11 DEF LoopClearsRunning, Goto
<1>12. CASE LoopEnds
  BY <1>12 DEF LoopEnds, Goto
<1>13. ASSUME NEW t \in Threads, ReceiveMessage(t) PROVE VerdictsDeserved'
  BY <1>13 DEF ReceiveMessage, Goto
<1>14. ASSUME NEW t \in Threads, ReceiveSentinel(t) PROVE VerdictsDeserved'
  BY <1>14 DEF ReceiveSentinel, Goto
<1>15. ASSUME NEW t \in Threads, ReceiveNothing(t) PROVE VerdictsDeserved'
  BY <1>15 DEF ReceiveNothing, Goto
<1>16. ASSUME NEW t \in Threads, Consume(t) PROVE VerdictsDeserved'
  BY <1>16 DEF Consume, Goto
<1>17. ASSUME NEW t \in Threads, ReadSize(t) PROVE VerdictsDeserved'
  BY <1>17 DEF ReadSize, Goto
<1>18. ASSUME NEW t \in Threads, SetDepth(t) PROVE VerdictsDeserved'
  BY <1>18 DEF SetDepth, Goto
<1>19. ASSUME NEW t \in Threads, HandleRejects(t) PROVE VerdictsDeserved'
  BY <1>19, ZenonT(40) DEF HandleRejects, Goto, VerdictOf, Promise!MaySettle
<1>20. ASSUME NEW t \in Threads, HandleSkipsDuplicate(t) PROVE VerdictsDeserved'
  BY <1>20 DEF HandleSkipsDuplicate, Goto, Promise!MaySettle, Message, Kinds
<1>21. ASSUME NEW t \in Threads, HandleAccepts(t) PROVE VerdictsDeserved'
  BY <1>21 DEF HandleAccepts, Goto
<1>22. ASSUME NEW t \in Threads, UpsertHour(t) PROVE VerdictsDeserved'
  BY <1>22 DEF UpsertHour, Goto, Upsert
<1>23. ASSUME NEW t \in Threads, UpsertDay(t) PROVE VerdictsDeserved'
  BY <1>23 DEF UpsertDay, Goto, Upsert
<1>24. ASSUME NEW t \in Threads, Remember(t) PROVE VerdictsDeserved'
  BY <1>24 DEF Remember, Goto, Promise!MaySettle
<1>25. ASSUME NEW t \in Threads, RecordError(t) PROVE VerdictsDeserved'
  BY <1>25 DEF RecordError, Goto
<1>26. ASSUME NEW t \in Threads, Settle(t) PROVE VerdictsDeserved'
  BY <1>26 DEF Settle, Goto, NextRound
<1>27. ASSUME NEW t \in Threads, SetExitDepth(t) PROVE VerdictsDeserved'
  BY <1>27 DEF SetExitDepth, Goto
<1> QED
  BY <1>1, <1>2, <1>3, <1>4, <1>5, <1>6, <1>7, <1>8, <1>9, <1>10, <1>11,
     <1>12, <1>13, <1>14, <1>15, <1>16, <1>17, <1>18, <1>19, <1>20, <1>21,
     <1>22, <1>23, <1>24, <1>25, <1>26, <1>27
  DEF ConsumerNext, MainCalls, MainReturns, LoopThread, DrainThread, LoopOnly,
      Receive, ProcessMessage, Threads

LEMMA DeservedStep == TypeOK /\ VerdictsDeserved /\ [Next]_vars => VerdictsDeserved'
<1> SUFFICES ASSUME TypeOK, VerdictsDeserved, [Next]_vars PROVE VerdictsDeserved'
  OBVIOUS
<1>1. CASE ConsumerStep
  BY <1>1, DeservedConsumer DEF ConsumerStep
<1>2. CASE UNCHANGED cvars
  BY <1>2 DEF cvars, VerdictsDeserved
<1> QED  BY <1>1, <1>2 DEF Next, ExternalPut, ProducerStep, vars

-----------------------------------------------------------------------------
(* The steps Settlement does not see                                       *)

(* Nothing put, taken or settled, and nobody's hands are filled or emptied. *)
Quiet ==
    /\ UNCHANGED <<queue, msg, succeeded, malformed, failed>>
    /\ \A t \in Threads : (pc'[t] \in HoldingLabels) = (pc[t] \in HoldingLabels)

LEMMA QuietStutters == Quiet => UNCHANGED <<queue, Hand, Tally>>
<1> SUFFICES ASSUME Quiet PROVE UNCHANGED <<queue, Hand, Tally>>
  OBVIOUS
<1>1. Hand' = Hand
  BY DEF Quiet, Hand
<1>2. Tally' = Tally
  BY DEF Quiet, Tally
<1> QED  BY <1>1, <1>2 DEF Quiet

LEMMA ConsumerQuiet ==
    ASSUME TypeOK, OneLoopThread, ConsumerNext
    PROVE  Quiet \/ \E t \in Threads : ReceiveMessage(t) \/ ReceiveSentinel(t) \/ Settle(t)
<1> USE VerdictsTyped DEF transportVars, mainVars, callVars, handlerVars, counterVars,
        statusVars, Quiet, HoldingLabels, Threads, Labels, LoopLabels
<1>1. CASE StartWhileAlive
  BY <1>1 DEF StartWhileAlive
<1>2. CASE StartClears
  BY <1>2 DEF StartClears
<1>3. CASE StartSetsRunning
  BY <1>3 DEF StartSetsRunning
<1>4. CASE StartSpawns
  BY <1>4 DEF StartSpawns, OneLoopThread, LoopAlive
<1>5. CASE StopSignals
  BY <1>5 DEF StopSignals
<1>6. CASE StopJoins
  BY <1>6 DEF StopJoins
<1>7. CASE StopClearsRunning
  BY <1>7 DEF StopClearsRunning
<1>8. CASE CallRunUntilEmpty
  BY <1>8 DEF CallRunUntilEmpty
<1>9. CASE CheckStop
  BY <1>9 DEF CheckStop, Goto
<1>10. CASE CheckSentinel
  BY <1>10 DEF CheckSentinel, Goto
<1>11. CASE LoopClearsRunning
  BY <1>11 DEF LoopClearsRunning, Goto
<1>12. CASE LoopEnds
  BY <1>12 DEF LoopEnds, Goto
<1>13. ASSUME NEW t \in Threads, ReceiveNothing(t) PROVE Quiet
  BY <1>13 DEF ReceiveNothing, Goto
<1>14. ASSUME NEW t \in Threads, Consume(t) PROVE Quiet
  BY <1>14 DEF Consume, Goto
<1>15. ASSUME NEW t \in Threads, ReadSize(t) PROVE Quiet
  BY <1>15 DEF ReadSize, Goto
<1>16. ASSUME NEW t \in Threads, SetDepth(t) PROVE Quiet
  BY <1>16 DEF SetDepth, Goto
<1>17. ASSUME NEW t \in Threads, HandleRejects(t) PROVE Quiet
  BY <1>17 DEF HandleRejects, Goto
<1>18. ASSUME NEW t \in Threads, HandleSkipsDuplicate(t) PROVE Quiet
  BY <1>18 DEF HandleSkipsDuplicate, Goto
<1>19. ASSUME NEW t \in Threads, HandleAccepts(t) PROVE Quiet
  BY <1>19 DEF HandleAccepts, Goto
<1>20. ASSUME NEW t \in Threads, UpsertHour(t) PROVE Quiet
  BY <1>20 DEF UpsertHour, Goto, Upsert
<1>21. ASSUME NEW t \in Threads, UpsertDay(t) PROVE Quiet
  BY <1>21 DEF UpsertDay, Goto, Upsert
<1>22. ASSUME NEW t \in Threads, Remember(t) PROVE Quiet
  BY <1>22 DEF Remember, Goto
<1>23. ASSUME NEW t \in Threads, RecordError(t) PROVE Quiet
  BY <1>23 DEF RecordError, Goto
<1>24. ASSUME NEW t \in Threads, SetExitDepth(t) PROVE Quiet
  BY <1>24 DEF SetExitDepth, Goto
<1> QED
  BY <1>1, <1>2, <1>3, <1>4, <1>5, <1>6, <1>7, <1>8, <1>9, <1>10, <1>11, <1>12,
     <1>13, <1>14, <1>15, <1>16, <1>17, <1>18, <1>19, <1>20, <1>21, <1>22,
     <1>23, <1>24
  DEF ConsumerNext, MainCalls, MainReturns, LoopThread, DrainThread, LoopOnly,
      Receive, ProcessMessage, Threads

LEMMA ProducerQuiet ==
    ASSUME ProducerNext, UNCHANGED <<externals, cvars>>
    PROVE  Quiet \/ PutEvent \/ PutSentinel
<1> USE DEF cvars, Quiet
<1>1. CASE StartProducer
  BY <1>1 DEF StartProducer
<1>2. CASE StopProducer
  BY <1>2 DEF StopProducer
<1>3. CASE Connect
  BY <1>3 DEF Connect
<1>4. CASE ConnectFails
  BY <1>4 DEF ConnectFails
<1>5. CASE SeeStop
  BY <1>5 DEF SeeStop
<1>6. CASE FlushAtEnd
  BY <1>6 DEF FlushAtEnd, PublishThen
<1>7. CASE ReadFails
  BY <1>7 DEF ReadFails
<1>8. CASE ReadRow
  BY <1>8 DEF ReadRow, PublishThen, AppendRow
<1>9. CASE AppendAfterGap
  BY <1>9 DEF AppendAfterGap, AppendRow, PublishThen
<1>10. CASE PublishNext
  BY <1>10 DEF PublishNext
<1>11. CASE CountEvent \/ ProducerEnds
  BY <1>11 DEF CountEvent, ProducerEnds
<1> QED
  BY <1>1, <1>2, <1>3, <1>4, <1>5, <1>6, <1>7, <1>8, <1>9, <1>10, <1>11
  DEF ProducerNext, ProducerThread

-----------------------------------------------------------------------------
(* The steps Settlement does see                                           *)

LEMMA PutAccepts ==
    ASSUME TypeOK, NEW x \in Message \cup {Sentinel}, Put(x), UNCHANGED cvars
    PROVE  Promise!Accept
<1>1. queue \in Seq(Message \cup {Sentinel})
  BY DEF TypeOK, QueueTypeOK
<1>2. Len(queue') = Len(queue) + 1 /\ queue'[Len(queue) + 1] = x
  BY <1>1 DEF Put
<1>3. Promise!Put(x)
  BY DEF Put, Promise!Put
<1>4. UNCHANGED <<Hand, Tally>>
  BY DEF cvars, Hand, Tally
<1>5. x \in Promise!Message \cup {Sentinel}
  BY DEF Message, Promise!Message, Kinds, Promise!Kinds
<1> QED  BY <1>2, <1>3, <1>4, <1>5 DEF Promise!Accept

LEMMA ReceiveTakes ==
    ASSUME TypeOK, NEW t \in Threads, ReceiveMessage(t)
    PROVE  Promise!Take(t)
<1>1. pc \in [Threads -> Labels] /\ msg \in [Threads -> Message]
  BY VerdictsTyped
<1>2. Hand[t] = Sentinel
  BY DEF ReceiveMessage, Hand, HoldingLabels
<1>3. Promise!Get /\ Head(queue) # Sentinel
  BY DEF ReceiveMessage, Get, Promise!Get
<1>4. Hand' = [Hand EXCEPT ![t] = Head(queue)]
  BY <1>1 DEF ReceiveMessage, Goto, Hand, HoldingLabels
<1>5. UNCHANGED Tally
  BY DEF ReceiveMessage, Tally, statusVars, counterVars
<1> QED  BY <1>2, <1>3, <1>4, <1>5 DEF Promise!Take

LEMMA ReceiveEnds ==
    ASSUME TypeOK, NEW t \in Threads, ReceiveSentinel(t)
    PROVE  Promise!EndOfStream
<1>1. pc \in [Threads -> Labels] /\ msg \in [Threads -> Message]
  BY VerdictsTyped
<1>2. Promise!Get /\ Head(queue) = Sentinel
  BY DEF ReceiveSentinel, Get, Promise!Get
<1>3. UNCHANGED Hand
  BY <1>1 DEF ReceiveSentinel, Goto, Hand, HoldingLabels
<1>4. UNCHANGED Tally
  BY DEF ReceiveSentinel, Tally, statusVars, counterVars
<1> QED  BY <1>2, <1>3, <1>4 DEF Promise!EndOfStream

LEMMA SettleSettles ==
    ASSUME TypeOK, VerdictsDeserved, NEW t \in Threads, Settle(t)
    PROVE  Promise!SettleOne(t)
<1>1. pc \in [Threads -> Labels] /\ msg \in [Threads -> Message] /\ verdict[t] \in Verdicts
  BY VerdictsTyped
<1>2. Hand[t] = msg[t] /\ Hand[t] # Sentinel
  BY <1>1, SentinelAssumption DEF Settle, Hand, HoldingLabels
<1>3. verdict[t] \in Promise!MaySettle(Hand[t])
  BY <1>2 DEF Settle, VerdictsDeserved
<1>4. Tally' = [Tally EXCEPT ![verdict[t]] = @ + 1]
  BY <1>1 DEF Settle, Tally, Verdicts
<1>5. Hand' = [Hand EXCEPT ![t] = Sentinel]
  BY <1>1 DEF Settle, Goto, NextRound, Hand, HoldingLabels
<1>6. UNCHANGED queue
  BY DEF Settle, transportVars
<1> QED  BY <1>2, <1>3, <1>4, <1>5, <1>6 DEF Promise!SettleOne

LEMMA StepSettles ==
    ASSUME TypeOK, OneLoopThread, VerdictsDeserved, [Next]_vars
    PROVE  [Promise!SettlementNext]_<<queue, Hand, Tally>>
<1>1. CASE ExternalPut
  <2>1. PICK m \in External : Put(m)
    BY <1>1 DEF ExternalPut
  <2>2. UNCHANGED cvars
    BY <1>1 DEF ExternalPut
  <2> QED  BY <2>1, <2>2, PutAccepts, ExternalAssumption DEF Promise!SettlementNext
<1>2. CASE ProducerStep
  <2>1. UNCHANGED cvars /\ (Quiet \/ PutEvent \/ PutSentinel)
    BY <1>2, ProducerQuiet DEF ProducerStep
  <2>2. CASE PutEvent
    <3>1. Head(out) \in Message
      BY <2>2 DEF PutEvent, TypeOK, ProducerTypeOK
    <3> QED  BY <2>1, <2>2, <3>1, PutAccepts DEF PutEvent, Promise!SettlementNext
  <2>3. CASE PutSentinel
    BY <2>1, <2>3, PutAccepts DEF PutSentinel, Promise!SettlementNext
  <2> QED  BY <2>1, <2>2, <2>3, QuietStutters
<1>3. CASE ConsumerStep
  <2>1. Quiet \/ \E t \in Threads : ReceiveMessage(t) \/ ReceiveSentinel(t) \/ Settle(t)
    BY <1>3, ConsumerQuiet DEF ConsumerStep
  <2>2. ASSUME NEW t \in Threads, ReceiveMessage(t) \/ ReceiveSentinel(t) \/ Settle(t)
        PROVE  Promise!SettlementNext
    BY <2>2, ReceiveTakes, ReceiveEnds, SettleSettles DEF Promise!SettlementNext
  <2> QED  BY <2>1, <2>2, QuietStutters
<1>4. CASE UNCHANGED vars
  BY <1>4 DEF vars, cvars, Hand, Tally
<1> QED  BY <1>1, <1>2, <1>3, <1>4 DEF Next

(* Every message put is taken in order by one thread and settled once, with *)
(* a verdict its payload allows, on every path of _process_message and      *)
(* whatever the other threads do.                                           *)
THEOREM SettlementKept == Spec => KeepsPromise
<1>1. Init => VerdictsDeserved
  BY DEF Init, ConsumerInit, VerdictsDeserved, Threads
<1>2. Init => Promise!SettlementInit
  BY DEF Init, ConsumerInit, Promise!SettlementInit, Promise!Outcomes, Hand, Tally,
     HoldingLabels, Threads, Verdicts
<1> QED
  BY <1>1, <1>2, TypeCorrect, NoSecondLoop, DeservedStep, StepSettles, PTL
  DEF Spec, KeepsPromise, Promise!SettlementSpec

-----------------------------------------------------------------------------
(* WatermarkCoversAggregates                                               *)

(* A thread that has counted its message, and may upsert it, has moved the  *)
(* watermark up to it.                                                      *)
HeldIsCovered ==
    \A t \in Threads :
        pc[t] \in {"size", "depth", "handle", "hour", "day"} => msg[t].ts <= watermark
WatermarkInv == WatermarkCoversAggregates /\ HeldIsCovered

LEMMA WatermarkTyped ==
    TypeOK => /\ watermark \in Int /\ upserted \in [Buckets -> Seq(Message)]
              /\ \A t \in Threads : msg[t].ts \in Int
              /\ \A b \in Buckets : \A i \in DOMAIN upserted[b] : upserted[b][i].ts \in Int
<1> SUFFICES ASSUME TypeOK
    PROVE /\ watermark \in Int /\ upserted \in [Buckets -> Seq(Message)]
          /\ \A t \in Threads : msg[t].ts \in Int
          /\ \A b \in Buckets : \A i \in DOMAIN upserted[b] : upserted[b][i].ts \in Int
  OBVIOUS
<1>1. \A m \in Message : m.ts \in Int
  BY QueueMaxAssumption DEF Message
<1>2. upserted \in [Buckets -> Seq(Message)] /\ msg \in [Threads -> Message]
  BY DEF TypeOK, ConsumerTypeOK
<1>3. watermark \in Int
  BY QueueMaxAssumption DEF TypeOK, ConsumerTypeOK
<1> QED  BY <1>1, <1>2, <1>3

LEMMA UpsertCovered ==
    ASSUME TypeOK, WatermarkInv, NEW t \in Threads, NEW b \in Buckets, NEW label,
           label \in {"day", "remember"}, Upsert(t, b, label)
    PROVE  WatermarkInv'
<1>1. pc \in [Threads -> Labels] /\ upserted \in [Buckets -> Seq(Message)]
  BY VerdictsTyped, WatermarkTyped
<1>2. msg[t].ts <= watermark
  BY DEF Upsert, WatermarkInv, HeldIsCovered, Buckets
<1>3. UNCHANGED <<msg, watermark>>
  BY DEF Upsert, statusVars, counterVars
<1>4. HeldIsCovered'
  BY <1>1, <1>2, <1>3 DEF Upsert, Goto, WatermarkInv, HeldIsCovered
<1>5. WatermarkCoversAggregates'
  <2> SUFFICES ASSUME NEW c \in Buckets, NEW i \in DOMAIN upserted'[c]
               PROVE  upserted'[c][i].ts <= watermark
    BY <1>3 DEF WatermarkCoversAggregates
  <2>1. CASE c # b
    BY <1>1, <2>1 DEF Upsert, WatermarkInv, WatermarkCoversAggregates
  <2>2. CASE c = b
    <3>1. upserted'[b] = Append(upserted[b], msg[t]) /\ upserted[b] \in Seq(Message)
      BY <1>1 DEF Upsert
    <3>2. CASE i = Len(upserted[b]) + 1
      BY <1>2, <2>2, <3>1, <3>2
    <3>3. CASE i \in DOMAIN upserted[b]
      BY <2>2, <3>1, <3>3 DEF WatermarkInv, WatermarkCoversAggregates
    <3> QED  BY <2>2, <3>1, <3>2, <3>3
  <2> QED  BY <2>1, <2>2
<1> QED  BY <1>4, <1>5 DEF WatermarkInv

LEMMA WatermarkConsumer ==
    ASSUME TypeOK, WatermarkInv, ConsumerNext
    PROVE  WatermarkInv'
<1> USE VerdictsTyped, WatermarkTyped DEF transportVars, mainVars, callVars, handlerVars,
        counterVars, statusVars, WatermarkInv, WatermarkCoversAggregates, HeldIsCovered,
        Threads, Labels, LoopLabels
<1>1. CASE StartWhileAlive
  BY <1>1 DEF StartWhileAlive
<1>2. CASE StartClears
  BY <1>2 DEF StartClears
<1>3. CASE StartSetsRunning
  BY <1>3 DEF StartSetsRunning
<1>4. CASE StartSpawns
  BY <1>4 DEF StartSpawns
<1>5. CASE StopSignals
  BY <1>5 DEF StopSignals
<1>6. CASE StopJoins
  BY <1>6 DEF StopJoins
<1>7. CASE StopClearsRunning
  BY <1>7 DEF StopClearsRunning
<1>8. CASE CallRunUntilEmpty
  BY <1>8 DEF CallRunUntilEmpty
<1>9. CASE CheckStop
  BY <1>9 DEF CheckStop, Goto
<1>10. CASE CheckSentinel
  BY <1>10 DEF CheckSentinel, Goto
<1>11. CASE LoopClearsRunning
  BY <1>11 DEF LoopClearsRunning, Goto
<1>12. CASE LoopEnds
  BY <1>12 DEF LoopEnds, Goto
<1>13. ASSUME NEW t \in Threads, ReceiveMessage(t) PROVE WatermarkInv'
  BY <1>13 DEF ReceiveMessage, Goto
<1>14. ASSUME NEW t \in Threads, ReceiveSentinel(t) PROVE WatermarkInv'
  BY <1>14 DEF ReceiveSentinel, Goto
<1>15. ASSUME NEW t \in Threads, ReceiveNothing(t) PROVE WatermarkInv'
  BY <1>15 DEF ReceiveNothing, Goto
<1>16. ASSUME NEW t \in Threads, Consume(t) PROVE WatermarkInv'
  BY <1>16 DEF Consume, Goto, NewWatermark
<1>17. ASSUME NEW t \in Threads, ReadSize(t) PROVE WatermarkInv'
  BY <1>17 DEF ReadSize, Goto
<1>18. ASSUME NEW t \in Threads, SetDepth(t) PROVE WatermarkInv'
  BY <1>18 DEF SetDepth, Goto
<1>19. ASSUME NEW t \in Threads, HandleRejects(t) PROVE WatermarkInv'
  BY <1>19 DEF HandleRejects, Goto
<1>20. ASSUME NEW t \in Threads, HandleSkipsDuplicate(t) PROVE WatermarkInv'
  BY <1>20 DEF HandleSkipsDuplicate, Goto
<1>21. ASSUME NEW t \in Threads, HandleAccepts(t) PROVE WatermarkInv'
  BY <1>21 DEF HandleAccepts, Goto
<1>22. ASSUME NEW t \in Threads, UpsertHour(t) PROVE WatermarkInv'
  BY <1>22, UpsertCovered DEF UpsertHour, Buckets
<1>23. ASSUME NEW t \in Threads, UpsertDay(t) PROVE WatermarkInv'
  BY <1>23, UpsertCovered DEF UpsertDay, Buckets
<1>24. ASSUME NEW t \in Threads, Remember(t) PROVE WatermarkInv'
  BY <1>24 DEF Remember, Goto
<1>25. ASSUME NEW t \in Threads, RecordError(t) PROVE WatermarkInv'
  BY <1>25 DEF RecordError, Goto
<1>26. ASSUME NEW t \in Threads, Settle(t) PROVE WatermarkInv'
  BY <1>26 DEF Settle, Goto, NextRound
<1>27. ASSUME NEW t \in Threads, SetExitDepth(t) PROVE WatermarkInv'
  BY <1>27 DEF SetExitDepth, Goto
<1> QED
  BY <1>1, <1>2, <1>3, <1>4, <1>5, <1>6, <1>7, <1>8, <1>9, <1>10, <1>11, <1>12,
     <1>13, <1>14, <1>15, <1>16, <1>17, <1>18, <1>19, <1>20, <1>21, <1>22,
     <1>23, <1>24, <1>25, <1>26, <1>27
  DEF ConsumerNext, MainCalls, MainReturns, LoopThread, DrainThread, LoopOnly,
      Receive, ProcessMessage, Threads

LEMMA WatermarkStep == TypeOK /\ WatermarkInv /\ [Next]_vars => WatermarkInv'
<1> SUFFICES ASSUME TypeOK, WatermarkInv, [Next]_vars PROVE WatermarkInv'
  OBVIOUS
<1>1. CASE ConsumerStep
  BY <1>1, WatermarkConsumer DEF ConsumerStep
<1>2. CASE UNCHANGED cvars
  BY <1>2 DEF cvars, WatermarkInv, WatermarkCoversAggregates, HeldIsCovered
<1> QED  BY <1>1, <1>2 DEF Next, ExternalPut, ProducerStep, vars

(* No aggregate holds an event newer than the watermark, in whatever order  *)
(* the timestamps come and the threads run.                                 *)
THEOREM WatermarkHonest == Spec => []WatermarkCoversAggregates
<1>1. Init => WatermarkInv
  BY DEF Init, ConsumerInit, WatermarkInv, WatermarkCoversAggregates, HeldIsCovered,
     Threads, Buckets
<1>2. WatermarkInv => WatermarkCoversAggregates
  BY DEF WatermarkInv
<1> QED  BY <1>1, <1>2, TypeCorrect, WatermarkStep, PTL DEF Spec

-----------------------------------------------------------------------------

(* A thread between the two upserts of the event id. *)
Between(t, id) == IF pc[t] = "day" /\ msg[t].id = id THEN 1 ELSE 0

(* BucketsAgree for every number that may be an id, with the threads counted *)
(* one by one.                                                               *)
BucketsInv ==
    \A id \in Nat :
        Times("hour", id) = Times("day", id) + Between("loop", id) + Between("drain", id)

LEMMA BucketsTyped ==
    TypeOK => /\ pc \in [Threads -> Labels] /\ msg \in [Threads -> Message]
              /\ upserted \in [Buckets -> Seq(Message)]
BY DEF TypeOK, ConsumerTypeOK

Occurrences(list, id) == {i \in DOMAIN list : list[i].id = id}

LEMMA TimesCounts ==
    \A b, id : Times(b, id) = Cardinality(Occurrences(upserted[b], id))
BY DEF Times, Occurrences

(* Appending an event adds one to the occurrences of its id, and nothing to *)
(* those of others.                                                         *)
LEMMA AppendCounts ==
    ASSUME NEW s \in Seq(Message), NEW m \in Message, NEW id
    PROVE  /\ Cardinality(Occurrences(s, id)) \in Nat
           /\ Cardinality(Occurrences(Append(s, m), id)) =
                  Cardinality(Occurrences(s, id)) + (IF m.id = id THEN 1 ELSE 0)
<1>1. DOMAIN s = 1..Len(s) /\ Len(s) \in Nat
  OBVIOUS
<1>2. IsFiniteSet(Occurrences(s, id)) /\ Cardinality(Occurrences(s, id)) \in Nat
  <2>1. Occurrences(s, id) \in SUBSET (1..Len(s))
    BY <1>1 DEF Occurrences
  <2>2. IsFiniteSet(1..Len(s))
    BY <1>1, FS_Interval
  <2>3. IsFiniteSet(Occurrences(s, id))
    BY <2>1, <2>2, FS_Subset
  <2> QED  BY <2>3, FS_CardinalityType
<1>3. CASE m.id = id
  <2>1. Occurrences(Append(s, m), id) = Occurrences(s, id) \cup {Len(s) + 1}
    BY <1>1, <1>3 DEF Occurrences
  <2>2. Len(s) + 1 \notin Occurrences(s, id)
    BY <1>1 DEF Occurrences
  <2> QED  BY <1>2, <1>3, <2>1, <2>2, FS_AddElement
<1>4. CASE m.id # id
  <2>1. Occurrences(Append(s, m), id) = Occurrences(s, id)
    BY <1>1, <1>4 DEF Occurrences
  <2> QED  BY <1>2, <1>4, <2>1
<1> QED  BY <1>2, <1>3, <1>4

(* An upsert that moves its thread along counts in its bucket only. *)
LEMMA UpsertCounted ==
    ASSUME TypeOK, BucketsInv, NEW t \in Threads, NEW b \in Buckets,
           Upsert(t, b, IF b = "hour" THEN "day" ELSE "remember")
    PROVE  BucketsInv'
<1>1. pc \in [Threads -> Labels] /\ msg \in [Threads -> Message]
      /\ upserted \in [Buckets -> Seq(Message)]
  BY BucketsTyped
<1> SUFFICES ASSUME NEW id \in Nat
             PROVE  Times("hour", id)' = Times("day", id)' + Between("loop", id)'
                                            + Between("drain", id)'
  BY DEF BucketsInv
<1>2. \A c \in Buckets : Times(c, id) \in Nat
  BY <1>1, AppendCounts, TimesCounts
<1>3. Times(b, id)' = Times(b, id) + (IF msg[t].id = id THEN 1 ELSE 0)
  <2>1. upserted'[b] = Append(upserted[b], msg[t])
    BY <1>1 DEF Upsert
  <2>2. upserted[b] \in Seq(Message) /\ msg[t] \in Message
    BY <1>1
  <2>3. Times(b, id)' = Cardinality(Occurrences(upserted'[b], id))
    BY DEF Times, Occurrences
  <2> QED  BY <2>1, <2>2, <2>3, AppendCounts, TimesCounts
<1>4. \A c \in Buckets \ {b} : Times(c, id)' = Times(c, id)
  BY <1>1 DEF Upsert, Times
<1>5. \A u \in Threads \ {t} : Between(u, id)' = Between(u, id)
  BY <1>1 DEF Upsert, Goto, Between
<1>6. pc[t] = b /\ pc'[t] = (IF b = "hour" THEN "day" ELSE "remember") /\ msg' = msg
  BY <1>1 DEF Upsert, Goto
<1>7. Times("hour", id) = Times("day", id) + Between("loop", id) + Between("drain", id)
  BY DEF BucketsInv
<1> QED
  BY <1>2, <1>3, <1>4, <1>5, <1>6, <1>7 DEF Between, Threads, Buckets

LEMMA BucketsConsumer ==
    ASSUME TypeOK, OneLoopThread, BucketsInv, ConsumerNext
    PROVE  BucketsInv'
<1> USE BucketsTyped DEF transportVars, mainVars, callVars, handlerVars, counterVars,
        statusVars, BucketsInv, Times, Between, OneLoopThread, LoopAlive,
        Threads, Labels, LoopLabels
<1>1. CASE StartWhileAlive
  BY <1>1 DEF StartWhileAlive
<1>2. CASE StartClears
  BY <1>2 DEF StartClears
<1>3. CASE StartSetsRunning
  BY <1>3, ZenonT(40) DEF StartSetsRunning
<1>4. CASE StartSpawns
  BY <1>4 DEF StartSpawns
<1>5. CASE StopSignals
  BY <1>5 DEF StopSignals
<1>6. CASE StopJoins
  BY <1>6 DEF StopJoins
<1>7. CASE StopClearsRunning
  BY <1>7 DEF StopClearsRunning
<1>8. CASE CallRunUntilEmpty
  BY <1>8 DEF CallRunUntilEmpty
<1>9. CASE CheckStop
  BY <1>9 DEF CheckStop, Goto
<1>10. CASE CheckSentinel
  BY <1>10, ZenonT(40) DEF CheckSentinel, Goto
<1>11. CASE LoopClearsRunning
  BY <1>11 DEF LoopClearsRunning, Goto
<1>12. CASE LoopEnds
  BY <1>12 DEF LoopEnds, Goto
<1>13. ASSUME NEW t \in Threads, ReceiveMessage(t) PROVE BucketsInv'
  BY <1>13 DEF ReceiveMessage, Goto
<1>14. ASSUME NEW t \in Threads, ReceiveSentinel(t) PROVE BucketsInv'
  BY <1>14 DEF ReceiveSentinel, Goto
<1>15. ASSUME NEW t \in Threads, ReceiveNothing(t) PROVE BucketsInv'
  BY <1>15 DEF ReceiveNothing, Goto
<1>16. ASSUME NEW t \in Threads, Consume(t) PROVE BucketsInv'
  BY <1>16 DEF Consume, Goto
<1>17. ASSUME NEW t \in Threads, ReadSize(t) PROVE BucketsInv'
  BY <1>17 DEF ReadSize, Goto
<1>18. ASSUME NEW t \in Threads, SetDepth(t) PROVE BucketsInv'
  BY <1>18 DEF SetDepth, Goto
<1>19. ASSUME NEW t \in Threads, HandleRejects(t) PROVE BucketsInv'
  BY <1>19 DEF HandleRejects, Goto
<1>20. ASSUME NEW t \in Threads, HandleSkipsDuplicate(t) PROVE BucketsInv'
  BY <1>20 DEF HandleSkipsDuplicate, Goto
<1>21. ASSUME NEW t \in Threads, HandleAccepts(t) PROVE BucketsInv'
  BY <1>21 DEF HandleAccepts, Goto
<1>22. ASSUME NEW t \in Threads, UpsertHour(t) PROVE BucketsInv'
  BY <1>22, UpsertCounted DEF UpsertHour, Buckets
<1>23. ASSUME NEW t \in Threads, UpsertDay(t) PROVE BucketsInv'
  BY <1>23, UpsertCounted DEF UpsertDay, Buckets
<1>24. ASSUME NEW t \in Threads, Remember(t) PROVE BucketsInv'
  BY <1>24 DEF Remember, Goto
<1>25. ASSUME NEW t \in Threads, RecordError(t) PROVE BucketsInv'
  BY <1>25 DEF RecordError, Goto
<1>26. ASSUME NEW t \in Threads, Settle(t) PROVE BucketsInv'
  BY <1>26 DEF Settle, Goto, NextRound
<1>27. ASSUME NEW t \in Threads, SetExitDepth(t) PROVE BucketsInv'
  BY <1>27 DEF SetExitDepth, Goto
<1> QED
  BY <1>1, <1>2, <1>3, <1>4, <1>5, <1>6, <1>7, <1>8, <1>9, <1>10, <1>11, <1>12,
     <1>13, <1>14, <1>15, <1>16, <1>17, <1>18, <1>19, <1>20, <1>21, <1>22,
     <1>23, <1>24, <1>25, <1>26, <1>27
  DEF ConsumerNext, MainCalls, MainReturns, LoopThread, DrainThread, LoopOnly,
      Receive, ProcessMessage, Threads

LEMMA BucketsStep == TypeOK /\ OneLoopThread /\ BucketsInv /\ [Next]_vars => BucketsInv'
<1> SUFFICES ASSUME TypeOK, OneLoopThread, BucketsInv, [Next]_vars PROVE BucketsInv'
  OBVIOUS
<1>1. CASE ConsumerStep
  BY <1>1, BucketsConsumer DEF ConsumerStep
<1>2. CASE UNCHANGED cvars
  BY <1>2 DEF cvars, handlerVars, BucketsInv, Times, Between
<1> QED  BY <1>1, <1>2 DEF Next, ExternalPut, ProducerStep, vars

(* Every event is in the hour aggregates as often as in the day aggregates, *)
(* but for the one a thread has in between: no step of _process_reading can *)
(* be left half done (handler.py:122-132).                                  *)
THEOREM BucketsInStep == Spec => []BucketsAgree
<1>1. Init => BucketsInv
  <2> SUFFICES ASSUME Init, NEW id \in Nat
               PROVE  Times("hour", id) = Times("day", id) + Between("loop", id)
                                             + Between("drain", id)
    BY DEF BucketsInv
  <2>1. \A b \in Buckets : Times(b, id) = 0
    <3> SUFFICES ASSUME NEW b \in Buckets PROVE Times(b, id) = 0
      OBVIOUS
    <3>1. {i \in DOMAIN upserted[b] : upserted[b][i].id = id} = {}
      BY DEF Init, ConsumerInit
    <3> QED  BY <3>1, FS_EmptySet DEF Times
  <2> QED  BY <2>1 DEF Init, ConsumerInit, Between, Threads, Buckets
<1>2. TypeOK /\ BucketsInv => BucketsAgree
  <2> SUFFICES ASSUME TypeOK, BucketsInv, NEW id \in Ids
               PROVE  Times("hour", id) = Times("day", id)
                          + Cardinality({t \in Threads : pc[t] = "day" /\ msg[t].id = id})
    BY DEF BucketsAgree
  <2> DEFINE S == {t \in Threads : pc[t] = "day" /\ msg[t].id = id}
  <2>1. id \in Nat
    BY ExternalAssumption DEF Ids, Message, TypeOK, ProducerTypeOK
  <2>2. Cardinality(S) = Between("loop", id) + Between("drain", id)
    <3>1. S \in SUBSET Threads
      OBVIOUS
    <3>2. Cardinality(S) = (IF "loop" \in S THEN 1 ELSE 0) + (IF "drain" \in S THEN 1 ELSE 0)
      BY <3>1, ThreadsCounted
    <3> QED  BY <3>2 DEF Between, Threads
  <2>3. Times("hour", id) \in Nat /\ Times("day", id) \in Nat
    BY BucketsTyped, AppendCounts, TimesCounts DEF Buckets, Threads
  <2>4. Between("loop", id) \in Nat /\ Between("drain", id) \in Nat
    BY DEF Between
  <2> QED  BY <2>1, <2>2, <2>3, <2>4 DEF BucketsInv
<1> QED  BY <1>1, <1>2, TypeCorrect, NoSecondLoop, BucketsStep, PTL DEF Spec
-----------------------------------------------------------------------------
(* Messages on their way                                                   *)

(* A message between the row it was built from, or the put of another       *)
(* source, and its settlement: batched, handed over, queued or in hand.     *)
InHand == {t \in Threads : pc[t] \in HoldingLabels}
Flying == Range(batch) \cup Range(out) \cup (Range(queue) \ {Sentinel})
              \cup {msg[t] : t \in InHand}
Known == External \cup Flying

(* Every such message was put by another source or built by the producer,   *)
(* and so was every message whose id the handler remembers.                 *)
OriginInv ==
    /\ \A m \in Flying : m \in External \/ m.id \in 1..minted
    /\ \A i \in DOMAIN seen : seen[i] \in Ids

LEMMA RangeOfAppend ==
    ASSUME NEW S, NEW s \in Seq(S), NEW x
    PROVE  Range(Append(s, x)) = Range(s) \cup {x}
<1>1. /\ DOMAIN s = 1..Len(s) /\ Len(s) \in Nat
      /\ DOMAIN Append(s, x) = 1..Len(s) + 1
  BY DEF Append
<1>2. \A i \in 1..Len(s) + 1 : Append(s, x)[i] = IF i = Len(s) + 1 THEN x ELSE s[i]
  BY <1>1 DEF Append
<1>3. \A i \in 1..Len(s) : i \in 1..Len(s) + 1 /\ i # Len(s) + 1
  BY <1>1
<1>4. Len(s) + 1 \in 1..Len(s) + 1
  BY <1>1
<1>5. Range(Append(s, x)) \subseteq Range(s) \cup {x}
  BY <1>1, <1>2 DEF Range
<1>6. Range(s) \cup {x} \subseteq Range(Append(s, x))
  BY <1>1, <1>2, <1>3, <1>4 DEF Range
<1> QED  BY <1>5, <1>6

LEMMA RangeOfTail ==
    ASSUME NEW S, NEW s \in Seq(S), s # <<>>
    PROVE  Head(s) \in Range(s) /\ Range(Tail(s)) \subseteq Range(s)
<1>1. /\ DOMAIN s = 1..Len(s) /\ Len(s) \in Nat /\ Len(s) >= 1 /\ Head(s) = s[1]
  OBVIOUS
<1>2. DOMAIN Tail(s) = 1..(Len(s) - 1) /\ \A i \in 1..(Len(s) - 1) : Tail(s)[i] = s[i + 1]
  BY <1>1
<1>3. \A i \in 1..(Len(s) - 1) : i + 1 \in 1..Len(s)
  BY <1>1
<1> QED  BY <1>1, <1>2, <1>3 DEF Range

LEMMA RangeOfReordering ==
    ASSUME NEW s \in Seq(Message), NEW r \in Reorderings(s)
    PROVE  Range(r) \subseteq Range(s)
<1>1. PICK f \in [DOMAIN s -> DOMAIN s] : r = [i \in DOMAIN s |-> s[f[i]]]
  BY DEF Reorderings
<1> QED  BY <1>1 DEF Range

LEMMA FlyingTyped ==
    TypeOK => /\ queue \in Seq(Message \cup {Sentinel})
              /\ batch \in Seq(Message) /\ out \in Seq(Message)
              /\ msg \in [Threads -> Message] /\ minted \in Nat
              /\ Flying \subseteq Message
<1> SUFFICES ASSUME TypeOK
             PROVE  /\ queue \in Seq(Message \cup {Sentinel})
                    /\ batch \in Seq(Message) /\ out \in Seq(Message)
                    /\ msg \in [Threads -> Message] /\ minted \in Nat
                    /\ Flying \subseteq Message
  OBVIOUS
<1>1. /\ queue \in Seq(Message \cup {Sentinel})
      /\ batch \in Seq(Message) /\ out \in Seq(Message)
      /\ msg \in [Threads -> Message] /\ minted \in Nat
  BY DEF TypeOK, QueueTypeOK, ProducerTypeOK, ConsumerTypeOK
<1>2. /\ Range(queue) \subseteq Message \cup {Sentinel}
      /\ Range(batch) \subseteq Message /\ Range(out) \subseteq Message
  BY <1>1 DEF Range
<1> QED  BY <1>1, <1>2 DEF Flying, InHand

(* What _publish_batch is handed is what it was given. *)
LEMMA PublishFlying ==
    ASSUME NEW b \in Seq(Message), NEW next, PublishThen(b, next)
    PROVE  Range(out') \subseteq Range(out) \cup Range(b)
BY RangeOfReordering DEF PublishThen

LEMMA AppendRowFlying ==
    ASSUME TypeOK, row <= Len(Rows), NEW kind \in EventKinds, AppendRow(kind)
    PROVE  /\ minted' = minted + 1
           /\ Range(batch') \cup Range(out') \subseteq
                  Range(batch) \cup Range(out) \cup {EventOf(kind)}
<1> DEFINE grown == Append(batch, EventOf(kind))
<1>1. batch \in Seq(Message) /\ EventOf(kind) \in Message /\ grown \in Seq(Message)
  BY FlyingTyped, EventOfType DEF TypeOK
<1>2. Range(grown) = Range(batch) \cup {EventOf(kind)}
  BY <1>1, RangeOfAppend
<1>3. CASE PublishThen(grown, "read") /\ batch' = <<>>
  <2>1. Range(out') \subseteq Range(out) \cup Range(grown)
    BY <1>1, <1>3, PublishFlying
  <2>2. Range(batch') = {}
    BY <1>3 DEF Range
  <2> QED  BY <1>2, <2>1, <2>2 DEF AppendRow
<1>4. CASE batch' = grown /\ UNCHANGED <<out, resume>>
  BY <1>2, <1>4 DEF AppendRow
<1> QED  BY <1>3, <1>4 DEF AppendRow

(* The producer passes on what it has; what it adds carries a fresh id.     *)
LEMMA FlyingProducer ==
    ASSUME TypeOK, ProducerNext, UNCHANGED cvars
    PROVE  \/ minted' = minted /\ Flying' \subseteq Flying
           \/ minted' = minted + 1 /\ \E e : e.id = minted + 1 /\ Flying' \subseteq Flying \cup {e}
<1> DEFINE Adds(X) == /\ Range(batch') \subseteq Flying \cup X
                      /\ Range(out') \subseteq Flying \cup X
                      /\ Range(queue') \subseteq Flying \cup X \cup {Sentinel}
<1> DEFINE Goal == \/ minted' = minted /\ Adds({})
                   \/ minted' = minted + 1 /\ \E e : e.id = minted + 1 /\ Adds({e})
<1>0. /\ queue \in Seq(Message \cup {Sentinel}) /\ batch \in Seq(Message)
      /\ out \in Seq(Message) /\ minted \in Nat
  BY FlyingTyped
<1>1. SUFFICES Goal
  <2>1. {msg'[t] : t \in InHand'} = {msg[t] : t \in InHand}
    BY DEF cvars, InHand
  <2>2. ASSUME NEW X, Adds(X) PROVE Flying' \subseteq Flying \cup X
    BY <2>1, <2>2 DEF Flying
  <2> QED  BY <2>2
<1>2. /\ Range(batch) \subseteq Flying /\ Range(out) \subseteq Flying
      /\ Range(queue) \subseteq Flying \cup {Sentinel}
  BY DEF Flying
<1>3. Range(<<>>) = {}
  BY DEF Range
<1>4. ASSUME NEW kind \in EventKinds, row <= Len(Rows), AppendRow(kind), queue' = queue
      PROVE  Goal
  <2>1. EventOf(kind) \in Message /\ EventOf(kind).id = minted + 1
    BY <1>4, EventOfType DEF TypeOK, EventOf
  <2>2. /\ minted' = minted + 1
        /\ Range(batch') \cup Range(out') \subseteq
               Range(batch) \cup Range(out) \cup {EventOf(kind)}
    BY <1>4, AppendRowFlying
  <2>3. Adds({EventOf(kind)})
    BY <1>2, <1>4, <2>2
  <2> QED  BY <2>1, <2>2, <2>3
<1>5. CASE \/ StartProducer \/ StopProducer \/ ConnectFails \/ SeeStop \/ ReadFails
           \/ CountEvent \/ ProducerEnds
  BY <1>2, <1>5 DEF StartProducer, StopProducer, ConnectFails, SeeStop, ReadFails,
     CountEvent, ProducerEnds
<1>6. CASE Connect
  BY <1>2, <1>3, <1>6 DEF Connect
<1>7. CASE FlushAtEnd
  BY <1>0, <1>2, <1>7, PublishFlying DEF FlushAtEnd
<1>8. CASE ReadRow
  <2>1. CASE GapBeforeRow
    BY <1>0, <1>2, <1>3, <1>8, <2>1, PublishFlying DEF ReadRow
  <2>2. CASE ~GapBeforeRow
    BY <1>4, <1>8, <2>2 DEF ReadRow, AppendRow
  <2> QED  BY <2>1, <2>2
<1>9. CASE AppendAfterGap
  BY <1>4, <1>9 DEF AppendAfterGap, AppendRow, TypeOK, ProducerTypeOK
<1>10. CASE PublishNext
  BY <1>2, <1>3, <1>10 DEF PublishNext
<1>11. CASE PutEvent
  <2>1. out # <<>> /\ out' = Tail(out) /\ queue' = Append(queue, Head(out))
        /\ UNCHANGED <<batch, minted>>
    BY <1>11 DEF TypeOK, ProducerTypeOK, PutEvent, Put
  <2>2. Head(out) \in Range(out) /\ Range(out') \subseteq Range(out)
    BY <1>0, <2>1, RangeOfTail
  <2>3. Range(queue') = Range(queue) \cup {Head(out)}
    BY <1>0, <2>1, RangeOfAppend
  <2> QED  BY <1>2, <2>1, <2>2, <2>3
<1>12. CASE PutSentinel
  <2>1. queue' = Append(queue, Sentinel) /\ UNCHANGED <<batch, out, minted>>
    BY <1>12 DEF PutSentinel, Put
  <2>2. Range(queue') = Range(queue) \cup {Sentinel}
    BY <1>0, <2>1, RangeOfAppend
  <2> QED  BY <1>2, <2>1, <2>2
<1> QED
  BY <1>5, <1>6, <1>7, <1>8, <1>9, <1>10, <1>11, <1>12 DEF ProducerNext, ProducerThread

(* The consumer takes from the queue into a hand and adds nothing.          *)
LEMMA FlyingConsumer ==
    ASSUME TypeOK, OneLoopThread, ConsumerNext, UNCHANGED pvars
    PROVE  minted' = minted /\ Flying' \subseteq Flying
<1>0. /\ queue \in Seq(Message \cup {Sentinel}) /\ msg \in [Threads -> Message]
      /\ pc \in [Threads -> Labels]
  BY FlyingTyped, BucketsTyped
<1>1. UNCHANGED <<batch, out, minted>>
  BY DEF pvars
<1>2. CASE Quiet
  <2>1. UNCHANGED <<queue, msg>> /\ InHand' = InHand
    BY <1>2 DEF Quiet, InHand
  <2> QED  BY <1>1, <2>1 DEF Flying
<1>3. ASSUME NEW t \in Threads, ReceiveMessage(t) PROVE Flying' \subseteq Flying
  <2>1. /\ queue # <<>> /\ queue' = Tail(queue) /\ Head(queue) # Sentinel
        /\ msg' = [msg EXCEPT ![t] = Head(queue)] /\ InHand' \subseteq InHand \cup {t}
    BY <1>0, <1>3 DEF ReceiveMessage, Get, Goto, InHand
  <2>2. Head(queue) \in Range(queue) /\ Range(queue') \subseteq Range(queue)
    BY <1>0, <2>1, RangeOfTail
  <2>3. \A u \in InHand' : msg'[u] \in Flying
    BY <1>0, <2>1, <2>2 DEF Flying, InHand
  <2> QED  BY <1>1, <2>2, <2>3 DEF Flying
<1>4. ASSUME NEW t \in Threads, ReceiveSentinel(t) PROVE Flying' \subseteq Flying
  <2>1. queue # <<>> /\ queue' = Tail(queue) /\ msg' = msg /\ InHand' \subseteq InHand
    BY <1>0, <1>4 DEF ReceiveSentinel, Get, Goto, InHand, HoldingLabels
  <2>2. Range(queue') \subseteq Range(queue)
    BY <1>0, <2>1, RangeOfTail
  <2> QED  BY <1>1, <2>1, <2>2 DEF Flying
<1>5. ASSUME NEW t \in Threads, Settle(t) PROVE Flying' \subseteq Flying
  <2>1. UNCHANGED <<queue, msg>> /\ InHand' \subseteq InHand
    BY <1>0, <1>5 DEF Settle, Goto, InHand, HoldingLabels, NextRound, transportVars
  <2> QED  BY <1>1, <2>1 DEF Flying
<1> QED  BY <1>1, <1>2, <1>3, <1>4, <1>5, ConsumerQuiet

LEMMA FlyingStep ==
    ASSUME TypeOK, OneLoopThread, [Next]_vars
    PROVE  \/ minted' = minted /\ Flying' \subseteq Flying \cup External
           \/ minted' = minted + 1 /\ \E e : e.id = minted + 1 /\ Flying' \subseteq Flying \cup {e}
<1>1. CASE ExternalPut
  <2>1. PICK m \in External : queue' = Append(queue, m)
    BY <1>1 DEF ExternalPut, Put
  <2>2. Range(queue') = Range(queue) \cup {m}
    BY <2>1, FlyingTyped, RangeOfAppend
  <2>3. UNCHANGED <<batch, out, minted, msg, InHand>>
    BY <1>1 DEF ExternalPut, pvars, cvars, InHand
  <2> QED  BY <2>2, <2>3 DEF Flying
<1>2. CASE ProducerStep
  BY <1>2, FlyingProducer DEF ProducerStep
<1>3. CASE ConsumerStep
  BY <1>3, FlyingConsumer DEF ConsumerStep
<1>4. CASE UNCHANGED vars
  BY <1>4 DEF vars, pvars, cvars, Flying, InHand
<1> QED  BY <1>1, <1>2, <1>3, <1>4 DEF Next
(* What Remember does to the list of ids: one is added, one may fall off.   *)
LEMMA RememberedIds ==
    ASSUME NEW ids \in Seq(Nat), NEW id \in Nat
    PROVE  Range(Remembered(ids, id)) \subseteq Range(ids) \cup {id}
<1> DEFINE grown == IF \E i \in DOMAIN ids : ids[i] = id THEN ids ELSE Append(ids, id)
<1>1. Range(Append(ids, id)) = Range(ids) \cup {id}
  BY RangeOfAppend
<1>2. grown \in Seq(Nat) /\ Range(grown) \subseteq Range(ids) \cup {id}
  BY <1>1
<1> HIDE DEF grown
<1>3. CASE Len(grown) > DedupMax
  <2>1. grown # <<>>
    BY <1>2, <1>3, ConsumerAssumption
  <2>2. Range(Tail(grown)) \subseteq Range(grown)
    BY <1>2, <2>1, RangeOfTail
  <2> QED  BY <1>2, <1>3, <2>2 DEF Remembered, grown
<1>4. CASE ~(Len(grown) > DedupMax)
  BY <1>2, <1>4 DEF Remembered, grown
<1> QED  BY <1>3, <1>4

LEMMA SeenTyped ==
    TypeOK => /\ seen \in Seq(Nat) /\ minted \in Nat /\ pc \in [Threads -> Labels]
              /\ msg \in [Threads -> Message] /\ verdict \in [Threads -> Verdicts]
              /\ upserted \in [Buckets -> Seq(Message)] /\ drains \in Nat
              /\ \A t \in Threads : msg[t].id \in Nat
BY DEF TypeOK, ConsumerTypeOK, ProducerTypeOK, Message

LEMMA SeenIsRange == \A id : Seen(id) <=> id \in Range(seen)
BY DEF Seen, Range

(* The ids the handler remembers change only in Remember, the aggregates    *)
(* only in the upserts.                                                     *)
LEMMA HandlerSteps ==
    ASSUME TypeOK, [Next]_vars
    PROVE  /\ seen' = seen \/ \E t \in Threads : Remember(t)
           /\ upserted' = upserted \/ \E t \in Threads : UpsertHour(t) \/ UpsertDay(t)
<1> USE DEF transportVars, mainVars, callVars, handlerVars, counterVars, statusVars
<1>1. CASE ConsumerStep
  <2>1. CASE MainCalls \/ MainReturns \/ LoopOnly
    BY <2>1 DEF MainCalls, MainReturns, LoopOnly, StartWhileAlive, StartClears,
       StartSetsRunning, StartSpawns, StopSignals, StopJoins, StopClearsRunning,
       CallRunUntilEmpty, CheckStop, CheckSentinel, LoopClearsRunning, LoopEnds
  <2>2. ASSUME NEW t \in Threads, Receive(t) \/ ProcessMessage(t)
        PROVE  /\ seen' = seen \/ Remember(t)
               /\ upserted' = upserted \/ UpsertHour(t) \/ UpsertDay(t)
    BY <2>2 DEF Receive, ProcessMessage, ReceiveMessage, ReceiveSentinel, ReceiveNothing,
       Consume, ReadSize, SetDepth, HandleRejects, HandleSkipsDuplicate, HandleAccepts,
       UpsertHour, UpsertDay, Upsert, Remember, RecordError, Settle, SetExitDepth
  <2> QED
    BY <1>1, <2>1, <2>2 DEF ConsumerStep, ConsumerNext, LoopThread, DrainThread, Threads
<1>2. CASE UNCHANGED cvars
  BY <1>2 DEF cvars
<1> QED  BY <1>1, <1>2 DEF Next, ExternalPut, ProducerStep, vars

(* What an upsert does to the counts. *)
LEMMA UpsertTimes ==
    ASSUME TypeOK, NEW t \in Threads, NEW b \in Buckets, NEW next, Upsert(t, b, next), NEW id
    PROVE  /\ Times(b, id)' = Times(b, id) + (IF msg[t].id = id THEN 1 ELSE 0)
           /\ \A c \in Buckets \ {b} : Times(c, id)' = Times(c, id)
<1>1. upserted[b] \in Seq(Message) /\ msg[t] \in Message
      /\ upserted'[b] = Append(upserted[b], msg[t])
      /\ \A c \in Buckets \ {b} : upserted'[c] = upserted[c]
  BY SeenTyped DEF Upsert
<1>2. \A c \in Buckets : Times(c, id)' = Cardinality(Occurrences(upserted'[c], id))
  BY DEF Times, Occurrences
<1>3. \A c \in Buckets : Times(c, id) = Cardinality(Occurrences(upserted[c], id))
  BY DEF Times, Occurrences
<1>4. Cardinality(Occurrences(Append(upserted[b], msg[t]), id)) =
          Cardinality(Occurrences(upserted[b], id)) + (IF msg[t].id = id THEN 1 ELSE 0)
  BY <1>1, AppendCounts
<1> QED  BY <1>1, <1>2, <1>3, <1>4

LEMMA TimesTyped == TypeOK => \A b \in Buckets : \A id : Times(b, id) \in Nat
<1> SUFFICES ASSUME TypeOK, NEW b \in Buckets, NEW id PROVE Times(b, id) \in Nat
  OBVIOUS
<1>1. upserted[b] \in Seq(Message) /\ msg["loop"] \in Message
  BY SeenTyped DEF Threads
<1> QED  BY <1>1, AppendCounts, TimesCounts

(* Nothing is ever taken out of an aggregate. *)
LEMMA TimesGrow ==
    ASSUME TypeOK, [Next]_vars, NEW b \in Buckets, NEW id
    PROVE  Times(b, id)' \in Nat /\ Times(b, id)' >= Times(b, id)
<1>1. Times(b, id) \in Nat
  BY TimesTyped
<1>2. CASE upserted' = upserted
  BY <1>1, <1>2 DEF Times
<1>3. ASSUME NEW t \in Threads, NEW c \in Buckets, NEW next, Upsert(t, c, next)
      PROVE  Times(b, id)' \in Nat /\ Times(b, id)' >= Times(b, id)
  <2>1. CASE b = c
    BY <1>1, <1>3, <2>1, UpsertTimes
  <2>2. CASE b # c
    <3>1. Times(b, id)' = Times(b, id)
      BY <1>3, <2>2, UpsertTimes, SMTT(30)
    <3> QED  BY <1>1, <3>1
  <2> QED  BY <2>1, <2>2
<1> QED  BY <1>2, <1>3, HandlerSteps DEF UpsertHour, UpsertDay, Buckets

LEMMA OriginStep == TypeOK /\ OneLoopThread /\ OriginInv /\ [Next]_vars => OriginInv'
<1> SUFFICES ASSUME TypeOK, OneLoopThread, OriginInv, [Next]_vars PROVE OriginInv'
  OBVIOUS
<1>0. minted \in Nat /\ minted' \in {minted, minted + 1}
      /\ 1..minted \subseteq 1..minted' /\ Ids \subseteq Ids'
  BY FlyingStep, SeenTyped DEF Ids
<1>1. ASSUME NEW m \in Flying' PROVE m \in External \/ m.id \in 1..minted'
  BY <1>0, <1>1, FlyingStep DEF OriginInv
<1>2. Range(seen') \subseteq Ids'
  <2>1. Range(seen) \subseteq Ids
    BY DEF OriginInv, Range
  <2>2. CASE seen' = seen
    BY <1>0, <2>1, <2>2
  <2>3. ASSUME NEW t \in Threads, Remember(t) PROVE Range(seen') \subseteq Ids'
    <3>1. msg[t] \in Flying
      BY <2>3 DEF Remember, Flying, InHand, HoldingLabels
    <3>2. msg[t].id \in Ids
      BY <3>1 DEF OriginInv, Ids
    <3>3. seen' = Remembered(seen, msg[t].id)
      BY <2>3 DEF Remember
    <3>4. seen \in Seq(Nat) /\ msg[t].id \in Nat
      BY SeenTyped
    <3>5. Range(seen') \subseteq Range(seen) \cup {msg[t].id}
      BY <3>3, <3>4, RememberedIds
    <3> QED  BY <1>0, <2>1, <3>2, <3>5
  <2> QED  BY <2>2, <2>3, HandlerSteps
<1> QED  BY <1>1, <1>2 DEF OriginInv, Range

LEMMA OriginInit == Init => OriginInv
BY DEF Init, ProducerInit, ConsumerInit, OriginInv, Flying, InHand, HoldingLabels, Range, Threads

LEMMA OriginAlways == Spec => []OriginInv
BY OriginInit, OriginStep, TypeCorrect, NoSecondLoop, PTL DEF Spec

LEMMA DeservedAlways == Spec => []VerdictsDeserved
<1>1. Init => VerdictsDeserved
  BY DEF Init, ConsumerInit, VerdictsDeserved, Threads
<1> QED  BY <1>1, DeservedStep, TypeCorrect, PTL DEF Spec
-----------------------------------------------------------------------------
(* SuccessMeansAggregated                                                  *)

(* What the id of a reading that is known, or may yet be put, stands for:   *)
(* no event without values bears it, and when the handler remembers it, the *)
(* reading is in both aggregates.  That is what lets the duplicate check    *)
(* report a success without counting anything.                              *)
Counted(id) == \A b \in Buckets : Times(b, id) >= 1

NamesDistinct ==
    \A m, n \in Known : m.kind = "reading" /\ n.kind = "no_value" => m.id # n.id
SeenIsCounted ==
    \A m \in Known : m.kind = "reading" /\ Seen(m.id) => Counted(m.id)

(* A thread on its way through the aggregates has done the ones behind it,  *)
(* and one that records an error will not report a success.                 *)
HeldIsCounted ==
    \A t \in Threads :
        /\ pc[t] = "error" => verdict[t] # "ok"
        /\ pc[t] = "day" => Times("hour", msg[t].id) >= 1
        /\ pc[t] = "remember" /\ msg[t].kind = "reading" => Counted(msg[t].id)
        /\ pc[t] = "settle" /\ verdict[t] = "ok" /\ msg[t].kind = "reading"
               => Counted(msg[t].id)

CountedInv == IdsNameEvents => NamesDistinct /\ SeenIsCounted /\ HeldIsCounted

LEMMA CountedGrows ==
    ASSUME TypeOK, [Next]_vars, NEW id
    PROVE  Counted(id) => Counted(id)'
<1>1. \A b \in Buckets : Times(b, id)' >= Times(b, id) /\ Times(b, id)' \in Nat
                         /\ Times(b, id) \in Nat
  BY TimesGrow, TimesTyped
<1> QED  BY <1>1 DEF Counted

(* The id of a message in hand is known, and names what it stands for. *)
LEMMA HeldIsKnown ==
    ASSUME NEW t \in Threads, pc[t] \in HoldingLabels
    PROVE  msg[t] \in Known
BY DEF Known, Flying, InHand

(* An id the producer draws is nobody's yet. *)
LEMMA MintedIsFresh ==
    ASSUME TypeOK, OriginInv, IdsNameEvents', minted' = minted + 1
    PROVE  /\ \A m \in Known : m.id # minted + 1
           /\ ~Seen(minted + 1)
<1>1. minted \in Nat /\ minted + 1 \notin 1..minted /\ minted + 1 \in 1..minted'
  BY SeenTyped
<1>2. \A m \in External : m.id # minted + 1
  BY <1>1 DEF IdsNameEvents
<1>3. minted + 1 \notin Ids
  BY <1>1, <1>2 DEF Ids
<1> QED  BY <1>1, <1>2, <1>3 DEF OriginInv, Known, Seen

LEMMA NamesStep ==
    ASSUME TypeOK, OneLoopThread, OriginInv, NamesDistinct, IdsNameEvents', [Next]_vars
    PROVE  NamesDistinct'
<1>1. CASE Flying' \subseteq Flying \cup External
  BY <1>1 DEF NamesDistinct, Known
<1>2. ASSUME minted' = minted + 1, NEW e, e.id = minted + 1, Flying' \subseteq Flying \cup {e}
      PROVE  NamesDistinct'
  <2>1. \A m \in Known : m.id # e.id
    BY <1>2, MintedIsFresh
  <2>2. Known' \subseteq Known \cup {e}
    BY <1>2 DEF Known
  <2> QED  BY <2>1, <2>2 DEF NamesDistinct
<1> QED  BY <1>1, <1>2, FlyingStep

(* A reading's id is remembered only by the thread that has counted it.     *)
LEMMA SeenCountedStep ==
    ASSUME TypeOK, OneLoopThread, OriginInv, VerdictsDeserved, NamesDistinct, SeenIsCounted,
           HeldIsCounted, IdsNameEvents', [Next]_vars
    PROVE  SeenIsCounted'
<1>1. \A m \in Known : m.kind = "reading" /\ Seen(m.id)' => Counted(m.id)'
  <2> SUFFICES ASSUME NEW m \in Known, m.kind = "reading", Seen(m.id)' PROVE Counted(m.id)'
    OBVIOUS
  <2>1. CASE Seen(m.id)
    BY <2>1, CountedGrows DEF SeenIsCounted
  <2>2. CASE ~Seen(m.id)
    <3>1. seen' # seen
      BY <2>2 DEF Seen
    <3>2. PICK t \in Threads : Remember(t)
      BY <3>1, HandlerSteps
    <3>3. pc[t] = "remember" /\ seen' = Remembered(seen, msg[t].id) /\ msg[t] \in Known
      BY <3>2, HeldIsKnown DEF Remember, HoldingLabels
    <3>4. Range(seen') \subseteq Range(seen) \cup {msg[t].id}
      BY <3>3, SeenTyped, RememberedIds
    <3>5. m.id = msg[t].id
      BY <2>2, <3>4 DEF Seen, Range
    <3>6. msg[t].kind \in {"reading", "no_value"}
      BY <3>3 DEF VerdictsDeserved
    <3>7. msg[t].kind = "reading"
      BY <3>3, <3>5, <3>6 DEF NamesDistinct
    <3> QED  BY <3>3, <3>5, <3>7, CountedGrows DEF HeldIsCounted
  <2> QED  BY <2>1, <2>2
<1>2. CASE Flying' \subseteq Flying \cup External
  BY <1>1, <1>2 DEF SeenIsCounted, Known
<1>3. ASSUME minted' = minted + 1, NEW e, e.id = minted + 1, Flying' \subseteq Flying \cup {e}
      PROVE  SeenIsCounted'
  <2>1. ~Seen(e.id)'
    <3>1. ~Seen(e.id) /\ \A m \in Known : m.id # e.id
      BY <1>3, MintedIsFresh
    <3>2. CASE seen' = seen
      BY <3>1, <3>2 DEF Seen
    <3>3. ASSUME NEW t \in Threads, Remember(t) PROVE ~Seen(e.id)'
      <4>1. msg[t] \in Known /\ seen' = Remembered(seen, msg[t].id)
        BY <3>3, HeldIsKnown DEF Remember, HoldingLabels
      <4>2. Range(seen') \subseteq Range(seen) \cup {msg[t].id}
        BY <4>1, SeenTyped, RememberedIds
      <4> QED  BY <3>1, <4>1, <4>2 DEF Seen, Range
    <3> QED  BY <3>2, <3>3, HandlerSteps
  <2>2. Known' \subseteq Known \cup {e}
    BY <1>3 DEF Known
  <2> QED  BY <1>1, <2>1, <2>2 DEF SeenIsCounted
<1> QED  BY <1>2, <1>3, FlyingStep

(* An upsert puts its message into its bucket. *)
LEMMA UpsertCounts ==
    ASSUME TypeOK, NEW t \in Threads, NEW b \in Buckets, NEW next, Upsert(t, b, next)
    PROVE  Times(b, msg[t].id)' >= 1
<1>1. PICK id : id = msg[t].id
  OBVIOUS
<1>2. Times(b, id)' = Times(b, id) + 1 /\ Times(b, id) \in Nat
  BY <1>1, UpsertTimes, TimesTyped
<1>3. msg' = msg
  BY DEF Upsert
<1> QED  BY <1>1, <1>2, <1>3 DEF Times

LEMMA HeldCountedConsumer ==
    ASSUME TypeOK, OneLoopThread, VerdictsDeserved, SeenIsCounted, HeldIsCounted,
           \A id : Counted(id) => Counted(id)',
           \A id : Times("hour", id) >= 1 => Times("hour", id)' >= 1,
           ConsumerNext
    PROVE  HeldIsCounted'
<1> USE BucketsTyped, VerdictsTyped DEF transportVars, mainVars, callVars, handlerVars,
        counterVars, statusVars, HeldIsCounted, Threads, Labels, LoopLabels
<1>1. CASE StartWhileAlive
  BY <1>1 DEF StartWhileAlive
<1>2. CASE StartClears
  BY <1>2 DEF StartClears
<1>3. CASE StartSetsRunning
  BY <1>3 DEF StartSetsRunning
<1>4. CASE StartSpawns
  BY <1>4 DEF StartSpawns, OneLoopThread, LoopAlive
<1>5. CASE StopSignals
  BY <1>5 DEF StopSignals
<1>6. CASE StopJoins
  BY <1>6 DEF StopJoins
<1>7. CASE StopClearsRunning
  BY <1>7 DEF StopClearsRunning
<1>8. CASE CallRunUntilEmpty
  BY <1>8 DEF CallRunUntilEmpty
<1>9. CASE CheckStop
  BY <1>9 DEF CheckStop, Goto
<1>10. CASE CheckSentinel
  BY <1>10 DEF CheckSentinel, Goto
<1>11. CASE LoopClearsRunning
  BY <1>11 DEF LoopClearsRunning, Goto
<1>12. CASE LoopEnds
  BY <1>12 DEF LoopEnds, Goto
<1>13. ASSUME NEW t \in Threads, ReceiveMessage(t) PROVE HeldIsCounted'
  BY <1>13 DEF ReceiveMessage, Goto
<1>14. ASSUME NEW t \in Threads, ReceiveSentinel(t) PROVE HeldIsCounted'
  BY <1>14 DEF ReceiveSentinel, Goto
<1>15. ASSUME NEW t \in Threads, ReceiveNothing(t) PROVE HeldIsCounted'
  BY <1>15 DEF ReceiveNothing, Goto
<1>16. ASSUME NEW t \in Threads, Consume(t) PROVE HeldIsCounted'
  BY <1>16 DEF Consume, Goto
<1>17. ASSUME NEW t \in Threads, ReadSize(t) PROVE HeldIsCounted'
  BY <1>17 DEF ReadSize, Goto
<1>18. ASSUME NEW t \in Threads, SetDepth(t) PROVE HeldIsCounted'
  BY <1>18 DEF SetDepth, Goto
<1>19. ASSUME NEW t \in Threads, HandleRejects(t) PROVE HeldIsCounted'
  BY <1>19 DEF HandleRejects, Goto, VerdictOf
<1>20. ASSUME NEW t \in Threads, HandleSkipsDuplicate(t) PROVE HeldIsCounted'
  <2>1. msg[t] \in Known
    BY <1>20, HeldIsKnown DEF HandleSkipsDuplicate, HoldingLabels
  <2>2. msg[t].kind = "reading" => Counted(msg[t].id)
    BY <1>20, <2>1 DEF HandleSkipsDuplicate, SeenIsCounted
  <2> QED  BY <1>20, <2>2 DEF HandleSkipsDuplicate, Goto
<1>21. ASSUME NEW t \in Threads, HandleAccepts(t) PROVE HeldIsCounted'
  BY <1>21 DEF HandleAccepts, Goto
<1>22. ASSUME NEW t \in Threads, UpsertHour(t) PROVE HeldIsCounted'
  <2>1. Times("hour", msg[t].id)' >= 1
    BY <1>22, UpsertCounts DEF UpsertHour, Buckets
  <2> QED  BY <1>22, <2>1 DEF UpsertHour, Goto, Upsert
<1>23. ASSUME NEW t \in Threads, UpsertDay(t) PROVE HeldIsCounted'
  <2>1. Times("day", msg[t].id)' >= 1
    BY <1>23, UpsertCounts DEF UpsertDay, Buckets
  <2>2. Times("hour", msg[t].id)' >= 1
    BY <1>23 DEF UpsertDay, Upsert
  <2>3. Counted(msg[t].id)'
    BY <1>23, <2>1, <2>2 DEF Counted, Buckets, UpsertDay, Upsert
  <2> QED  BY <1>23, <2>3 DEF UpsertDay, Goto, Upsert
<1>24. ASSUME NEW t \in Threads, Remember(t) PROVE HeldIsCounted'
  BY <1>24 DEF Remember, Goto
<1>25. ASSUME NEW t \in Threads, RecordError(t) PROVE HeldIsCounted'
  BY <1>25 DEF RecordError, Goto
<1>26. ASSUME NEW t \in Threads, Settle(t) PROVE HeldIsCounted'
  BY <1>26 DEF Settle, Goto, NextRound
<1>27. ASSUME NEW t \in Threads, SetExitDepth(t) PROVE HeldIsCounted'
  BY <1>27 DEF SetExitDepth, Goto
<1> QED
  BY <1>1, <1>2, <1>3, <1>4, <1>5, <1>6, <1>7, <1>8, <1>9, <1>10, <1>11, <1>12,
     <1>13, <1>14, <1>15, <1>16, <1>17, <1>18, <1>19, <1>20, <1>21, <1>22,
     <1>23, <1>24, <1>25, <1>26, <1>27
  DEF ConsumerNext, MainCalls, MainReturns, LoopThread, DrainThread, LoopOnly,
      Receive, ProcessMessage, Threads

LEMMA CountedStep ==
    TypeOK /\ OneLoopThread /\ OriginInv /\ VerdictsDeserved /\ CountedInv /\ [Next]_vars
        => CountedInv'
<1> SUFFICES ASSUME TypeOK, OneLoopThread, OriginInv, VerdictsDeserved, CountedInv,
                    [Next]_vars, IdsNameEvents'
             PROVE  NamesDistinct' /\ SeenIsCounted' /\ HeldIsCounted'
  BY DEF CountedInv
<1>1. IdsNameEvents
  <2>1. minted \in Nat /\ minted' \in {minted, minted + 1}
    BY FlyingStep, SeenTyped
  <2>2. 1..minted \subseteq 1..minted'
    BY <2>1
  <2> QED  BY <2>2 DEF IdsNameEvents
<1>2. NamesDistinct /\ SeenIsCounted /\ HeldIsCounted
  BY <1>1 DEF CountedInv
<1>3. \A id : Counted(id) => Counted(id)'
  BY CountedGrows
<1>4. \A id : Times("hour", id) >= 1 => Times("hour", id)' >= 1
  <2> SUFFICES ASSUME NEW id, Times("hour", id) >= 1 PROVE Times("hour", id)' >= 1
    OBVIOUS
  <2>1. Times("hour", id) \in Nat
    BY TimesTyped DEF Buckets
  <2>2. Times("hour", id)' >= Times("hour", id) /\ Times("hour", id)' \in Nat
    BY TimesGrow DEF Buckets
  <2> QED  BY <2>1, <2>2
<1>5. HeldIsCounted'
  <2>1. CASE ConsumerStep
    BY <1>2, <1>3, <1>4, <2>1, HeldCountedConsumer DEF ConsumerStep
  <2>2. CASE UNCHANGED cvars
    BY <1>2, <1>3, <1>4, <2>2 DEF cvars, HeldIsCounted
  <2> QED  BY <2>1, <2>2 DEF Next, ExternalPut, ProducerStep, vars
<1> QED  BY <1>2, <1>5, NamesStep, SeenCountedStep

(* A valid reading that is reported as a success is in both aggregates,     *)
(* with any number of threads' steps between its delivery and its counters, *)
(* evictions from the id cache included (handler.py:77-99).                 *)
THEOREM SuccessIsCounted == Spec => []SuccessMeansAggregated
<1>1. Init => CountedInv
  <2> SUFFICES ASSUME Init, IdsNameEvents
               PROVE  NamesDistinct /\ SeenIsCounted /\ HeldIsCounted
    BY DEF CountedInv
  <2>1. Flying = {}
    BY DEF Init, ProducerInit, ConsumerInit, Flying, InHand, HoldingLabels, Range, Threads
  <2>2. NamesDistinct
    BY <2>1 DEF NamesDistinct, Known, IdsNameEvents
  <2> QED
    BY <2>2 DEF Init, ConsumerInit, SeenIsCounted, Seen, HeldIsCounted, Threads
<1>2. CountedInv => SuccessMeansAggregated
  BY DEF CountedInv, HeldIsCounted, SuccessMeansAggregated, Counted
<1> QED
  BY <1>1, <1>2, TypeCorrect, NoSecondLoop, OriginAlways, DeservedAlways, CountedStep, PTL
  DEF Spec
-----------------------------------------------------------------------------
(* AggregatedOnce                                                          *)

(* Where the loop thread is when the event in its hand is in bucket b and   *)
(* not yet remembered.                                                      *)
Past(b) == IF b = "hour" THEN {"day", "remember"} ELSE {"remember"}

(* With one consuming thread and room for every id, the handler remembers   *)
(* each id once and forgets none, so that what is aggregated is remembered  *)
(* or about to be, and what is on its way to the aggregates is not there.   *)
SeenOnce == \A i, j \in DOMAIN seen : seen[i] = seen[j] => i = j
NewInHand == pc["loop"] \in {"hour", "day", "remember"} => ~Seen(msg["loop"].id)
CountedOnce ==
    \A b \in Buckets, id \in Nat :
        /\ Times(b, id) <= 1
        /\ Times(b, id) = 1 => Seen(id) \/ (pc["loop"] \in Past(b) /\ msg["loop"].id = id)
OnceInv ==
    /\ drains = 0 => pc["drain"] = "idle"
    /\ drains = 0 /\ FitsCache => SeenOnce /\ NewInHand /\ CountedOnce

(* The cache has room for one id more than it holds. *)
LEMMA NothingForgotten ==
    ASSUME TypeOK, OriginInv, FitsCache, SeenOnce, NEW id \in Ids, id \in Nat, ~Seen(id)
    PROVE  Remembered(seen, id) = Append(seen, id)
<1> DEFINE grown == Append(seen, id)
<1>1. seen \in Seq(Nat) /\ Len(seen) \in Nat /\ DOMAIN seen = 1..Len(seen)
  BY SeenTyped
<1>2. /\ DOMAIN grown = 1..Len(seen) + 1 /\ Len(grown) = Len(seen) + 1
      /\ \A i \in 1..Len(seen) + 1 : grown[i] = IF i = Len(seen) + 1 THEN id ELSE seen[i]
  BY <1>1
<1>3. \A i \in 1..Len(seen) + 1 : i # Len(seen) + 1 => i \in DOMAIN seen
  BY <1>1
<1>4. grown \in [1..Len(seen) + 1 -> Ids]
  <2>1. \A i \in 1..Len(seen) + 1 : grown[i] \in Ids
    BY <1>2, <1>3 DEF OriginInv
  <2>2. grown \in [1..Len(grown) -> Nat]
    <3>1. grown \in Seq(Nat)
      BY <1>1
    <3> HIDE DEF grown
    <3> QED  BY <3>1, LenProperties
  <2> HIDE DEF grown
  <2> QED  BY <1>2, <2>1, <2>2
<1> HIDE DEF grown
<1>5. \A i, j \in 1..Len(seen) + 1 : grown[i] = grown[j] => i = j
  BY <1>2, <1>3 DEF SeenOnce, Seen
<1>6. grown \in Injection(1..Len(seen) + 1, Ids)
  BY <1>4, <1>5 DEF Injection, IsInjective
<1>7. Cardinality(1..Len(seen) + 1) <= Cardinality(Ids)
  BY <1>6, FS_Injection DEF FitsCache
<1>8. Cardinality(1..Len(seen) + 1) = Len(seen) + 1
  BY <1>1, UpToCounts
<1>9. Cardinality(Ids) \in Nat /\ Cardinality(Ids) <= DedupMax
  BY FS_CardinalityType DEF FitsCache
<1>10. ~(Len(grown) > DedupMax)
  BY <1>1, <1>2, <1>7, <1>8, <1>9, ConsumerAssumption
<1> QED  BY <1>10 DEF Remembered, Seen, grown

(* A cache that has room for every id to come has room for those there are. *)
LEMMA FitsShrinks == ASSUME TypeOK, OneLoopThread, [Next]_vars PROVE FitsCache' => FitsCache
<1> SUFFICES ASSUME FitsCache' PROVE FitsCache
  OBVIOUS
<1>1. Ids \subseteq Ids'
  <2>1. minted \in Nat /\ minted' \in {minted, minted + 1}
    BY FlyingStep, SeenTyped
  <2>2. 1..minted \subseteq 1..minted'
    BY <2>1
  <2> QED  BY <2>2 DEF Ids
<1>2. IsFiniteSet(Ids') /\ Cardinality(Ids') <= DedupMax
  BY DEF FitsCache
<1>3. IsFiniteSet(Ids) /\ Cardinality(Ids) <= Cardinality(Ids')
  BY <1>1, <1>2, FS_Subset
<1>4. Cardinality(Ids) \in Nat /\ Cardinality(Ids') \in Nat
  BY <1>2, <1>3, FS_CardinalityType
<1> QED  BY <1>2, <1>3, <1>4, ConsumerAssumption DEF FitsCache

(* The upsert of an event that is in no aggregate yet. *)
LEMMA UpsertOnce ==
    ASSUME TypeOK, SeenOnce, NewInHand, CountedOnce, NEW b \in Buckets,
           Upsert("loop", b, IF b = "hour" THEN "day" ELSE "remember")
    PROVE  SeenOnce' /\ NewInHand' /\ CountedOnce'
<1>1. /\ pc["loop"] = b /\ msg' = msg /\ seen' = seen
      /\ pc'["loop"] = (IF b = "hour" THEN "day" ELSE "remember")
  BY SeenTyped DEF Upsert, Goto, Threads
<1>2. SeenOnce' /\ NewInHand'
  BY <1>1 DEF SeenOnce, NewInHand, Seen, Buckets
<1>3. ASSUME NEW c \in Buckets, NEW id \in Nat
      PROVE  /\ Times(c, id)' <= 1
             /\ Times(c, id)' = 1 => Seen(id)' \/ (pc'["loop"] \in Past(c) /\ msg'["loop"].id = id)
  <2>1. Times(c, id) \in Nat /\ Times(c, id) <= 1
        /\ (Times(c, id) = 1 => Seen(id) \/ (pc["loop"] \in Past(c) /\ msg["loop"].id = id))
    BY TimesTyped DEF CountedOnce
  <2>2. Seen(id)' <=> Seen(id)
    BY <1>1 DEF Seen
  <2>3. CASE c = b
    <3>1. Times(c, id)' = Times(c, id) + (IF msg["loop"].id = id THEN 1 ELSE 0)
      BY <2>3, UpsertTimes DEF Threads
    <3>2. msg["loop"].id = id => ~Seen(id) /\ pc["loop"] \notin Past(c)
      BY <1>1, <2>3 DEF NewInHand, Past, Buckets
    <3>3. pc'["loop"] \in Past(c)
      BY <1>1, <2>3 DEF Past, Buckets
    <3>4. pc["loop"] \notin Past(c)
      BY <1>1, <2>3 DEF Past, Buckets
    <3> QED  BY <1>1, <2>1, <2>2, <3>1, <3>2, <3>3, <3>4
  <2>4. CASE c # b
    <3>1. Times(c, id)' = Times(c, id)
      BY <2>4 DEF Upsert, Times
    <3>2. pc["loop"] \in Past(c) => pc'["loop"] \in Past(c)
      BY <1>1, <2>4 DEF Past, Buckets
    <3> QED  BY <1>1, <2>1, <2>2, <3>1, <3>2
  <2> QED  BY <2>3, <2>4
<1> QED  BY <1>2, <1>3 DEF CountedOnce

(* The event is remembered once it is in all its aggregates. *)
LEMMA RememberOnce ==
    ASSUME TypeOK, OriginInv, FitsCache, SeenOnce, NewInHand, CountedOnce, Remember("loop")
    PROVE  SeenOnce' /\ NewInHand' /\ CountedOnce'
<1>1. /\ pc["loop"] = "remember" /\ pc'["loop"] = "settle" /\ msg' = msg /\ upserted' = upserted
      /\ seen' = Remembered(seen, msg["loop"].id) /\ msg["loop"].id \in Nat
      /\ seen \in Seq(Nat)
  BY SeenTyped DEF Remember, Goto, Threads
<1>2. ~Seen(msg["loop"].id) /\ msg["loop"].id \in Ids
  BY <1>1 DEF NewInHand, OriginInv, Flying, InHand, HoldingLabels, Threads, Ids
<1>3. seen' = Append(seen, msg["loop"].id)
  BY <1>1, <1>2, NothingForgotten
<1>4. /\ DOMAIN seen = 1..Len(seen) /\ DOMAIN seen' = 1..Len(seen) + 1 /\ Len(seen) \in Nat
      /\ \A i \in 1..Len(seen) + 1 :
             seen'[i] = IF i = Len(seen) + 1 THEN msg["loop"].id ELSE seen[i]
      /\ \A i \in 1..Len(seen) + 1 : i # Len(seen) + 1 => i \in DOMAIN seen
  BY <1>1, <1>3
<1>5. SeenOnce'
  BY <1>2, <1>4 DEF SeenOnce, Seen
<1>6. NewInHand'
  BY <1>1 DEF NewInHand
<1>7. Range(seen') = Range(seen) \cup {msg["loop"].id}
  BY <1>1, <1>3, RangeOfAppend
<1>8. \A id \in Nat : (Seen(id) \/ id = msg["loop"].id) => Seen(id)'
  BY <1>7 DEF Seen, Range
<1>9. CountedOnce'
  BY <1>1, <1>8 DEF CountedOnce, Times
<1> QED  BY <1>5, <1>6, <1>9

(* A step of the loop thread, or of main, that is none of the four that     *)
(* touch what the handler remembers or aggregates.                          *)
Late == {"hour", "day", "remember"}
Calm ==
    /\ UNCHANGED <<seen, upserted>> /\ drains' = drains /\ pc'["drain"] = pc["drain"]
    /\ \/ pc["loop"] \notin Late /\ pc'["loop"] \notin Late
       \/ pc'["loop"] = pc["loop"] /\ msg'["loop"] = msg["loop"]
CalmOr ==
    \/ Calm \/ drains' # 0 \/ HandleAccepts("loop")
    \/ UpsertHour("loop") \/ UpsertDay("loop") \/ Remember("loop")

LEMMA CalmConsumer ==
    ASSUME TypeOK, OneLoopThread, pc["drain"] = "idle", ConsumerNext
    PROVE  CalmOr
<1> USE SeenTyped DEF transportVars, mainVars, callVars, handlerVars, counterVars,
        statusVars, CalmOr, Calm, Late, Threads, Labels, LoopLabels
<1>1. CASE StartWhileAlive
  BY <1>1 DEF StartWhileAlive
<1>2. CASE StartClears
  BY <1>2 DEF StartClears
<1>3. CASE StartSetsRunning
  BY <1>3 DEF StartSetsRunning
<1>4. CASE StartSpawns
  BY <1>4 DEF StartSpawns, OneLoopThread, LoopAlive
<1>5. CASE StopSignals
  BY <1>5 DEF StopSignals
<1>6. CASE StopJoins
  BY <1>6 DEF StopJoins
<1>7. CASE StopClearsRunning
  BY <1>7 DEF StopClearsRunning
<1>8. CASE CallRunUntilEmpty
  BY <1>8 DEF CallRunUntilEmpty
<1>9. CASE CheckStop
  BY <1>9 DEF CheckStop, Goto
<1>10. CASE CheckSentinel
  BY <1>10 DEF CheckSentinel, Goto
<1>11. CASE LoopClearsRunning
  BY <1>11 DEF LoopClearsRunning, Goto
<1>12. CASE LoopEnds
  BY <1>12 DEF LoopEnds, Goto
<1>13. ASSUME NEW t \in Threads, ReceiveMessage(t) PROVE CalmOr
  BY <1>13 DEF ReceiveMessage, Goto
<1>14. ASSUME NEW t \in Threads, ReceiveSentinel(t) PROVE CalmOr
  BY <1>14 DEF ReceiveSentinel, Goto
<1>15. ASSUME NEW t \in Threads, ReceiveNothing(t) PROVE CalmOr
  BY <1>15 DEF ReceiveNothing, Goto
<1>16. ASSUME NEW t \in Threads, Consume(t) PROVE CalmOr
  BY <1>16 DEF Consume, Goto
<1>17. ASSUME NEW t \in Threads, ReadSize(t) PROVE CalmOr
  BY <1>17 DEF ReadSize, Goto
<1>18. ASSUME NEW t \in Threads, SetDepth(t) PROVE CalmOr
  BY <1>18 DEF SetDepth, Goto
<1>19. ASSUME NEW t \in Threads, HandleRejects(t) PROVE CalmOr
  BY <1>19 DEF HandleRejects, Goto
<1>20. ASSUME NEW t \in Threads, HandleSkipsDuplicate(t) PROVE CalmOr
  BY <1>20 DEF HandleSkipsDuplicate, Goto
<1>21. ASSUME NEW t \in Threads, HandleAccepts(t) PROVE CalmOr
  BY <1>21 DEF HandleAccepts
<1>22. ASSUME NEW t \in Threads, UpsertHour(t) PROVE CalmOr
  BY <1>22 DEF UpsertHour, Upsert
<1>23. ASSUME NEW t \in Threads, UpsertDay(t) PROVE CalmOr
  BY <1>23 DEF UpsertDay, Upsert
<1>24. ASSUME NEW t \in Threads, Remember(t) PROVE CalmOr
  BY <1>24 DEF Remember
<1>25. ASSUME NEW t \in Threads, RecordError(t) PROVE CalmOr
  BY <1>25 DEF RecordError, Goto
<1>26. ASSUME NEW t \in Threads, Settle(t) PROVE CalmOr
  BY <1>26 DEF Settle, Goto, NextRound
<1>27. ASSUME NEW t \in Threads, SetExitDepth(t) PROVE CalmOr
  BY <1>27 DEF SetExitDepth, Goto
<1> QED
  BY <1>1, <1>2, <1>3, <1>4, <1>5, <1>6, <1>7, <1>8, <1>9, <1>10, <1>11, <1>12,
     <1>13, <1>14, <1>15, <1>16, <1>17, <1>18, <1>19, <1>20, <1>21, <1>22,
     <1>23, <1>24, <1>25, <1>26, <1>27
  DEF ConsumerNext, MainCalls, MainReturns, LoopThread, DrainThread, LoopOnly,
      Receive, ProcessMessage, Threads

LEMMA CalmOnce ==
    ASSUME SeenOnce, NewInHand, CountedOnce, Calm
    PROVE  SeenOnce' /\ NewInHand' /\ CountedOnce'
<1>1. UNCHANGED <<seen, upserted>>
  BY DEF Calm
<1>2. SeenOnce'
  BY <1>1 DEF SeenOnce
<1>3. NewInHand'
  BY <1>1 DEF NewInHand, Calm, Late, Seen
<1>4. \A b \in Buckets : pc["loop"] \in Past(b) =>
          pc'["loop"] = pc["loop"] /\ msg'["loop"] = msg["loop"]
  BY DEF Calm, Late, Past
<1>5. \A b \in Buckets, id \in Nat : /\ Times(b, id)' = Times(b, id)
                                     /\ Seen(id)' <=> Seen(id)
  BY <1>1 DEF Times, Seen
<1> QED  BY <1>2, <1>3, <1>4, <1>5 DEF CountedOnce

LEMMA AcceptOnce ==
    ASSUME TypeOK, SeenOnce, NewInHand, CountedOnce, HandleAccepts("loop")
    PROVE  SeenOnce' /\ NewInHand' /\ CountedOnce'
<1>1. /\ UNCHANGED <<seen, upserted, msg>> /\ pc["loop"] = "handle" /\ ~Seen(msg["loop"].id)
  BY DEF HandleAccepts, handlerVars
<1>2. SeenOnce' /\ NewInHand'
  BY <1>1 DEF SeenOnce, NewInHand, Seen
<1>3. \A b \in Buckets : pc["loop"] \notin Past(b)
  BY <1>1 DEF Past
<1>4. \A b \in Buckets, id \in Nat : /\ Times(b, id)' = Times(b, id)
                                     /\ Seen(id)' <=> Seen(id)
  BY <1>1 DEF Times, Seen
<1> QED  BY <1>2, <1>3, <1>4 DEF CountedOnce

LEMMA OnceConsumer ==
    ASSUME TypeOK, OneLoopThread, OriginInv, OnceInv, FitsCache' <=> FitsCache, ConsumerNext
    PROVE  OnceInv'
<1>1. drains \in Nat /\ drains' \in Nat /\ (drains' = 0 => drains = 0)
  BY SeenTyped, SMTT(30) DEF ConsumerNext, MainCalls, MainReturns, LoopThread, DrainThread, LoopOnly,
     Receive, ProcessMessage, StartWhileAlive, StartClears, StartSetsRunning, StartSpawns,
     StopSignals, StopJoins, StopClearsRunning, CallRunUntilEmpty, CheckStop, CheckSentinel,
     LoopClearsRunning, LoopEnds, ReceiveMessage, ReceiveSentinel, ReceiveNothing, Consume,
     ReadSize, SetDepth, HandleRejects, HandleSkipsDuplicate, HandleAccepts, UpsertHour,
     UpsertDay, Upsert, Remember, RecordError, Settle, SetExitDepth, mainVars, callVars
<1> SUFFICES ASSUME drains' = 0
             PROVE  /\ pc'["drain"] = "idle"
                    /\ FitsCache => SeenOnce' /\ NewInHand' /\ CountedOnce'
  BY DEF OnceInv
<1>2. pc["drain"] = "idle" /\ (FitsCache => SeenOnce /\ NewInHand /\ CountedOnce)
  BY <1>1 DEF OnceInv
<1>3. CalmOr
  BY <1>2, CalmConsumer
<1>4. CASE Calm
  BY <1>2, <1>4, CalmOnce DEF Calm
<1>5. CASE HandleAccepts("loop")
  BY <1>2, <1>5, AcceptOnce, SeenTyped DEF HandleAccepts, Goto, Threads
<1>6. CASE UpsertHour("loop")
  BY <1>2, <1>6, UpsertOnce, SeenTyped DEF UpsertHour, Upsert, Goto, Threads, Buckets
<1>7. CASE UpsertDay("loop")
  BY <1>2, <1>7, UpsertOnce, SeenTyped DEF UpsertDay, Upsert, Goto, Threads, Buckets
<1>8. CASE Remember("loop")
  BY <1>2, <1>8, RememberOnce, SeenTyped DEF Remember, Goto, Threads
<1> QED  BY <1>3, <1>4, <1>5, <1>6, <1>7, <1>8 DEF CalmOr

LEMMA OnceStep ==
    TypeOK /\ OneLoopThread /\ OriginInv /\ OnceInv /\ [Next]_vars => OnceInv'
<1> SUFFICES ASSUME TypeOK, OneLoopThread, OriginInv, OnceInv, [Next]_vars PROVE OnceInv'
  OBVIOUS
<1>1. CASE ConsumerStep
  <2>1. FitsCache' <=> FitsCache
    BY <1>1 DEF ConsumerStep, pvars, FitsCache, Ids
  <2> QED  BY <1>1, <2>1, OnceConsumer DEF ConsumerStep
<1>2. CASE UNCHANGED cvars
  BY <1>2, FitsShrinks DEF cvars, OnceInv, SeenOnce, NewInHand, CountedOnce, Seen, Times
<1> QED  BY <1>1, <1>2 DEF Next, ExternalPut, ProducerStep, vars

(* One consuming thread with room in its id cache aggregates no event       *)
(* twice, however often it is put and whatever else is put with its id.     *)
THEOREM NothingCountedTwice == Spec => []AggregatedOnce
<1>1. Init => OnceInv
  <2> SUFFICES ASSUME Init PROVE OnceInv
    OBVIOUS
  <2>1. \A b \in Buckets, id \in Nat : Times(b, id) = 0
    <3> SUFFICES ASSUME NEW b \in Buckets, NEW id \in Nat PROVE Times(b, id) = 0
      OBVIOUS
    <3>1. {i \in DOMAIN upserted[b] : upserted[b][i].id = id} = {}
      BY DEF Init, ConsumerInit
    <3> QED  BY <3>1, FS_EmptySet DEF Times
  <2> QED
    BY <2>1 DEF Init, ConsumerInit, OnceInv, SeenOnce, NewInHand, CountedOnce, Seen, Threads
<1>2. TypeOK /\ OnceInv => AggregatedOnce
  <2>1. TypeOK => Ids \subseteq Nat
    BY SeenTyped, ExternalAssumption DEF Ids, Message
  <2> QED  BY <2>1 DEF OnceInv, CountedOnce, AggregatedOnce, ReplayCannotInflate
<1> QED
  BY <1>1, <1>2, TypeCorrect, NoSecondLoop, OriginAlways, OnceStep, PTL DEF Spec
=============================================================================
