-------------------------- MODULE EventStreamSafety --------------------------
(***************************************************************************)
(* The type, accounting, error-list and running-flag invariants of         *)
(* EventStream, for every value of its constants.  Each is inductive with  *)
(* what is proved before it, but for Conserved, which needs to know that   *)
(* nothing is produced before the first run.                               *)
(***************************************************************************)
EXTENDS EventStream, TLAPS, FiniteSetTheorems, SequenceTheorems

(* A reordering of a sequence of messages is one, of the same length.      *)
LEMMA ReorderingsType ==
    ASSUME NEW s \in Seq(Message), NEW r \in Reorderings(s)
    PROVE  r \in Seq(Message) /\ Len(r) = Len(s)
<1>1. PICK f \in [DOMAIN s -> DOMAIN s] : r = [i \in DOMAIN s |-> s[f[i]]]
  BY DEF Reorderings
<1>2. DOMAIN s = 1..Len(s) /\ Len(s) \in Nat
  OBVIOUS
<1>3. \A i \in DOMAIN s : f[i] \in DOMAIN s
  OBVIOUS
<1>4. \A i \in DOMAIN s : s[f[i]] \in Message
  BY <1>2, <1>3
<1> QED  BY <1>1, <1>2, <1>4

(* The producer's variables are well typed, and so is what it hands over:  *)
(* the disjuncts of PublishThen.                                           *)
LEMMA PublishType ==
    ASSUME ProducerTypeOK, NEW b \in Seq(Message), NEW next \in {"read", "append", "sentinel"},
           PublishThen(b, next)
    PROVE  /\ out' \in Seq(Message)
           /\ ppc' \in {next, "publish"}
           /\ resume' \in {next, resume}
           /\ ppc' = "publish" => resume' = next
BY ReorderingsType DEF PublishThen, ProducerTypeOK

LEMMA EventOfType ==
    ASSUME ProducerTypeOK, row <= Len(Rows), NEW kind \in EventKinds
    PROVE  EventOf(kind) \in Message
<1>1. row \in Nat \ {0} /\ minted \in Nat
  BY DEF ProducerTypeOK
<1>2. Rows \in Seq(1..MaxTimestamp) /\ kind \in Kinds /\ MaxTimestamp \in Nat
  BY ProducerAssumption, QueueMaxAssumption
<1>3. Rows[row] \in 1..MaxTimestamp
  BY <1>1, <1>2
<1>4. (IF kind = "malformed" THEN 0 ELSE Rows[row]) \in 0..MaxTimestamp
  BY <1>2, <1>3
<1> QED  BY <1>1, <1>2, <1>4 DEF EventOf, Message

LEMMA AppendRowType ==
    ASSUME ProducerTypeOK, row <= Len(Rows), NEW kind \in EventKinds, AppendRow(kind)
    PROVE  ProducerTypeOK'
<1> DEFINE grown == Append(batch, EventOf(kind))
<1>1. grown \in Seq(Message)
  BY EventOfType DEF ProducerTypeOK
<1>2. CASE PublishThen(grown, "read") /\ batch' = <<>>
  <2>1. /\ out' \in Seq(Message) /\ ppc' \in {"read", "publish"}
        /\ resume' \in {"read", resume} /\ (ppc' = "publish" => resume' = "read")
    BY <1>1, <1>2, PublishType
  <2> QED  BY <1>2, <2>1 DEF ProducerTypeOK, AppendRow
<1>3. CASE ppc' = "read" /\ batch' = grown /\ UNCHANGED <<out, resume>>
  BY <1>1, <1>3 DEF ProducerTypeOK, AppendRow
<1> QED  BY <1>2, <1>3 DEF AppendRow

-----------------------------------------------------------------------------
(* Type correctness                                                        *)

(* put and get keep the queue's type and bound. *)
LEMMA PutType ==
    ASSUME QueueTypeOK, NEW x \in Message \cup {Sentinel}, Put(x)
    PROVE  QueueTypeOK'
BY QueueMaxAssumption DEF QueueTypeOK, Put

LEMMA GetType ==
    ASSUME QueueTypeOK, Get
    PROVE  /\ QueueTypeOK' /\ Head(queue) \in Message \cup {Sentinel}
           /\ Len(queue') = Len(queue) - 1
BY QueueMaxAssumption DEF QueueTypeOK, Get

(* Every step of the producer keeps its own variables and the queue typed. *)
LEMMA ProducerTypeStep ==
    ASSUME QueueTypeOK, ProducerTypeOK, ProducerNext
    PROVE  QueueTypeOK' /\ ProducerTypeOK'
<1>1a. CASE StartProducer
  <2>1. ppc' = "connect" /\ runs' \in Nat /\ produced' = 0 /\ pstop' = FALSE
    BY <1>1a DEF StartProducer, ProducerTypeOK
  <2>2. UNCHANGED <<queue, row, batch, out, resume, producerError, minted, sentinels>>
    BY <1>1a DEF StartProducer
  <2>3. QueueTypeOK'
    BY <2>2 DEF QueueTypeOK
  <2>4. ProducerTypeOK'
    BY <2>1, <2>2 DEF ProducerTypeOK
  <2> QED  BY <2>3, <2>4
<1>1b. CASE StopProducer
  BY <1>1b DEF StopProducer, QueueTypeOK, ProducerTypeOK
<1>1c. CASE Connect
  BY <1>1c DEF Connect, QueueTypeOK, ProducerTypeOK
<1>1d. CASE ConnectFails
  BY <1>1d DEF ConnectFails, QueueTypeOK, ProducerTypeOK
<1>1e. CASE SeeStop
  BY <1>1e DEF SeeStop, QueueTypeOK, ProducerTypeOK
<1>1f. CASE ReadFails
  BY <1>1f DEF ReadFails, QueueTypeOK, ProducerTypeOK
<1>1g. CASE CountEvent
  BY <1>1g DEF CountEvent, QueueTypeOK, ProducerTypeOK
<1>1h. CASE ProducerEnds
  BY <1>1h DEF ProducerEnds, QueueTypeOK, ProducerTypeOK
<1>3. CASE FlushAtEnd
  <2>1. /\ out' \in Seq(Message) /\ ppc' \in {"sentinel", "publish"}
        /\ resume' \in {"sentinel", resume} /\ (ppc' = "publish" => resume' = "sentinel")
    BY <1>3, PublishType DEF FlushAtEnd, ProducerTypeOK
  <2> QED  BY <1>3, <2>1 DEF FlushAtEnd, QueueTypeOK, ProducerTypeOK
<1>4. CASE ReadRow
  <2>1. CASE GapBeforeRow
    <3>1. /\ out' \in Seq(Message) /\ ppc' \in {"append", "publish"}
          /\ resume' \in {"append", resume} /\ (ppc' = "publish" => resume' = "append")
      BY <1>4, <2>1, PublishType DEF ReadRow, ProducerTypeOK
    <3> QED  BY <1>4, <2>1, <3>1 DEF ReadRow, QueueTypeOK, ProducerTypeOK
  <2>2. CASE ~GapBeforeRow
    <3>1. PICK kind \in EventKinds : row <= Len(Rows) /\ AppendRow(kind)
      BY <1>4, <2>2 DEF ReadRow
    <3>2. ProducerTypeOK'
      BY <3>1, AppendRowType
    <3> QED  BY <3>1, <3>2 DEF AppendRow, QueueTypeOK
  <2> QED  BY <2>1, <2>2
<1>5. CASE AppendAfterGap
  <2>1. PICK kind \in EventKinds : row <= Len(Rows) /\ AppendRow(kind)
    BY <1>5 DEF AppendAfterGap, ProducerTypeOK
  <2>2. ProducerTypeOK'
    BY <2>1, AppendRowType
  <2> QED  BY <2>1, <2>2 DEF AppendRow, QueueTypeOK
<1>6. CASE PublishNext
  <2>1. CASE out = <<>> \/ pstop
    <3>1. /\ ppc = "publish" /\ ppc' = resume /\ out' = <<>>
          /\ UNCHANGED <<queue, row, batch, resume, pstop, produced, producerError,
                         minted, runs, sentinels>>
      BY <1>6, <2>1 DEF PublishNext
    <3>2. ppc' = "append" => row <= Len(Rows)
      BY <3>1 DEF ProducerTypeOK
    <3>3. ppc' \in {"read", "append", "sentinel"} /\ out' \in Seq(Message)
      BY <3>1 DEF ProducerTypeOK
    <3> QED  BY <3>1, <3>2, <3>3 DEF QueueTypeOK, ProducerTypeOK
  <2>2. CASE ~(out = <<>> \/ pstop)
    BY <1>6, <2>2 DEF PublishNext, QueueTypeOK, ProducerTypeOK
  <2> QED  BY <2>1, <2>2
<1>7. CASE PutEvent
  <2>1. Head(out) \in Message /\ Tail(out) \in Seq(Message)
    BY <1>7 DEF PutEvent, ProducerTypeOK
  <2>2. QueueTypeOK'
    BY <1>7, <2>1, PutType DEF PutEvent
  <2> QED  BY <1>7, <2>1, <2>2 DEF PutEvent, ProducerTypeOK
<1>8. CASE PutSentinel
  <2>1. QueueTypeOK'
    BY <1>8, PutType DEF PutSentinel
  <2> QED  BY <1>8, <2>1 DEF PutSentinel, ProducerTypeOK
<1> QED
  BY <1>1a, <1>1b, <1>1c, <1>1d, <1>1e, <1>1f, <1>1g, <1>1h, <1>3, <1>4, <1>5, <1>6, <1>7, <1>8
  DEF ProducerNext, ProducerThread

(* The consumer's steps keep its own variables and the queue typed.        *)
LEMMA GotoType ==
    ASSUME ConsumerTypeOK, NEW t \in Threads, NEW label \in Labels,
           t = "drain" => label \notin LoopLabels, Goto(t, label)
    PROVE  pc' \in [Threads -> Labels] /\ pc'["drain"] \notin LoopLabels
BY DEF ConsumerTypeOK, Goto, Threads

LEMMA EventsQueuedType ==
    ASSUME QueueTypeOK
    PROVE  EventsQueued \in Nat
<1>1. Len(queue) \in Nat
  BY DEF QueueTypeOK
<1>2. IsFiniteSet(1..Len(queue))
  BY <1>1, FS_Interval
<1>3. IsFiniteSet({i \in 1..Len(queue) : queue[i] # Sentinel})
  BY <1>2, FS_Subset
<1> QED  BY <1>3, FS_CardinalityType DEF EventsQueued

(* The two bounded lists: what is appended and what falls off.             *)
LEMMA RememberedType ==
    ASSUME NEW ids \in Seq(Nat), NEW id \in Nat
    PROVE  Remembered(ids, id) \in Seq(Nat)
<1>1. Append(ids, id) \in Seq(Nat) /\ Len(Append(ids, id)) > 0
  OBVIOUS
<1>2. Tail(Append(ids, id)) \in Seq(Nat)
  BY <1>1, HeadTailProperties
<1>3. CASE Len(ids) > DedupMax
  <2>1. Tail(ids) \in Seq(Nat)
    BY <1>3, ConsumerAssumption
  <2> QED  BY <1>1, <1>2, <2>1 DEF Remembered
<1>4. CASE ~(Len(ids) > DedupMax)
  BY <1>1, <1>2, <1>4 DEF Remembered
<1> QED  BY <1>3, <1>4

LEMMA CappedType ==
    ASSUME NEW S, NEW list \in Seq(S), NEW e \in S
    PROVE  Capped(list, e) \in Seq(S)
<1>1. Append(list, e) \in Seq(S) /\ Append(list, e) # <<>>
  BY AppendProperties
<1>2. Tail(Append(list, e)) \in Seq(S)
  BY <1>1, HeadTailProperties
<1> QED  BY <1>1, <1>2 DEF Capped

LEMMA MainTypeStep ==
    ASSUME QueueTypeOK, ConsumerTypeOK, MainCalls \/ MainReturns
    PROVE  QueueTypeOK' /\ ConsumerTypeOK'
<1> USE DEF transportVars, mainVars, callVars, handlerVars, counterVars, statusVars
<1>1. CASE StartWhileAlive
  BY <1>1 DEF StartWhileAlive, QueueTypeOK, ConsumerTypeOK
<1>2. CASE StartClears
  <2>1. cstop' = FALSE /\ mpc' = "setrunning" /\ starts' \in Nat /\ wanted' = TRUE
    BY <1>2 DEF StartClears, ConsumerTypeOK
  <2>2. UNCHANGED <<transportVars, drains, goal, pc, msg, size, verdict, handlerVars,
                    statusVars, errors>>
    BY <1>2 DEF StartClears
  <2>3. QueueTypeOK'
    BY <2>2 DEF QueueTypeOK
  <2>4. ConsumerTypeOK'
    BY <2>1, <2>2 DEF ConsumerTypeOK
  <2> QED  BY <2>3, <2>4
<1>3. CASE StartSetsRunning
  BY <1>3 DEF StartSetsRunning, QueueTypeOK, ConsumerTypeOK
<1>4. CASE StartSpawns
  <2>1. pc' \in [Threads -> Labels] /\ pc'["drain"] \notin LoopLabels
    BY <1>4, GotoType DEF StartSpawns, Goto, Threads, Labels, LoopLabels
  <2> QED  BY <1>4, <2>1 DEF StartSpawns, QueueTypeOK, ConsumerTypeOK
<1>5. CASE StopSignals
  BY <1>5 DEF StopSignals, QueueTypeOK, ConsumerTypeOK
<1>6. CASE StopJoins
  BY <1>6 DEF StopJoins, QueueTypeOK, ConsumerTypeOK
<1>7. CASE StopClearsRunning
  BY <1>7 DEF StopClearsRunning, QueueTypeOK, ConsumerTypeOK
<1>8. CASE CallRunUntilEmpty
  <2>1. pc' \in [Threads -> Labels] /\ pc'["drain"] \notin LoopLabels
    BY <1>8, GotoType DEF CallRunUntilEmpty, Goto, Threads, Labels, LoopLabels
  <2>2. goal' \in Nat
    BY <1>8, EventsQueuedType DEF CallRunUntilEmpty, Taken, ConsumerTypeOK
  <2> QED  BY <1>8, <2>1, <2>2 DEF CallRunUntilEmpty, QueueTypeOK, ConsumerTypeOK
<1> QED
  BY <1>1, <1>2, <1>3, <1>4, <1>5, <1>6, <1>7, <1>8
  DEF MainCalls, MainReturns

LEMMA ReceiveTypeStep ==
    ASSUME QueueTypeOK, ConsumerTypeOK, NEW t \in Threads, Receive(t)
    PROVE  QueueTypeOK' /\ ConsumerTypeOK'
<1> USE DEF transportVars, mainVars, callVars, handlerVars, counterVars, statusVars
<1>0. pc' \in [Threads -> Labels] /\ pc'["drain"] \notin LoopLabels
  BY GotoType DEF Receive, ReceiveMessage, ReceiveSentinel, ReceiveNothing, Threads, Labels, LoopLabels
<1>1. CASE ReceiveMessage(t)
  <2>1. msg' \in [Threads -> Message] /\ QueueTypeOK'
    BY <1>1, GetType DEF ReceiveMessage, ConsumerTypeOK
  <2> QED  BY <1>0, <1>1, <2>1 DEF ReceiveMessage, ConsumerTypeOK
<1>2. CASE ReceiveSentinel(t)
  <2>1. QueueTypeOK'
    BY <1>2, GetType DEF ReceiveSentinel
  <2> QED  BY <1>0, <1>2, <2>1 DEF ReceiveSentinel, ConsumerTypeOK
<1>3. CASE ReceiveNothing(t)
  BY <1>0, <1>3 DEF ReceiveNothing, QueueTypeOK, ConsumerTypeOK
<1> QED  BY <1>1, <1>2, <1>3 DEF Receive

LEMMA LoopOnlyTypeStep ==
    ASSUME QueueTypeOK, ConsumerTypeOK, LoopOnly
    PROVE  QueueTypeOK' /\ ConsumerTypeOK'
<1> USE DEF transportVars, mainVars, callVars, handlerVars, counterVars, statusVars
<1>0. pc' \in [Threads -> Labels] /\ pc'["drain"] \notin LoopLabels
  BY GotoType DEF LoopOnly, CheckStop, CheckSentinel, LoopClearsRunning, LoopEnds, Threads, Labels, LoopLabels
<1> QED
  BY <1>0 DEF LoopOnly, CheckStop, CheckSentinel, LoopClearsRunning, LoopEnds,
     QueueTypeOK, ConsumerTypeOK

LEMMA ProcessTypeStep ==
    ASSUME QueueTypeOK, ConsumerTypeOK, NEW t \in Threads, ProcessMessage(t)
    PROVE  QueueTypeOK' /\ ConsumerTypeOK'
<1> USE DEF transportVars, mainVars, callVars, handlerVars, counterVars, statusVars
<1>1. CASE Consume(t)
  <2>1. pc' \in [Threads -> Labels] /\ pc'["drain"] \notin LoopLabels
    BY <1>1, GotoType DEF Consume, Threads, Labels, LoopLabels
  <2>2. watermark' \in 0..MaxTimestamp
    BY <1>1 DEF Consume, ConsumerTypeOK, NewWatermark, Message
  <2> QED  BY <1>1, <2>1, <2>2 DEF Consume, QueueTypeOK, ConsumerTypeOK
<1>2. CASE ReadSize(t)
  <2>1. pc' \in [Threads -> Labels] /\ pc'["drain"] \notin LoopLabels
    BY <1>2, GotoType DEF ReadSize, Threads, Labels, LoopLabels
  <2>2. size' \in [Threads -> Nat]
    BY <1>2 DEF ReadSize, ConsumerTypeOK, QueueTypeOK
  <2> QED  BY <1>2, <2>1, <2>2 DEF ReadSize, QueueTypeOK, ConsumerTypeOK
<1>3. CASE SetDepth(t)
  <2>1. pc' \in [Threads -> Labels] /\ pc'["drain"] \notin LoopLabels
    BY <1>3, GotoType DEF SetDepth, Threads, Labels, LoopLabels
  <2>2. depth' \in Nat
    BY <1>3 DEF SetDepth, ConsumerTypeOK
  <2> QED  BY <1>3, <2>1, <2>2 DEF SetDepth, QueueTypeOK, ConsumerTypeOK
<1>4. CASE HandleRejects(t)
  <2>1. pc' \in [Threads -> Labels] /\ pc'["drain"] \notin LoopLabels
    BY <1>4, GotoType DEF HandleRejects, Threads, Labels, LoopLabels
  <2>2. verdict' \in [Threads -> Verdicts]
    BY <1>4 DEF HandleRejects, ConsumerTypeOK, VerdictOf, Verdicts
  <2> QED  BY <1>4, <2>1, <2>2 DEF HandleRejects, QueueTypeOK, ConsumerTypeOK
<1>5. CASE HandleSkipsDuplicate(t)
  <2>1. pc' \in [Threads -> Labels] /\ pc'["drain"] \notin LoopLabels
    BY <1>5, GotoType DEF HandleSkipsDuplicate, Threads, Labels, LoopLabels
  <2>2. verdict' \in [Threads -> Verdicts]
    BY <1>5 DEF HandleSkipsDuplicate, ConsumerTypeOK, Verdicts
  <2> QED  BY <1>5, <2>1, <2>2 DEF HandleSkipsDuplicate, QueueTypeOK, ConsumerTypeOK
<1>6. CASE HandleAccepts(t)
  <2>1. pc' \in [Threads -> Labels] /\ pc'["drain"] \notin LoopLabels
    BY <1>6, GotoType DEF HandleAccepts, Threads, Labels, LoopLabels
  <2> QED  BY <1>6, <2>1 DEF HandleAccepts, QueueTypeOK, ConsumerTypeOK
<1>7. CASE UpsertHour(t)
  <2>1. pc' \in [Threads -> Labels] /\ pc'["drain"] \notin LoopLabels
    BY <1>7, GotoType DEF UpsertHour, Upsert, Threads, Labels, LoopLabels
  <2>2. upserted' \in [Buckets -> Seq(Message)]
    BY <1>7 DEF UpsertHour, ConsumerTypeOK, Upsert, Buckets
  <2> QED  BY <1>7, <2>1, <2>2 DEF UpsertHour, Upsert, QueueTypeOK, ConsumerTypeOK
<1>8. CASE UpsertDay(t)
  <2>1. pc' \in [Threads -> Labels] /\ pc'["drain"] \notin LoopLabels
    BY <1>8, GotoType DEF UpsertDay, Upsert, Threads, Labels, LoopLabels
  <2>2. upserted' \in [Buckets -> Seq(Message)]
    BY <1>8 DEF UpsertDay, ConsumerTypeOK, Upsert, Buckets
  <2> QED  BY <1>8, <2>1, <2>2 DEF UpsertDay, Upsert, QueueTypeOK, ConsumerTypeOK
<1>9. CASE Remember(t)
  <2>1. pc' \in [Threads -> Labels] /\ pc'["drain"] \notin LoopLabels
    BY <1>9, GotoType DEF Remember, Threads, Labels, LoopLabels
  <2>2. verdict' \in [Threads -> Verdicts] /\ seen' \in Seq(Nat)
    <3>1. msg[t].id \in Nat
      BY DEF ConsumerTypeOK, Message
    <3> QED  BY <1>9, <3>1, RememberedType DEF Remember, ConsumerTypeOK, Verdicts
  <2> QED  BY <1>9, <2>1, <2>2 DEF Remember, QueueTypeOK, ConsumerTypeOK
<1>10. CASE RecordError(t)
  <2>1. pc' \in [Threads -> Labels] /\ pc'["drain"] \notin LoopLabels
    BY <1>10, GotoType DEF RecordError, Threads, Labels, LoopLabels
  <2>2. errors' \in Seq([id : Nat, kind : Kinds])
    <3>1. [id |-> msg[t].id, kind |-> msg[t].kind] \in [id : Nat, kind : Kinds]
      BY DEF ConsumerTypeOK, Message
    <3> QED  BY <1>10, <3>1, CappedType DEF RecordError, ConsumerTypeOK
  <2> QED  BY <1>10, <2>1, <2>2 DEF RecordError, QueueTypeOK, ConsumerTypeOK
<1>11. CASE Settle(t)
  <2>1. pc' \in [Threads -> Labels] /\ pc'["drain"] \notin LoopLabels
    BY <1>11, GotoType DEF Settle, NextRound, Threads, Labels, LoopLabels
  <2>2. succeeded' \in Nat /\ malformed' \in Nat /\ failed' \in Nat
    BY <1>11 DEF Settle, ConsumerTypeOK
  <2> QED  BY <1>11, <2>1, <2>2 DEF Settle, QueueTypeOK, ConsumerTypeOK
<1>12. CASE SetExitDepth(t)
  <2>1. pc' \in [Threads -> Labels] /\ pc'["drain"] \notin LoopLabels
    BY <1>12, GotoType DEF SetExitDepth, Threads, Labels, LoopLabels
  <2>2. depth' \in Nat
    BY <1>12 DEF SetExitDepth, ConsumerTypeOK
  <2> QED  BY <1>12, <2>1, <2>2 DEF SetExitDepth, QueueTypeOK, ConsumerTypeOK
<1> QED
  BY <1>1, <1>2, <1>3, <1>4, <1>5, <1>6, <1>7, <1>8, <1>9, <1>10, <1>11, <1>12
  DEF ProcessMessage

LEMMA ConsumerTypeStep ==
    ASSUME QueueTypeOK, ConsumerTypeOK, ConsumerNext
    PROVE  QueueTypeOK' /\ ConsumerTypeOK'
BY MainTypeStep, ReceiveTypeStep, LoopOnlyTypeStep, ProcessTypeStep
DEF ConsumerNext, LoopThread, DrainThread, Threads

LEMMA InitType == Init => TypeOK
<1> SUFFICES ASSUME Init PROVE TypeOK
  OBVIOUS
<1>1. QueueTypeOK /\ externals \in Nat
  <2>1. queue = <<>> /\ externals = 0
    BY DEF Init
  <2> QED  BY <2>1, QueueMaxAssumption DEF QueueTypeOK
<1>2. ProducerTypeOK
  <2>1. ppc = "idle" /\ resume = "read" /\ row = 1 /\ batch = <<>> /\ out = <<>>
    BY DEF Init, ProducerInit
  <2>2. /\ pstop = FALSE /\ producerError = FALSE
        /\ produced = 0 /\ minted = 0 /\ runs = 0 /\ sentinels = 0
    BY DEF Init, ProducerInit
  <2>3. row \in Nat \ {0} /\ batch \in Seq(Message) /\ out \in Seq(Message)
    BY <2>1, EmptySeq
  <2> QED  BY <2>1, <2>2, <2>3 DEF ProducerTypeOK
<1>3. ConsumerTypeOK
  <2>1. [id |-> 0, kind |-> "malformed", ts |-> 0] \in Message
    BY QueueMaxAssumption DEF Message, Kinds
  <2>2. msg \in [Threads -> Message]
    BY <2>1 DEF Init, ConsumerInit
  <2>3. pc \in [Threads -> Labels] /\ pc["drain"] \notin LoopLabels
    BY DEF Init, ConsumerInit, Threads, Labels, LoopLabels
  <2>4. /\ size \in [Threads -> Nat] /\ verdict \in [Threads -> Verdicts]
        /\ upserted \in [Buckets -> Seq(Message)]
    BY EmptySeq DEF Init, ConsumerInit, Verdicts
  <2>5. /\ sentinelReceived \in BOOLEAN /\ sentinelsTaken \in Nat
        /\ cstop \in BOOLEAN /\ mpc = "idle" /\ starts \in Nat /\ drains \in Nat
        /\ wanted \in BOOLEAN /\ goal \in Nat
    BY DEF Init, ConsumerInit
  <2>7. seen \in Seq(Nat) /\ errors \in Seq([id : Nat, kind : Kinds])
    BY EmptySeq DEF Init, ConsumerInit
  <2>6. /\ running \in BOOLEAN /\ depth \in Nat /\ consumed \in Nat
        /\ succeeded \in Nat /\ malformed \in Nat /\ failed \in Nat
        /\ watermark \in 0..MaxTimestamp
    <3>1. watermark = 0 /\ 0 \in 0..MaxTimestamp
      BY QueueMaxAssumption DEF Init, ConsumerInit
    <3>2. running = FALSE /\ depth = 0 /\ consumed = 0 /\ succeeded = 0
          /\ malformed = 0 /\ failed = 0
      BY DEF Init, ConsumerInit
    <3> QED  BY <3>1, <3>2
  <2> QED  BY <2>2, <2>3, <2>4, <2>5, <2>6, <2>7 DEF ConsumerTypeOK
<1> QED  BY <1>1, <1>2, <1>3 DEF TypeOK

LEMMA ExternalPutType ==
    ASSUME TypeOK, ExternalPut
    PROVE  TypeOK'
<1>1. QueueTypeOK'
  BY PutType, ExternalAssumption DEF TypeOK, ExternalPut
<1>2. ProducerTypeOK'
  BY DEF TypeOK, ExternalPut, pvars, ProducerTypeOK
<1>3. ConsumerTypeOK'
  BY DEF TypeOK, ExternalPut, cvars, ConsumerTypeOK
<1> QED  BY <1>1, <1>2, <1>3 DEF TypeOK, ExternalPut

(* Every step of the composed system keeps every variable typed.           *)
LEMMA TypeStep == TypeOK /\ [Next]_vars => TypeOK'
<1> SUFFICES ASSUME TypeOK, [Next]_vars PROVE TypeOK'
  OBVIOUS
<1>1. CASE ExternalPut
  BY <1>1, ExternalPutType
<1>2. CASE ProducerStep
  <2>1. QueueTypeOK' /\ ProducerTypeOK'
    BY <1>2, ProducerTypeStep DEF ProducerStep, TypeOK
  <2>2. ConsumerTypeOK'
    BY <1>2 DEF ProducerStep, TypeOK, cvars, ConsumerTypeOK
  <2> QED  BY <1>2, <2>1, <2>2 DEF ProducerStep, TypeOK
<1>3. CASE ConsumerStep
  <2>1. QueueTypeOK' /\ ConsumerTypeOK'
    BY <1>3, ConsumerTypeStep DEF ConsumerStep, TypeOK
  <2>2. ProducerTypeOK'
    BY <1>3 DEF ConsumerStep, TypeOK, pvars, ProducerTypeOK
  <2> QED  BY <1>3, <2>1, <2>2 DEF ConsumerStep, TypeOK
<1>4. CASE UNCHANGED vars
  <2>1. QueueTypeOK' /\ externals' = externals
    BY <1>4 DEF vars, TypeOK, QueueTypeOK
  <2>2. ProducerTypeOK'
    BY <1>4 DEF vars, pvars, TypeOK, ProducerTypeOK
  <2>3. ConsumerTypeOK'
    BY <1>4 DEF vars, cvars, TypeOK, ConsumerTypeOK
  <2> QED  BY <2>1, <2>2, <2>3 DEF TypeOK
<1> QED  BY <1>1, <1>2, <1>3, <1>4 DEF Next

(* The queue never exceeds its bound and every variable keeps its type.    *)
THEOREM TypeCorrect == Spec => []TypeOK
BY InitType, TypeStep, PTL DEF Spec

-----------------------------------------------------------------------------
(* The types the sums and the labels need, as one fact.                    *)
Counters ==
    /\ consumed \in Nat /\ succeeded \in Nat /\ malformed \in Nat /\ failed \in Nat
    /\ produced \in Nat /\ externals \in Nat /\ sentinels \in Nat
    /\ sentinelsTaken \in Nat /\ runs \in Nat
    /\ pc \in [Threads -> Labels] /\ verdict \in [Threads -> Verdicts]
    /\ Len(queue) \in Nat

LEMMA CounterTypes == TypeOK => Counters
BY DEF Counters, TypeOK, ProducerTypeOK, ConsumerTypeOK, QueueTypeOK

(* A put makes the queue one longer, a get one shorter.                    *)
LEMMA PutGrows == ASSUME TypeOK, NEW x, Put(x) PROVE Len(queue') = Len(queue) + 1
<1>1. queue \in Seq(Message \cup {Sentinel, x})
  <2>1. queue \in Seq(Message \cup {Sentinel})
    BY DEF TypeOK, QueueTypeOK
  <2> QED  BY <2>1
<1> QED  BY <1>1 DEF Put

LEMMA GetShrinks == ASSUME TypeOK, Get PROVE Len(queue') = Len(queue) - 1
<1>1. queue \in Seq(Message \cup {Sentinel})
  BY DEF TypeOK, QueueTypeOK
<1> QED  BY <1>1 DEF Get

(* 1..n has n elements. *)
LEMMA UpToCounts == ASSUME NEW n \in Nat PROVE IsFiniteSet(1..n) /\ Cardinality(1..n) = n
<1>1. 1 \in Int /\ n \in Int
  OBVIOUS
<1>2. Cardinality(1..n) = IF 1 > n THEN 0 ELSE n - 1 + 1
  BY <1>1, FS_Interval, Zenon
<1> QED  BY <1>1, <1>2, FS_Interval

-----------------------------------------------------------------------------
(* OneLoopThread                                                           *)

LEMMA OneLoopConsumer ==
    ASSUME TypeOK, OneLoopThread, ConsumerNext
    PROVE  OneLoopThread'
<1>0. Counters
  BY CounterTypes
<1> USE <1>0 DEF Counters, transportVars, mainVars, callVars, handlerVars, counterVars, statusVars,
        OneLoopThread, LoopAlive, Threads, Labels, LoopLabels
<1>1. CASE StartWhileAlive
  BY <1>1 DEF StartWhileAlive
<1>2. CASE StartClears
  BY <1>2 DEF StartClears
<1>3. CASE StartSetsRunning
  BY <1>3 DEF StartSetsRunning
<1>4. CASE StartSpawns
  BY <1>4 DEF StartSpawns
<1>5. CASE StopSignals
  BY <1>5 DEF StopSignals
<1>6. CASE StopJoins
  BY <1>6 DEF StopJoins
<1>7. CASE StopClearsRunning
  BY <1>7 DEF StopClearsRunning
<1>8. CASE CallRunUntilEmpty
  BY <1>8 DEF CallRunUntilEmpty
<1>9. CASE CheckStop
  BY <1>9 DEF CheckStop, Goto
<1>10. CASE CheckSentinel
  BY <1>10 DEF CheckSentinel, Goto
<1>11. CASE LoopClearsRunning
  BY <1>11 DEF LoopClearsRunning, Goto
<1>12. CASE LoopEnds
  BY <1>12 DEF LoopEnds, Goto
<1>13. ASSUME NEW t \in Threads, ReceiveMessage(t) PROVE OneLoopThread'
  BY <1>13 DEF ReceiveMessage, Goto
<1>14. ASSUME NEW t \in Threads, ReceiveSentinel(t) PROVE OneLoopThread'
  BY <1>14 DEF ReceiveSentinel, Goto
<1>15. ASSUME NEW t \in Threads, ReceiveNothing(t) PROVE OneLoopThread'
  BY <1>15 DEF ReceiveNothing, Goto
<1>16. ASSUME NEW t \in Threads, Consume(t) PROVE OneLoopThread'
  BY <1>16 DEF Consume, Goto
<1>17. ASSUME NEW t \in Threads, ReadSize(t) PROVE OneLoopThread'
  BY <1>17 DEF ReadSize, Goto
<1>18. ASSUME NEW t \in Threads, SetDepth(t) PROVE OneLoopThread'
  BY <1>18 DEF SetDepth, Goto
<1>19. ASSUME NEW t \in Threads, HandleRejects(t) PROVE OneLoopThread'
  BY <1>19 DEF HandleRejects, Goto
<1>20. ASSUME NEW t \in Threads, HandleSkipsDuplicate(t) PROVE OneLoopThread'
  BY <1>20 DEF HandleSkipsDuplicate, Goto
<1>21. ASSUME NEW t \in Threads, HandleAccepts(t) PROVE OneLoopThread'
  BY <1>21 DEF HandleAccepts, Goto
<1>22. ASSUME NEW t \in Threads, UpsertHour(t) PROVE OneLoopThread'
  BY <1>22 DEF UpsertHour, Goto, Upsert
<1>23. ASSUME NEW t \in Threads, UpsertDay(t) PROVE OneLoopThread'
  BY <1>23 DEF UpsertDay, Goto, Upsert
<1>24. ASSUME NEW t \in Threads, Remember(t) PROVE OneLoopThread'
  BY <1>24 DEF Remember, Goto
<1>25. ASSUME NEW t \in Threads, RecordError(t) PROVE OneLoopThread'
  BY <1>25 DEF RecordError, Goto
<1>26. ASSUME NEW t \in Threads, Settle(t) PROVE OneLoopThread'
  BY <1>26 DEF Settle, Goto, NextRound
<1>27. ASSUME NEW t \in Threads, SetExitDepth(t) PROVE OneLoopThread'
  BY <1>27 DEF SetExitDepth, Goto
<1> QED
  BY <1>1, <1>2, <1>3, <1>4, <1>5, <1>6, <1>7, <1>8, <1>9, <1>10, <1>11, <1>12, <1>13, <1>14, <1>15, <1>16, <1>17, <1>18, <1>19, <1>20, <1>21, <1>22, <1>23, <1>24, <1>25, <1>26, <1>27
  DEF ConsumerNext, MainCalls, MainReturns, LoopThread, DrainThread, LoopOnly,
      Receive, ProcessMessage, Threads

LEMMA OneLoopStep == TypeOK /\ OneLoopThread /\ [Next]_vars => OneLoopThread'
<1> SUFFICES ASSUME TypeOK, OneLoopThread, [Next]_vars PROVE OneLoopThread'
  OBVIOUS
<1>1. CASE ConsumerStep
  BY <1>1, OneLoopConsumer DEF ConsumerStep
<1>2. CASE UNCHANGED cvars
  BY <1>2 DEF cvars, OneLoopThread, LoopAlive
<1> QED  BY <1>1, <1>2 DEF Next, ExternalPut, ProducerStep, vars

(* start_background never spawns a loop thread beside a live one.          *)
THEOREM NoSecondLoop == Spec => []OneLoopThread
<1>1. Init => OneLoopThread
  BY DEF Init, ConsumerInit, OneLoopThread
<1> QED  BY <1>1, TypeCorrect, OneLoopStep, PTL DEF Spec

-----------------------------------------------------------------------------
(* Accounted                                                               *)

LEMMA AccountedConsumer ==
    ASSUME TypeOK, OneLoopThread, Accounted, ConsumerNext
    PROVE  Accounted'
<1>0. Counters
  BY CounterTypes
<1> USE <1>0 DEF Counters, transportVars, mainVars, callVars, handlerVars, counterVars, statusVars,
        OneLoopThread, LoopAlive, Accounted, InFlight, HoldingLabels, Threads, Labels, LoopLabels, Verdicts
<1>1. CASE StartWhileAlive
  BY <1>1 DEF StartWhileAlive
<1>2. CASE StartClears
  BY <1>2 DEF StartClears
<1>3. CASE StartSetsRunning
  BY <1>3 DEF StartSetsRunning
<1>4. CASE StartSpawns
  BY <1>4 DEF StartSpawns
<1>5. CASE StopSignals
  BY <1>5 DEF StopSignals
<1>6. CASE StopJoins
  BY <1>6 DEF StopJoins
<1>7. CASE StopClearsRunning
  BY <1>7 DEF StopClearsRunning
<1>8. CASE CallRunUntilEmpty
  BY <1>8 DEF CallRunUntilEmpty
<1>9. CASE CheckStop
  BY <1>9 DEF CheckStop, Goto
<1>10. CASE CheckSentinel
  BY <1>10 DEF CheckSentinel, Goto
<1>11. CASE LoopClearsRunning
  BY <1>11 DEF LoopClearsRunning, Goto
<1>12. CASE LoopEnds
  BY <1>12 DEF LoopEnds, Goto
<1>13. ASSUME NEW t \in Threads, ReceiveMessage(t) PROVE Accounted'
  BY <1>13 DEF ReceiveMessage, Goto
<1>14. ASSUME NEW t \in Threads, ReceiveSentinel(t) PROVE Accounted'
  BY <1>14 DEF ReceiveSentinel, Goto
<1>15. ASSUME NEW t \in Threads, ReceiveNothing(t) PROVE Accounted'
  BY <1>15 DEF ReceiveNothing, Goto
<1>16. ASSUME NEW t \in Threads, Consume(t) PROVE Accounted'
  BY <1>16 DEF Consume, Goto
<1>17. ASSUME NEW t \in Threads, ReadSize(t) PROVE Accounted'
  BY <1>17 DEF ReadSize, Goto
<1>18. ASSUME NEW t \in Threads, SetDepth(t) PROVE Accounted'
  BY <1>18 DEF SetDepth, Goto
<1>19. ASSUME NEW t \in Threads, HandleRejects(t) PROVE Accounted'
  BY <1>19 DEF HandleRejects, Goto
<1>20. ASSUME NEW t \in Threads, HandleSkipsDuplicate(t) PROVE Accounted'
  BY <1>20 DEF HandleSkipsDuplicate, Goto
<1>21. ASSUME NEW t \in Threads, HandleAccepts(t) PROVE Accounted'
  BY <1>21 DEF HandleAccepts, Goto
<1>22. ASSUME NEW t \in Threads, UpsertHour(t) PROVE Accounted'
  BY <1>22 DEF UpsertHour, Goto, Upsert
<1>23. ASSUME NEW t \in Threads, UpsertDay(t) PROVE Accounted'
  BY <1>23 DEF UpsertDay, Goto, Upsert
<1>24. ASSUME NEW t \in Threads, Remember(t) PROVE Accounted'
  BY <1>24 DEF Remember, Goto
<1>25. ASSUME NEW t \in Threads, RecordError(t) PROVE Accounted'
  BY <1>25 DEF RecordError, Goto
<1>26. ASSUME NEW t \in Threads, Settle(t) PROVE Accounted'
  <2>1. /\ pc[t] = "settle" /\ pc' = [pc EXCEPT ![t] = NextRound(t)]
        /\ consumed' = consumed
        /\ succeeded' = IF verdict[t] = "ok" THEN succeeded + 1 ELSE succeeded
        /\ malformed' = IF verdict[t] = "malformed" THEN malformed + 1 ELSE malformed
        /\ failed' = IF verdict[t] = "failed" THEN failed + 1 ELSE failed
    BY <1>26 DEF Settle, Goto
  <2>2. verdict[t] \in {"ok", "malformed", "failed"}
    OBVIOUS
  <2>3. succeeded' + malformed' + failed' = succeeded + malformed + failed + 1
    BY <2>1, <2>2
  <2>4. NextRound(t) \in {"check", "receive"}
    BY DEF NextRound
  <2>5. InFlight(t) = 1 /\ InFlight(t)' = 0
    BY <2>1, <2>4
  <2>6. \A u \in Threads \ {t} : InFlight(u)' = InFlight(u)
    BY <2>1
  <2>7. \A u \in Threads : InFlight(u) \in Nat /\ InFlight(u)' \in Nat
    OBVIOUS
  <2>8. CASE t = "loop"
    <3>1. InFlight("loop") = 1 /\ InFlight("loop")' = 0 /\ InFlight("drain")' = InFlight("drain")
      BY <2>5, <2>6, <2>8
    <3> QED  BY <2>1, <2>3, <3>1
  <2>9. CASE t = "drain"
    <3>1. InFlight("drain") = 1 /\ InFlight("drain")' = 0 /\ InFlight("loop")' = InFlight("loop")
      BY <2>5, <2>6, <2>9
    <3> QED  BY <2>1, <2>3, <3>1
  <2> QED  BY <2>8, <2>9
<1>27. ASSUME NEW t \in Threads, SetExitDepth(t) PROVE Accounted'
  BY <1>27 DEF SetExitDepth, Goto
<1> QED
  BY <1>1, <1>2, <1>3, <1>4, <1>5, <1>6, <1>7, <1>8, <1>9, <1>10, <1>11, <1>12, <1>13, <1>14, <1>15, <1>16, <1>17, <1>18, <1>19, <1>20, <1>21, <1>22, <1>23, <1>24, <1>25, <1>26, <1>27
  DEF ConsumerNext, MainCalls, MainReturns, LoopThread, DrainThread, LoopOnly,
      Receive, ProcessMessage, Threads

LEMMA AccountedStep == TypeOK /\ OneLoopThread /\ Accounted /\ [Next]_vars => Accounted'
<1> SUFFICES ASSUME TypeOK, OneLoopThread, Accounted, [Next]_vars PROVE Accounted'
  OBVIOUS
<1>1. CASE ConsumerStep
  BY <1>1, AccountedConsumer DEF ConsumerStep
<1>2. CASE UNCHANGED cvars
  BY <1>2 DEF cvars, Accounted, InFlight
<1> QED  BY <1>1, <1>2 DEF Next, ExternalPut, ProducerStep, vars

LEMMA AccountedInit == Init => Accounted
BY DEF Init, ConsumerInit, Accounted, InFlight, HoldingLabels, Threads

(* Every consumed event is settled exactly once, whatever its payload and   *)
(* however the threads interleave.                                          *)
THEOREM EveryEventAccounted == Spec => []Accounted
BY TypeCorrect, NoSecondLoop, AccountedInit, AccountedStep, PTL DEF Spec

-----------------------------------------------------------------------------
(* RunningMeansAlive                                                       *)

(* A thread on its way out has already cleared the flag, and main does not  *)
(* set it again before that thread is gone.                                 *)
FlagOffAtEnd == pc["loop"] = "ending" => ~running
RunningInv == RunningMeansAlive /\ FlagOffAtEnd

LEMMA RunningConsumer ==
    ASSUME TypeOK, OneLoopThread, RunningInv, ConsumerNext
    PROVE  RunningInv'
<1>0. Counters
  BY CounterTypes
<1> USE <1>0 DEF Counters, transportVars, mainVars, callVars, handlerVars, counterVars, statusVars,
        OneLoopThread, RunningInv, FlagOffAtEnd, RunningMeansAlive, LoopAlive, Threads, Labels, LoopLabels
<1>1. CASE StartWhileAlive
  BY <1>1 DEF StartWhileAlive
<1>2. CASE StartClears
  BY <1>2 DEF StartClears
<1>3. CASE StartSetsRunning
  BY <1>3 DEF StartSetsRunning
<1>4. CASE StartSpawns
  BY <1>4 DEF StartSpawns
<1>5. CASE StopSignals
  BY <1>5 DEF StopSignals
<1>6. CASE StopJoins
  BY <1>6 DEF StopJoins
<1>7. CASE StopClearsRunning
  BY <1>7 DEF StopClearsRunning
<1>8. CASE CallRunUntilEmpty
  BY <1>8 DEF CallRunUntilEmpty
<1>9. CASE CheckStop
  BY <1>9 DEF CheckStop, Goto
<1>10. CASE CheckSentinel
  BY <1>10 DEF CheckSentinel, Goto
<1>11. CASE LoopClearsRunning
  BY <1>11 DEF LoopClearsRunning, Goto
<1>12. CASE LoopEnds
  BY <1>12 DEF LoopEnds, Goto
<1>13. ASSUME NEW t \in Threads, ReceiveMessage(t) PROVE RunningInv'
  BY <1>13 DEF ReceiveMessage, Goto
<1>14. ASSUME NEW t \in Threads, ReceiveSentinel(t) PROVE RunningInv'
  BY <1>14 DEF ReceiveSentinel, Goto
<1>15. ASSUME NEW t \in Threads, ReceiveNothing(t) PROVE RunningInv'
  BY <1>15 DEF ReceiveNothing, Goto
<1>16. ASSUME NEW t \in Threads, Consume(t) PROVE RunningInv'
  BY <1>16 DEF Consume, Goto
<1>17. ASSUME NEW t \in Threads, ReadSize(t) PROVE RunningInv'
  BY <1>17 DEF ReadSize, Goto
<1>18. ASSUME NEW t \in Threads, SetDepth(t) PROVE RunningInv'
  BY <1>18 DEF SetDepth, Goto
<1>19. ASSUME NEW t \in Threads, HandleRejects(t) PROVE RunningInv'
  BY <1>19 DEF HandleRejects, Goto
<1>20. ASSUME NEW t \in Threads, HandleSkipsDuplicate(t) PROVE RunningInv'
  BY <1>20 DEF HandleSkipsDuplicate, Goto
<1>21. ASSUME NEW t \in Threads, HandleAccepts(t) PROVE RunningInv'
  BY <1>21 DEF HandleAccepts, Goto
<1>22. ASSUME NEW t \in Threads, UpsertHour(t) PROVE RunningInv'
  BY <1>22 DEF UpsertHour, Goto, Upsert
<1>23. ASSUME NEW t \in Threads, UpsertDay(t) PROVE RunningInv'
  BY <1>23 DEF UpsertDay, Goto, Upsert
<1>24. ASSUME NEW t \in Threads, Remember(t) PROVE RunningInv'
  BY <1>24 DEF Remember, Goto
<1>25. ASSUME NEW t \in Threads, RecordError(t) PROVE RunningInv'
  BY <1>25 DEF RecordError, Goto
<1>26. ASSUME NEW t \in Threads, Settle(t) PROVE RunningInv'
  BY <1>26 DEF Settle, Goto, NextRound
<1>27. ASSUME NEW t \in Threads, SetExitDepth(t) PROVE RunningInv'
  BY <1>27 DEF SetExitDepth, Goto
<1> QED
  BY <1>1, <1>2, <1>3, <1>4, <1>5, <1>6, <1>7, <1>8, <1>9, <1>10, <1>11, <1>12, <1>13, <1>14, <1>15, <1>16, <1>17, <1>18, <1>19, <1>20, <1>21, <1>22, <1>23, <1>24, <1>25, <1>26, <1>27
  DEF ConsumerNext, MainCalls, MainReturns, LoopThread, DrainThread, LoopOnly,
      Receive, ProcessMessage, Threads

LEMMA RunningStep ==
    TypeOK /\ OneLoopThread /\ RunningInv /\ [Next]_vars => RunningInv'
<1> SUFFICES ASSUME TypeOK, OneLoopThread, RunningInv, [Next]_vars PROVE RunningInv'
  OBVIOUS
<1>1. CASE ConsumerStep
  BY <1>1, RunningConsumer DEF ConsumerStep
<1>2. CASE UNCHANGED cvars
  BY <1>2 DEF cvars, RunningInv, FlagOffAtEnd, RunningMeansAlive, LoopAlive
<1> QED  BY <1>1, <1>2 DEF Next, ExternalPut, ProducerStep, vars

(* consumer_running is never reported with nobody consuming, whatever the   *)
(* order of start_background, stop, the sentinel and a timed-out join.      *)
THEOREM RunningFlagHonest == Spec => []RunningMeansAlive
<1>1. Init => RunningInv
  BY DEF Init, ConsumerInit, RunningInv, FlagOffAtEnd, RunningMeansAlive, Threads
<1>2. RunningInv => RunningMeansAlive
  BY DEF RunningInv
<1> QED  BY <1>1, <1>2, TypeCorrect, NoSecondLoop, RunningStep, PTL DEF Spec

-----------------------------------------------------------------------------
(* Conserved                                                               *)

(* Nothing is produced before the first run.                               *)
NothingBeforeFirstRun == runs = 0 => produced = 0 /\ ppc = "idle"

ConservedInv == Conserved /\ NothingBeforeFirstRun

LEMMA ConservedConsumer ==
    ASSUME TypeOK, OneLoopThread, ConservedInv, ConsumerNext, UNCHANGED <<externals, pvars>>
    PROVE  ConservedInv'
<1>0. Counters
  BY CounterTypes
<1> USE <1>0 DEF Counters, transportVars, mainVars, callVars, handlerVars, counterVars, statusVars, pvars,
        ConservedInv, NothingBeforeFirstRun, Conserved, Taken, Threads, Labels,
        LoopLabels, OneLoopThread, LoopAlive
<1>1. CASE StartWhileAlive
  BY <1>1 DEF StartWhileAlive
<1>2. CASE StartClears
  BY <1>2 DEF StartClears
<1>3. CASE StartSetsRunning
  BY <1>3 DEF StartSetsRunning
<1>4. CASE StartSpawns
  BY <1>4 DEF StartSpawns
<1>5. CASE StopSignals
  BY <1>5 DEF StopSignals
<1>6. CASE StopJoins
  BY <1>6 DEF StopJoins
<1>7. CASE StopClearsRunning
  BY <1>7 DEF StopClearsRunning
<1>8. CASE CallRunUntilEmpty
  BY <1>8 DEF CallRunUntilEmpty
<1>9. CASE CheckStop
  BY <1>9 DEF CheckStop, Goto
<1>10. CASE CheckSentinel
  BY <1>10 DEF CheckSentinel, Goto
<1>11. CASE LoopClearsRunning
  BY <1>11 DEF LoopClearsRunning, Goto
<1>12. CASE LoopEnds
  BY <1>12 DEF LoopEnds, Goto
<1>13. ASSUME NEW t \in Threads, ReceiveMessage(t) PROVE ConservedInv'
  <2>1. Len(queue') = Len(queue) - 1 /\ pc[t] = "receive"
    BY <1>13, GetShrinks DEF ReceiveMessage
  <2>2. /\ pc' = [pc EXCEPT ![t] = "consume"]
        /\ sentinelsTaken' = sentinelsTaken
        /\ UNCHANGED <<consumed, produced, externals, sentinels, runs, ppc>>
    BY <1>13 DEF ReceiveMessage, Goto
  <2> QED  BY <2>1, <2>2
<1>14. ASSUME NEW t \in Threads, ReceiveSentinel(t) PROVE ConservedInv'
  <2>1. Len(queue') = Len(queue) - 1 /\ pc[t] = "receive"
    BY <1>14, GetShrinks DEF ReceiveSentinel
  <2>2. /\ pc' = [pc EXCEPT ![t] = IF t = "loop" THEN "none" ELSE "exitsize"]
        /\ sentinelsTaken' = sentinelsTaken + 1
        /\ UNCHANGED <<consumed, produced, externals, sentinels, runs, ppc>>
    BY <1>14 DEF ReceiveSentinel, Goto
  <2> QED  BY <2>1, <2>2
<1>15. ASSUME NEW t \in Threads, ReceiveNothing(t) PROVE ConservedInv'
  BY <1>15 DEF ReceiveNothing, Goto
<1>16. ASSUME NEW t \in Threads, Consume(t) PROVE ConservedInv'
  BY <1>16 DEF Consume, Goto
<1>17. ASSUME NEW t \in Threads, ReadSize(t) PROVE ConservedInv'
  BY <1>17 DEF ReadSize, Goto
<1>18. ASSUME NEW t \in Threads, SetDepth(t) PROVE ConservedInv'
  BY <1>18 DEF SetDepth, Goto
<1>19. ASSUME NEW t \in Threads, HandleRejects(t) PROVE ConservedInv'
  BY <1>19 DEF HandleRejects, Goto
<1>20. ASSUME NEW t \in Threads, HandleSkipsDuplicate(t) PROVE ConservedInv'
  BY <1>20 DEF HandleSkipsDuplicate, Goto
<1>21. ASSUME NEW t \in Threads, HandleAccepts(t) PROVE ConservedInv'
  BY <1>21 DEF HandleAccepts, Goto
<1>22. ASSUME NEW t \in Threads, UpsertHour(t) PROVE ConservedInv'
  BY <1>22 DEF UpsertHour, Goto, Upsert
<1>23. ASSUME NEW t \in Threads, UpsertDay(t) PROVE ConservedInv'
  BY <1>23 DEF UpsertDay, Goto, Upsert
<1>24. ASSUME NEW t \in Threads, Remember(t) PROVE ConservedInv'
  BY <1>24 DEF Remember, Goto
<1>25. ASSUME NEW t \in Threads, RecordError(t) PROVE ConservedInv'
  BY <1>25 DEF RecordError, Goto
<1>26. ASSUME NEW t \in Threads, Settle(t) PROVE ConservedInv'
  BY <1>26 DEF Settle, Goto, NextRound
<1>27. ASSUME NEW t \in Threads, SetExitDepth(t) PROVE ConservedInv'
  BY <1>27 DEF SetExitDepth, Goto
<1> QED
  BY <1>1, <1>2, <1>3, <1>4, <1>5, <1>6, <1>7, <1>8, <1>9, <1>10, <1>11, <1>12, <1>13, <1>14, <1>15, <1>16, <1>17, <1>18, <1>19, <1>20, <1>21, <1>22, <1>23, <1>24, <1>25, <1>26, <1>27
  DEF ConsumerNext, MainCalls, MainReturns, LoopThread, DrainThread, LoopOnly,
      Receive, ProcessMessage, Threads

LEMMA ConservedProducer ==
    ASSUME TypeOK, ConservedInv, ProducerNext, UNCHANGED <<externals, cvars>>
    PROVE  ConservedInv'
<1>0. Counters
  BY CounterTypes
<1> USE <1>0 DEF Counters, cvars, ConservedInv, NothingBeforeFirstRun, Conserved, Taken
<1>1. CASE StartProducer
  BY <1>1 DEF StartProducer, ProducerAlive
<1>2. CASE StopProducer
  BY <1>2 DEF StopProducer
<1>3. CASE Connect
  BY <1>3 DEF Connect
<1>4. CASE ConnectFails
  BY <1>4 DEF ConnectFails
<1>5. CASE SeeStop
  BY <1>5 DEF SeeStop
<1>6. CASE FlushAtEnd
  BY <1>6 DEF FlushAtEnd, PublishThen, AppendRow
<1>7. CASE ReadFails
  BY <1>7 DEF ReadFails
<1>8. CASE ReadRow
  BY <1>8 DEF ReadRow, PublishThen, AppendRow
<1>9. CASE AppendAfterGap
  BY <1>9 DEF AppendAfterGap, PublishThen, AppendRow
<1>10. CASE PublishNext
  BY <1>10 DEF PublishNext, TypeOK, ProducerTypeOK
<1>11. CASE PutEvent
  <2>1. Len(queue') = Len(queue) + 1
    BY <1>11, PutGrows DEF PutEvent
  <2> QED  BY <1>11, <2>1 DEF PutEvent
<1>12. CASE CountEvent
  BY <1>12 DEF CountEvent
<1>13. CASE PutSentinel
  <2>1. Len(queue') = Len(queue) + 1
    BY <1>13, PutGrows DEF PutSentinel
  <2> QED  BY <1>13, <2>1 DEF PutSentinel
<1>14. CASE ProducerEnds
  BY <1>14 DEF ProducerEnds
<1> QED
  BY <1>1, <1>2, <1>3, <1>4, <1>5, <1>6, <1>7, <1>8, <1>9, <1>10, <1>11, <1>12, <1>13,
     <1>14
  DEF ProducerNext, ProducerThread

LEMMA ConservedStep ==
    TypeOK /\ OneLoopThread /\ ConservedInv /\ [Next]_vars => ConservedInv'
<1> SUFFICES ASSUME TypeOK, OneLoopThread, ConservedInv, [Next]_vars PROVE ConservedInv'
  OBVIOUS
<1>1. CASE ConsumerStep
  BY <1>1, ConservedConsumer DEF ConsumerStep
<1>2. CASE ProducerStep
  BY <1>2, ConservedProducer DEF ProducerStep
<1>3. CASE ExternalPut
  <2>1. Len(queue') = Len(queue) + 1 /\ externals' = externals + 1
    BY <1>3, PutGrows DEF ExternalPut
  <2>2. UNCHANGED <<pvars, cvars>>
    BY <1>3 DEF ExternalPut
  <2>3. Counters
    BY CounterTypes
  <2>4. UNCHANGED <<produced, ppc, runs, sentinels, consumed, pc, sentinelsTaken>>
    BY <2>2 DEF pvars, cvars
  <2> QED
    BY <2>1, <2>3, <2>4
    DEF Counters, ConservedInv, NothingBeforeFirstRun, Conserved, Taken
<1>4. CASE UNCHANGED vars
  BY <1>4 DEF vars, pvars, cvars, ConservedInv, NothingBeforeFirstRun, Conserved, Taken
<1> QED  BY <1>1, <1>2, <1>3, <1>4 DEF Next

(* In a first run nothing put by anyone is lost, duplicated or invented on  *)
(* its way through the queue.                                               *)
THEOREM ItemsConserved == Spec => []Conserved
<1>1. Init => ConservedInv
  BY DEF Init, ProducerInit, ConsumerInit, ConservedInv, NothingBeforeFirstRun,
     Conserved, Taken, Threads
<1>2. ConservedInv => Conserved
  BY DEF ConservedInv
<1> QED  BY <1>1, <1>2, TypeCorrect, NoSecondLoop, ConservedStep, PTL DEF Spec

-----------------------------------------------------------------------------
(* ErrorsMatchCounters                                                     *)

(* The error list is written on the way to a counter of errors only.        *)
ErrorsOnTheWay == \A t \in Threads : pc[t] = "error" => verdict[t] # "ok"

Unsettled(t) == IF pc[t] = "settle" /\ verdict[t] # "ok" THEN 1 ELSE 0
Reported == malformed + failed + Unsettled("loop") + Unsettled("drain")
ErrorsInv ==
    ErrorsOnTheWay /\ Len(errors) = (IF Reported > ErrorCap THEN ErrorCap ELSE Reported)

LEMMA ThreadsCounted ==
    ASSUME NEW S \in SUBSET Threads
    PROVE  Cardinality(S) = (IF "loop" \in S THEN 1 ELSE 0) + (IF "drain" \in S THEN 1 ELSE 0)
<1>1. CASE S = {}
  BY <1>1, FS_EmptySet
<1>2. CASE S = {"loop"}
  <2>1. Cardinality(S) = 1
    BY <1>2, FS_Singleton
  <2>2. "loop" \in S /\ "drain" \notin S
    BY <1>2
  <2> QED  BY <2>1, <2>2
<1>3. CASE S = {"drain"}
  <2>1. Cardinality(S) = 1
    BY <1>3, FS_Singleton
  <2>2. "loop" \notin S /\ "drain" \in S
    BY <1>3
  <2> QED  BY <2>1, <2>2
<1>4. CASE S = {"loop", "drain"}
  <2>1. Cardinality({"loop"}) = 1 /\ IsFiniteSet({"loop"})
    BY FS_Singleton
  <2>2. Cardinality({"loop"} \cup {"drain"}) = 2
    BY <2>1, FS_AddElement
  <2>3. S = {"loop"} \cup {"drain"}
    BY <1>4
  <2> QED  BY <1>4, <2>2, <2>3
<1> QED  BY <1>1, <1>2, <1>3, <1>4 DEF Threads

LEMMA PendingCounted == ErrorsPending = Unsettled("loop") + Unsettled("drain")
<1> DEFINE S == {t \in Threads : pc[t] = "settle" /\ verdict[t] # "ok"}
<1>1. S \in SUBSET Threads
  OBVIOUS
<1>2. Cardinality(S) = (IF "loop" \in S THEN 1 ELSE 0) + (IF "drain" \in S THEN 1 ELSE 0)
  BY <1>1, ThreadsCounted
<1> QED  BY <1>2 DEF ErrorsPending, Unsettled, Threads

LEMMA CappedGrows ==
    ASSUME TypeOK, NEW t \in Threads
    PROVE  LET e == [id |-> msg[t].id, kind |-> msg[t].kind] IN
           Len(Capped(errors, e)) =
               (IF Len(errors) + 1 > ErrorCap THEN Len(errors) ELSE Len(errors) + 1)
<1> DEFINE E == [id : Nat, kind : Kinds]
           e == [id |-> msg[t].id, kind |-> msg[t].kind]
<1>1. errors \in Seq(E) /\ e \in E
  BY DEF TypeOK, ConsumerTypeOK, Message
<1>2. Append(errors, e) \in Seq(E) /\ Len(Append(errors, e)) = Len(errors) + 1
      /\ Append(errors, e) # <<>> /\ Len(errors) \in Nat
  BY <1>1
<1>3. Len(Tail(Append(errors, e))) = Len(errors)
  BY <1>2
<1> QED  BY <1>2, <1>3 DEF Capped

LEMMA ErrorsConsumer ==
    ASSUME TypeOK, OneLoopThread, ErrorsInv, ConsumerNext
    PROVE  ErrorsInv'
<1>0. Counters /\ ErrorCap \in Nat \ {0} /\ Len(errors) \in Nat
  BY CounterTypes, ConsumerAssumption DEF TypeOK, ConsumerTypeOK
<1> USE <1>0 DEF Counters, transportVars, mainVars, callVars, handlerVars, counterVars, statusVars,
        ErrorsInv, ErrorsOnTheWay, Reported, Unsettled, Threads, Labels, LoopLabels, Verdicts,
        OneLoopThread, LoopAlive
<1>1. CASE StartWhileAlive
  BY <1>1 DEF StartWhileAlive
<1>2. CASE StartClears
  BY <1>2 DEF StartClears
<1>3. CASE StartSetsRunning
  BY <1>3 DEF StartSetsRunning
<1>4. CASE StartSpawns
  BY <1>4 DEF StartSpawns
<1>5. CASE StopSignals
  BY <1>5 DEF StopSignals
<1>6. CASE StopJoins
  BY <1>6 DEF StopJoins
<1>7. CASE StopClearsRunning
  BY <1>7 DEF StopClearsRunning
<1>8. CASE CallRunUntilEmpty
  BY <1>8 DEF CallRunUntilEmpty
<1>9. CASE CheckStop
  BY <1>9 DEF CheckStop, Goto
<1>10. CASE CheckSentinel
  BY <1>10 DEF CheckSentinel, Goto
<1>11. CASE LoopClearsRunning
  BY <1>11 DEF LoopClearsRunning, Goto
<1>12. CASE LoopEnds
  BY <1>12 DEF LoopEnds, Goto
<1>13. ASSUME NEW t \in Threads, ReceiveMessage(t) PROVE ErrorsInv'
  BY <1>13 DEF ReceiveMessage, Goto
<1>14. ASSUME NEW t \in Threads, ReceiveSentinel(t) PROVE ErrorsInv'
  BY <1>14 DEF ReceiveSentinel, Goto
<1>15. ASSUME NEW t \in Threads, ReceiveNothing(t) PROVE ErrorsInv'
  BY <1>15 DEF ReceiveNothing, Goto
<1>16. ASSUME NEW t \in Threads, Consume(t) PROVE ErrorsInv'
  BY <1>16 DEF Consume, Goto
<1>17. ASSUME NEW t \in Threads, ReadSize(t) PROVE ErrorsInv'
  BY <1>17 DEF ReadSize, Goto
<1>18. ASSUME NEW t \in Threads, SetDepth(t) PROVE ErrorsInv'
  BY <1>18 DEF SetDepth, Goto
<1>19. ASSUME NEW t \in Threads, HandleRejects(t) PROVE ErrorsInv'
  BY <1>19 DEF HandleRejects, Goto, VerdictOf
<1>20. ASSUME NEW t \in Threads, HandleSkipsDuplicate(t) PROVE ErrorsInv'
  BY <1>20 DEF HandleSkipsDuplicate, Goto
<1>21. ASSUME NEW t \in Threads, HandleAccepts(t) PROVE ErrorsInv'
  BY <1>21 DEF HandleAccepts, Goto
<1>22. ASSUME NEW t \in Threads, UpsertHour(t) PROVE ErrorsInv'
  BY <1>22 DEF UpsertHour, Goto, Upsert
<1>23. ASSUME NEW t \in Threads, UpsertDay(t) PROVE ErrorsInv'
  BY <1>23 DEF UpsertDay, Goto, Upsert
<1>24. ASSUME NEW t \in Threads, Remember(t) PROVE ErrorsInv'
  BY <1>24 DEF Remember, Goto
<1>25. ASSUME NEW t \in Threads, RecordError(t) PROVE ErrorsInv'
  BY <1>25, CappedGrows DEF RecordError, Goto
<1>26. ASSUME NEW t \in Threads, Settle(t) PROVE ErrorsInv'
  BY <1>26 DEF Settle, Goto, NextRound
<1>27. ASSUME NEW t \in Threads, SetExitDepth(t) PROVE ErrorsInv'
  BY <1>27 DEF SetExitDepth, Goto
<1> QED
  BY <1>1, <1>2, <1>3, <1>4, <1>5, <1>6, <1>7, <1>8, <1>9, <1>10, <1>11, <1>12,
     <1>13, <1>14, <1>15, <1>16, <1>17, <1>18, <1>19, <1>20, <1>21, <1>22,
     <1>23, <1>24, <1>25, <1>26, <1>27
  DEF ConsumerNext, MainCalls, MainReturns, LoopThread, DrainThread, LoopOnly,
      Receive, ProcessMessage, Threads

LEMMA ErrorsStep == TypeOK /\ OneLoopThread /\ ErrorsInv /\ [Next]_vars => ErrorsInv'
<1> SUFFICES ASSUME TypeOK, OneLoopThread, ErrorsInv, [Next]_vars PROVE ErrorsInv'
  OBVIOUS
<1>1. CASE ConsumerStep
  BY <1>1, ErrorsConsumer DEF ConsumerStep
<1>2. CASE UNCHANGED cvars
  BY <1>2 DEF cvars, ErrorsInv, ErrorsOnTheWay, Reported, Unsettled
<1> QED  BY <1>1, <1>2 DEF Next, ExternalPut, ProducerStep, vars

(* The error list holds one entry for each event the counters say was       *)
(* rejected, up to its cap, whoever recorded it.                            *)
THEOREM ErrorsListed == Spec => []ErrorsMatchCounters
<1>1. Init => ErrorsInv
  BY ConsumerAssumption DEF Init, ConsumerInit, ErrorsInv, ErrorsOnTheWay, Reported,
     Unsettled, Threads
<1>2. TypeOK /\ ErrorsInv => ErrorsMatchCounters
  <2> SUFFICES ASSUME TypeOK, ErrorsInv PROVE ErrorsMatchCounters
    OBVIOUS
  <2>1. Unsettled("loop") \in Nat /\ Unsettled("drain") \in Nat
    BY DEF Unsettled
  <2>2. malformed + failed + ErrorsPending = Reported
    BY <2>1, CounterTypes, PendingCounted DEF Reported, Counters
  <2> QED  BY <2>2 DEF ErrorsInv, ErrorsMatchCounters
<1> QED  BY <1>1, <1>2, TypeCorrect, NoSecondLoop, ErrorsStep, PTL DEF Spec
=============================================================================
