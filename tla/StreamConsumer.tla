--------------------------- MODULE StreamConsumer ---------------------------
(***************************************************************************)
(* The consuming side: InMemoryQueueTransport, ConsumerRunner,             *)
(* EventHandler, and the status and error repositories they write.         *)
(*                                                                         *)
(* Two threads can run ConsumerRunner code: "loop", the background thread  *)
(* of start_background, and "drain", a caller of run_until_empty.  "main"  *)
(* is the caller of start_background and stop (the lifespan of app.py).    *)
(* Every repository call takes that repository's lock once, so it is one   *)
(* step; what the code does between two such calls is not atomic.          *)
(*                                                                         *)
(* ack and reject are no-ops of this transport and take no step.           *)
(***************************************************************************)
EXTENDS SharedQueue, FiniteSets

CONSTANTS
    DedupMax,   \* _DEDUP_CACHE_MAX of the handler
    ErrorCap,   \* max_errors of the error repository
    JoinTimesOut, \* whether join(timeout) in stop can give up on the thread
    MaxStarts,  \* bound on the calls of start_background
    MaxDrains   \* bound on the calls of run_until_empty

ASSUME ConsumerAssumption ==
    /\ DedupMax \in Nat \ {0} /\ ErrorCap \in Nat \ {0}
    /\ JoinTimesOut \in BOOLEAN
    /\ MaxStarts \in Nat /\ MaxDrains \in Nat

Threads == {"loop", "drain"}
Buckets == {"hour", "day"}
Verdicts == {"ok", "malformed", "failed"}

VARIABLES
    \* InMemoryQueueTransport
    sentinelReceived,
    sentinelsTaken,  \* number of sentinels received so far
    \* ConsumerRunner: the stop event and the threads inside its methods
    cstop,
    pc,              \* [Threads -> label], "idle" when not in the code
    msg,             \* [Threads -> the message in hand]
    size,            \* [Threads -> the qsize() read but not yet stored]
    verdict,         \* [Threads -> how handle() ended for the message]
    mpc,             \* where main is in start_background or stop
    starts, drains,  \* calls made, for the bounds
    wanted,          \* history: whether start_background was called last
    goal,            \* history: the events put when run_until_empty was called
    \* EventHandler
    seen,            \* the keys of _seen_event_ids, oldest first
    upserted,        \* [Buckets -> the messages upserted into it, in order]
    \* InMemoryProcessingStatusRepository
    running, consumed, succeeded, malformed, failed, watermark, depth,
    \* InMemoryErrorRepository
    errors

cvars == <<sentinelReceived, sentinelsTaken, cstop, pc, msg, size, verdict, mpc,
           starts, drains, wanted, goal, seen, upserted, running, consumed, succeeded,
           malformed, failed, watermark, depth, errors>>

(* Groups of variables that most steps leave alone together. *)
transportVars == <<queue, sentinelReceived, sentinelsTaken>>
callVars == <<starts, drains, wanted, goal>>
mainVars == <<cstop, mpc, callVars>>
handlerVars == <<seen, upserted>>
counterVars == <<consumed, succeeded, malformed, failed, watermark>>
statusVars == <<running, depth, counterVars>>

LoopAlive == pc["loop"] # "idle"

(* consumer_running and the thread start out off; nothing is in hand. *)
ConsumerInit ==
    /\ sentinelReceived = FALSE /\ sentinelsTaken = 0
    /\ cstop = FALSE /\ mpc = "idle" /\ starts = 0 /\ drains = 0
    /\ wanted = FALSE /\ goal = 0
    /\ pc = [t \in Threads |-> "idle"]
    /\ msg = [t \in Threads |-> [id |-> 0, kind |-> "malformed", ts |-> 0]]
    /\ size = [t \in Threads |-> 0]
    /\ verdict = [t \in Threads |-> "ok"]
    /\ seen = <<>> /\ upserted = [b \in Buckets |-> <<>>]
    /\ running = FALSE /\ consumed = 0 /\ succeeded = 0 /\ malformed = 0
    /\ failed = 0 /\ watermark = 0 /\ depth = 0
    /\ errors = <<>>

-----------------------------------------------------------------------------
(* start_background and stop, called by main                               *)

(* start_background returns at once when the thread is alive; note that the *)
(* stop event keeps whatever value it has.                                  *)
StartWhileAlive ==
    /\ mpc = "idle" /\ LoopAlive /\ starts < MaxStarts
    /\ starts' = starts + 1 /\ wanted' = TRUE
    /\ UNCHANGED <<transportVars, cstop, mpc, drains, goal, pc, msg, size, verdict,
                   handlerVars, statusVars, errors>>

(* Mutant of StartClears: running is asked of the status flag rather than   *)
(* of the thread.                                                           *)
StartUnlessFlagged ==
    /\ mpc = "idle" /\ ~running /\ starts < MaxStarts
    /\ cstop' = FALSE /\ mpc' = "setrunning"
    /\ starts' = starts + 1 /\ wanted' = TRUE
    /\ UNCHANGED <<transportVars, drains, goal, pc, msg, size, verdict, handlerVars,
                   statusVars, errors>>

StartClears ==
    /\ mpc = "idle" /\ ~LoopAlive /\ starts < MaxStarts
    /\ cstop' = FALSE /\ mpc' = "setrunning"
    /\ starts' = starts + 1 /\ wanted' = TRUE
    /\ UNCHANGED <<transportVars, drains, goal, pc, msg, size, verdict, handlerVars,
                   statusVars, errors>>

StartSetsRunning ==
    /\ mpc = "setrunning"
    /\ running' = TRUE /\ mpc' = "spawn"
    /\ UNCHANGED <<transportVars, cstop, callVars, pc, msg, size, verdict,
                   handlerVars, depth, counterVars, errors>>

StartSpawns ==
    /\ mpc = "spawn"
    /\ pc' = [pc EXCEPT !["loop"] = "check"] /\ mpc' = "idle"
    /\ UNCHANGED <<transportVars, cstop, callVars, msg, size, verdict,
                   handlerVars, statusVars, errors>>

StopSignals ==
    /\ mpc = "idle" /\ starts > 0
    /\ cstop' = TRUE /\ mpc' = "join" /\ wanted' = FALSE
    /\ UNCHANGED <<transportVars, starts, drains, goal, pc, msg, size, verdict,
                   handlerVars, statusVars, errors>>

(* join(timeout): returns when the thread has ended, or gives up on it. *)
StopJoins ==
    /\ mpc = "join" /\ (~LoopAlive \/ JoinTimesOut)
    /\ mpc' = "clearrunning"
    /\ UNCHANGED <<transportVars, cstop, callVars, pc, msg, size, verdict,
                   handlerVars, statusVars, errors>>

StopClearsRunning ==
    /\ mpc = "clearrunning"
    /\ running' = FALSE /\ mpc' = "idle"
    /\ UNCHANGED <<transportVars, cstop, callVars, pc, msg, size, verdict,
                   handlerVars, depth, counterVars, errors>>

MainReturns == StartSetsRunning \/ StartSpawns \/ StopJoins \/ StopClearsRunning

(* A thread has taken a message off the queue and not yet counted it.      *)
Taken(t) == IF pc[t] = "consume" THEN 1 ELSE 0

EventsQueued == Cardinality({i \in 1..Len(queue) : queue[i] # Sentinel})

(* A test or script calls run_until_empty in a thread of its own. *)
CallRunUntilEmpty ==
    /\ pc["drain"] = "idle" /\ drains < MaxDrains
    /\ pc' = [pc EXCEPT !["drain"] = "receive"] /\ drains' = drains + 1
    /\ goal' = consumed + Taken("loop") + EventsQueued
    /\ UNCHANGED <<transportVars, cstop, mpc, starts, wanted, msg, size, verdict,
                   handlerVars, statusVars, errors>>

-----------------------------------------------------------------------------
(* run_loop and run_until_empty: receiving                                 *)

Goto(t, label) == pc' = [pc EXCEPT ![t] = label]

(* Mutant of NextRound: run_until_empty returns after one message. *)
NextRoundOnce(t) == IF t = "loop" THEN "check" ELSE "exitsize"

(* Mutant of NextRound: the stop event is looked at only when the queue is  *)
(* found empty.                                                             *)
NextRoundUnchecked(t) == "receive"

(* Where a thread goes when it is done with a message. *)
NextRound(t) == IF t = "loop" THEN "check" ELSE "receive"

CheckStop ==
    /\ pc["loop"] = "check"
    /\ Goto("loop", IF cstop THEN "exitsize" ELSE "receive")
    /\ UNCHANGED <<transportVars, mainVars, msg, size, verdict, handlerVars,
                   statusVars, errors>>

(* receive or receive_blocking returns a message. *)
ReceiveMessage(t) ==
    /\ pc[t] = "receive"
    /\ Get /\ Head(queue) # Sentinel
    /\ msg' = [msg EXCEPT ![t] = Head(queue)]
    /\ Goto(t, "consume")
    /\ UNCHANGED <<sentinelReceived, sentinelsTaken, mainVars, size, verdict,
                   handlerVars, statusVars, errors>>

(* _wrap sees the sentinel: it is remembered for good and None returned,   *)
(* on which run_until_empty stops whatever is queued behind it.            *)
ReceiveSentinel(t) ==
    /\ pc[t] = "receive"
    /\ Get /\ Head(queue) = Sentinel
    /\ sentinelReceived' = TRUE /\ sentinelsTaken' = sentinelsTaken + 1
    /\ Goto(t, IF t = "loop" THEN "none" ELSE "exitsize")
    /\ UNCHANGED <<mainVars, msg, size, verdict, handlerVars, statusVars, errors>>

(* The queue is empty: receive returns None at once, receive_blocking after *)
(* its timeout.                                                            *)
ReceiveNothing(t) ==
    /\ pc[t] = "receive" /\ queue = <<>>
    /\ Goto(t, IF t = "loop" THEN "none" ELSE "exitsize")
    /\ UNCHANGED <<transportVars, mainVars, msg, size, verdict, handlerVars,
                   statusVars, errors>>

(* Mutant of CheckSentinel: any None ends the loop. *)
NoneEndsLoop ==
    /\ pc["loop"] = "none"
    /\ Goto("loop", "exitsize")
    /\ UNCHANGED <<transportVars, mainVars, msg, size, verdict, handlerVars,
                   statusVars, errors>>

(* run_loop was given None: leave if the sentinel was ever received. *)
CheckSentinel ==
    /\ pc["loop"] = "none"
    /\ Goto("loop", IF sentinelReceived THEN "exitsize" ELSE "check")
    /\ UNCHANGED <<transportVars, mainVars, msg, size, verdict, handlerVars,
                   statusVars, errors>>

-----------------------------------------------------------------------------
(* _process_message                                                        *)

(* Mutant of NewWatermark: the last timestamp rather than the newest. *)
LastTimestamp(ts) == IF ts # 0 THEN ts ELSE watermark

(* The watermark only advances; ts is 0 without a readable timestamp. *)
NewWatermark(ts) == IF ts > watermark THEN ts ELSE watermark

(* increment_consumed: the counter and the watermark under one lock. *)
Consume(t) ==
    /\ pc[t] = "consume"
    /\ consumed' = consumed + 1
    /\ watermark' = NewWatermark(msg[t].ts)
    /\ Goto(t, "size")
    /\ UNCHANGED <<transportVars, mainVars, msg, size, verdict, handlerVars,
                   running, depth, succeeded, malformed, failed, errors>>

(* set_queue_depth(transport.size()): the read and the write are two steps, *)
(* here and when a thread leaves.                                           *)
ReadSize(t) ==
    /\ pc[t] \in {"size", "exitsize"}
    /\ size' = [size EXCEPT ![t] = Len(queue)]
    /\ Goto(t, IF pc[t] = "size" THEN "depth" ELSE "exitdepth")
    /\ UNCHANGED <<transportVars, mainVars, msg, verdict, handlerVars,
                   statusVars, errors>>

SetDepth(t) ==
    /\ pc[t] = "depth"
    /\ depth' = size[t]
    /\ Goto(t, "handle")
    /\ UNCHANGED <<transportVars, mainVars, msg, size, verdict, handlerVars,
                   running, counterVars, errors>>

Seen(id) == \E i \in DOMAIN seen : seen[i] = id

(* Mutant of VerdictOf: a reading that cannot be mapped is taken for one    *)
(* that cannot be parsed.                                                   *)
VerdictMixedUp(kind) ==
    IF kind \in {"malformed", "overflow"} THEN "malformed" ELSE "failed"

(* Which except clause of _process_message catches what handle() raises. *)
VerdictOf(kind) == IF kind = "malformed" THEN "malformed" ELSE "failed"

(* EventHandler.handle up to the aggregates.  parse_event rejects malformed *)
(* and wrong_type before the duplicate check; map_to_sensor_reading rejects *)
(* bad_time and overflow after it.                                          *)
HandleRejects(t) ==
    /\ pc[t] = "handle"
    /\ LET m == msg[t] IN
       /\ \/ m.kind \in {"malformed", "wrong_type"}
          \/ m.kind \in {"bad_time", "overflow"} /\ ~Seen(m.id)
       /\ verdict' = [verdict EXCEPT ![t] = VerdictOf(m.kind)]
    /\ Goto(t, "error")
    /\ UNCHANGED <<transportVars, mainVars, msg, size, handlerVars, statusVars,
                   errors>>

HandleSkipsDuplicate(t) ==
    /\ pc[t] = "handle"
    /\ msg[t].kind \notin {"malformed", "wrong_type"} /\ Seen(msg[t].id)
    /\ verdict' = [verdict EXCEPT ![t] = "ok"]
    /\ Goto(t, "settle")
    /\ UNCHANGED <<transportVars, mainVars, msg, size, handlerVars, statusVars,
                   errors>>

(* Mutant of HandleAccepts: the id is recorded before the aggregates. *)
HandleRemembersEarly(t) ==
    /\ pc[t] = "handle"
    /\ msg[t].kind \in {"reading", "no_value"} /\ ~Seen(msg[t].id)
    /\ seen' = Append(seen, msg[t].id)
    /\ Goto(t, IF msg[t].kind = "reading" THEN "hour" ELSE "remember")
    /\ UNCHANGED <<transportVars, mainVars, msg, size, verdict, upserted,
                   statusVars, errors>>

HandleAccepts(t) ==
    /\ pc[t] = "handle"
    /\ msg[t].kind \in {"reading", "no_value"} /\ ~Seen(msg[t].id)
    /\ Goto(t, IF msg[t].kind = "reading" THEN "hour" ELSE "remember")
    /\ UNCHANGED <<transportVars, mainVars, msg, size, verdict, handlerVars,
                   statusVars, errors>>

(* _process_reading: one upsert per bucket, the hour before the day. *)
Upsert(t, bucket, next) ==
    /\ pc[t] = bucket
    /\ upserted' = [upserted EXCEPT ![bucket] = Append(@, msg[t])]
    /\ Goto(t, next)
    /\ UNCHANGED <<transportVars, mainVars, msg, size, verdict, seen, statusVars,
                   errors>>

(* Mutant of UpsertHour: the day bucket is forgotten. *)
UpsertHourOnly(t) == Upsert(t, "hour", "remember")

UpsertHour(t) == Upsert(t, "hour", "day")
UpsertDay(t) == Upsert(t, "day", "remember")

(* Mutant of Remembered: evicts one id too early. *)
RememberedOneLess(ids, id) ==
    LET grown == IF \E i \in DOMAIN ids : ids[i] = id THEN ids ELSE Append(ids, id)
    IN IF Len(grown) >= DedupMax THEN Tail(grown) ELSE grown

(* _seen_event_ids[id] = None and the eviction: a key that is present keeps *)
(* its place, and one eviction restores the bound.                          *)
Remembered(ids, id) ==
    LET grown == IF \E i \in DOMAIN ids : ids[i] = id THEN ids ELSE Append(ids, id)
    IN IF Len(grown) > DedupMax THEN Tail(grown) ELSE grown

Remember(t) ==
    /\ pc[t] = "remember"
    /\ seen' = Remembered(seen, msg[t].id)
    /\ verdict' = [verdict EXCEPT ![t] = "ok"]
    /\ Goto(t, "settle")
    /\ UNCHANGED <<transportVars, mainVars, msg, size, upserted, statusVars, errors>>

(* deque(maxlen=ErrorCap).append: the oldest entry falls off. *)
Capped(list, e) ==
    LET grown == Append(list, e) IN IF Len(grown) > ErrorCap THEN Tail(grown) ELSE grown

(* Mutants of RecordError: the counter is forgotten; the entry is. *)
RecordErrorOnly(t) ==
    /\ pc[t] = "error"
    /\ errors' = Capped(errors, [id |-> msg[t].id, kind |-> msg[t].kind])
    /\ Goto(t, NextRound(t))
    /\ UNCHANGED <<transportVars, mainVars, msg, size, verdict, handlerVars,
                   statusVars>>
RecordNothing(t) ==
    /\ pc[t] = "error" /\ Goto(t, "settle")
    /\ UNCHANGED <<transportVars, mainVars, msg, size, verdict, handlerVars,
                   statusVars, errors>>

RecordError(t) ==
    /\ pc[t] = "error"
    /\ errors' = Capped(errors, [id |-> msg[t].id, kind |-> msg[t].kind])
    /\ Goto(t, "settle")
    /\ UNCHANGED <<transportVars, mainVars, msg, size, verdict, handlerVars,
                   statusVars>>

(* record_success, increment_malformed or increment_failed. *)
Settle(t) ==
    /\ pc[t] = "settle"
    /\ succeeded' = IF verdict[t] = "ok" THEN succeeded + 1 ELSE succeeded
    /\ malformed' = IF verdict[t] = "malformed" THEN malformed + 1 ELSE malformed
    /\ failed' = IF verdict[t] = "failed" THEN failed + 1 ELSE failed
    /\ Goto(t, NextRound(t))
    /\ UNCHANGED <<transportVars, mainVars, msg, size, verdict, handlerVars,
                   running, depth, consumed, watermark, errors>>

-----------------------------------------------------------------------------
(* Leaving run_loop or run_until_empty: the depth, then the running flag.  *)
(* Mutant of SetExitDepth: the depth of the last message is left in place. *)
LeaveDepth(t) ==
    /\ pc[t] = "exitdepth"
    /\ Goto(t, IF t = "loop" THEN "exitrunning" ELSE "idle")
    /\ UNCHANGED <<transportVars, mainVars, msg, size, verdict, handlerVars,
                   statusVars, errors>>

SetExitDepth(t) ==
    /\ pc[t] = "exitdepth"
    /\ depth' = size[t]
    /\ Goto(t, IF t = "loop" THEN "exitrunning" ELSE "idle")
    /\ UNCHANGED <<transportVars, mainVars, msg, size, verdict, handlerVars,
                   running, counterVars, errors>>

(* Mutant of LoopClearsRunning: only stop() clears the flag. *)
LoopLeavesRunning ==
    /\ pc["loop"] = "exitrunning"
    /\ Goto("loop", "ending")
    /\ UNCHANGED <<transportVars, mainVars, msg, size, verdict, handlerVars,
                   statusVars, errors>>

LoopClearsRunning ==
    /\ pc["loop"] = "exitrunning"
    /\ running' = FALSE /\ Goto("loop", "ending")
    /\ UNCHANGED <<transportVars, mainVars, msg, size, verdict, handlerVars,
                   depth, counterVars, errors>>

(* Only after run_loop has returned does is_alive() turn False. *)
LoopEnds ==
    /\ pc["loop"] = "ending"
    /\ Goto("loop", "idle")
    /\ UNCHANGED <<transportVars, mainVars, msg, size, verdict, handlerVars,
                   statusVars, errors>>

Receive(t) == ReceiveMessage(t) \/ ReceiveSentinel(t) \/ ReceiveNothing(t)

ProcessMessage(t) ==
    \/ Consume(t) \/ ReadSize(t) \/ SetDepth(t) \/ HandleRejects(t)
    \/ HandleSkipsDuplicate(t) \/ HandleAccepts(t) \/ UpsertHour(t) \/ UpsertDay(t)
    \/ Remember(t) \/ RecordError(t) \/ Settle(t) \/ SetExitDepth(t)

LoopOnly == CheckStop \/ CheckSentinel \/ LoopClearsRunning \/ LoopEnds

LoopThread == LoopOnly \/ Receive("loop") \/ ProcessMessage("loop")
DrainThread == Receive("drain") \/ ProcessMessage("drain")

MainCalls ==
    StartWhileAlive \/ StartClears \/ StopSignals \/ CallRunUntilEmpty

ConsumerNext == MainCalls \/ MainReturns \/ LoopThread \/ DrainThread
-----------------------------------------------------------------------------
LoopLabels == {"check", "none", "exitrunning", "ending"}
Labels == LoopLabels \cup
    {"idle", "receive", "consume", "size", "depth", "handle", "hour", "day",
     "remember", "error", "settle", "exitsize", "exitdepth"}

ConsumerTypeOK ==
    /\ sentinelReceived \in BOOLEAN /\ sentinelsTaken \in Nat
    /\ cstop \in BOOLEAN
    /\ mpc \in {"idle", "setrunning", "spawn", "join", "clearrunning"}
    /\ starts \in Nat /\ drains \in Nat /\ wanted \in BOOLEAN /\ goal \in Nat
    /\ pc \in [Threads -> Labels] /\ pc["drain"] \notin LoopLabels
    /\ msg \in [Threads -> Message]
    /\ size \in [Threads -> Nat]
    /\ verdict \in [Threads -> Verdicts]
    /\ seen \in Seq(Nat) /\ upserted \in [Buckets -> Seq(Message)]
    /\ running \in BOOLEAN /\ depth \in Nat
    /\ consumed \in Nat /\ succeeded \in Nat /\ malformed \in Nat /\ failed \in Nat
    /\ watermark \in 0..MaxTimestamp
    /\ errors \in Seq([id : Nat, kind : Kinds])
=============================================================================
