---------------------------- MODULE SharedQueue ----------------------------
(***************************************************************************)
(* The one object the producer thread and the consumer threads share: the  *)
(* bounded queue.Queue that run_with_producer.py creates and hands to both *)
(* sides.  An item is a message or the end-of-stream sentinel (None).      *)
(* queue.Queue is thread-safe, so put and get are one atomic step each; a  *)
(* blocking call that cannot proceed is an action that is not enabled.     *)
(***************************************************************************)
EXTENDS Naturals, Sequences

CONSTANTS
    QueueMax,     \* maxsize of the queue (AppSettings.consumer_queue_maxsize)
    Sentinel,     \* the None that ends the stream
    MaxTimestamp  \* bound on the event timestamps of an instance

(* maxsize is 10_000 in the shipped settings; any bound is allowed here. *)
ASSUME QueueMaxAssumption == QueueMax \in Nat \ {0} /\ MaxTimestamp \in Nat

(***************************************************************************)
(* What parse_event and map_to_sensor_reading can find in a payload:       *)
(*   reading     a valid event with a value inside the schema's range;     *)
(*   no_value    valid, but every reading is null, not a number or out of  *)
(*               range, so there is nothing to aggregate;                  *)
(*   malformed   a required field is missing or has the wrong type;        *)
(*   wrong_type  an event_type other than "sensor_reading";                *)
(*   bad_time    a timestamp fromisoformat cannot read;                    *)
(*   overflow    a reading that is an integer too large for float(): the   *)
(*               OverflowError is not among those _coerce_float catches.   *)
(***************************************************************************)
Kinds == {"reading", "no_value", "malformed", "wrong_type", "bad_time", "overflow"}

(***************************************************************************)
(* A payload, reduced to what the code looks at: the event_id used for     *)
(* deduplication, how parsing and processing it will end (kind), and the   *)
(* timestamp as a number, 0 when the payload has no readable one.          *)
(***************************************************************************)
Message == [id : Nat, kind : Kinds, ts : 0..MaxTimestamp]

(* queue.get() tells the sentinel from a message by `raw is None`. *)
ASSUME SentinelAssumption == Sentinel \notin Message

VARIABLE queue

(* queue.put(x): blocks while the queue is full. *)
Put(x) == Len(queue) < QueueMax /\ queue' = Append(queue, x)

(* queue.get(): takes the oldest item; callers look at Head(queue). *)
Get == queue # <<>> /\ queue' = Tail(queue)

QueueTypeOK == queue \in Seq(Message \cup {Sentinel}) /\ Len(queue) <= QueueMax
=============================================================================
