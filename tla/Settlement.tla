----------------------------- MODULE Settlement -----------------------------
(***************************************************************************)
(* What the streaming path promises of every message put into its queue,   *)
(* without saying how: messages are taken in the order they were put, each *)
(* by one worker, a worker holds one message at a time, and a message that *)
(* was taken is settled exactly once, with a verdict its payload allows,   *)
(* and with none lost or settled by anyone who does not hold it.           *)
(***************************************************************************)
EXTENDS SharedQueue

CONSTANT Workers

VARIABLES
    hand,   \* [Workers -> the message held, Sentinel for none]
    tally   \* [Verdicts -> how many messages were settled so]

Outcomes == {"ok", "malformed", "failed"}

(* A valid event succeeds and an unparsable one is counted as malformed or  *)
(* failed; a well-formed event that cannot be mapped fails unless its id    *)
(* was processed before, in which case it is skipped as a success.          *)
MaySettle(m) ==
    CASE m.kind \in {"reading", "no_value"}   -> {"ok"}
      [] m.kind = "malformed"                 -> {"malformed"}
      [] m.kind = "wrong_type"                -> {"failed"}
      [] m.kind \in {"bad_time", "overflow"}  -> {"failed", "ok"}

SettlementInit ==
    /\ queue = <<>>
    /\ hand = [w \in Workers |-> Sentinel]
    /\ tally = [o \in Outcomes |-> 0]

(* The item put is named by where it ends up, as Put(x) for some x would be *)
(* beyond TLC: it would enumerate every message there is.                   *)
Accept ==
    LET x == queue'[Len(queue) + 1] IN
    /\ Len(queue') = Len(queue) + 1
    /\ x \in Message \cup {Sentinel} /\ Put(x)
    /\ UNCHANGED <<hand, tally>>

EndOfStream == Get /\ Head(queue) = Sentinel /\ UNCHANGED <<hand, tally>>

Take(w) ==
    /\ hand[w] = Sentinel
    /\ Get /\ Head(queue) # Sentinel
    /\ hand' = [hand EXCEPT ![w] = Head(queue)]
    /\ UNCHANGED tally

SettleOne(w) ==
    /\ hand[w] # Sentinel
    /\ \E o \in MaySettle(hand[w]) : tally' = [tally EXCEPT ![o] = @ + 1]
    /\ hand' = [hand EXCEPT ![w] = Sentinel]
    /\ UNCHANGED queue

SettlementNext ==
    Accept \/ EndOfStream \/ \E w \in Workers : Take(w) \/ SettleOne(w)

SettlementSpec == SettlementInit /\ [][SettlementNext]_<<queue, hand, tally>>
=============================================================================
