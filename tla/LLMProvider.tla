---------------------------- MODULE LLMProvider ----------------------------
(***************************************************************************)
(* llm/openai_provider.py: one call of generate_text or                    *)
(* generate_structured, with its attempts, back-offs and typed errors.     *)
(* Concurrent calls share no state of the provider, so one call at a time  *)
(* is the whole of its behaviour.                                          *)
(***************************************************************************)
EXTENDS Naturals, Sequences

CONSTANT MaxRetries  \* openai_max_retries

ASSUME RetriesAssumption == MaxRetries \in Nat

VARIABLES
    call,       \* "none", or the kind of the call in progress or last made
    phase,      \* "idle", "request", "backoff", "exhausted"
    attempt,    \* the loop variable of _with_retry
    lastError,  \* last_exc
    outcome,    \* history: how the last attempt ended, "none" before it has
    delays,     \* history: the sleeps of the call, in half seconds
    answer      \* "pending", "ok" or the class of the error raised

llmVars == <<call, phase, attempt, lastError, outcome, delays, answer>>

CallKinds == {"text", "structured"}

(* What the SDK can return or raise for an attempt.  429 is raised as a     *)
(* RateLimitError, the other transient codes as a plain status error.       *)
Transient == {"timeout", "connection", "rate_limit", "server_status"}
Permanent == {"client_status", "empty", "unexpected"}
StructuredOnly == {"truncated", "invalid"}
Failures(kind) ==
    Transient \cup Permanent \cup (IF kind = "structured" THEN StructuredOnly ELSE {})

LLMErrors == {"LLMTimeoutError", "LLMProviderError", "LLMStructuredOutputError"}

LLMInit ==
    /\ call = "none" /\ phase = "idle" /\ attempt = 0
    /\ lastError = "none" /\ outcome = "none" /\ delays = <<>>
    /\ answer = "pending"

(* Mutant of TotalAttempts: max_retries counts the first attempt too. *)
TotalAttemptsOneLess == IF MaxRetries = 0 THEN 1 ELSE MaxRetries

TotalAttempts == MaxRetries + 1

BeginCall(kind) ==
    /\ phase = "idle"
    /\ call' = kind /\ phase' = "request" /\ attempt' = 1
    /\ lastError' = "none" /\ outcome' = "none" /\ delays' = <<>> /\ answer' = "pending"

Raise(error) == answer' = error /\ phase' = "idle"

AttemptSucceeds ==
    /\ phase = "request"
    /\ Raise("ok") /\ outcome' = "ok"
    /\ UNCHANGED <<call, attempt, lastError, delays>>

(* Mutant of AttemptFailsForNow: the first failure is the one kept. *)
KeepFirstError ==
    /\ phase = "request"
    /\ \E failure \in Transient :
          /\ lastError' = IF lastError = "none" THEN failure ELSE lastError
          /\ outcome' = failure
    /\ phase' = IF attempt < TotalAttempts THEN "backoff" ELSE "exhausted"
    /\ UNCHANGED <<call, attempt, delays, answer>>

(* A transient failure: remembered, and slept on unless it was the last.    *)
AttemptFailsForNow ==
    /\ phase = "request"
    /\ \E failure \in Transient :
          lastError' = failure /\ outcome' = failure
    /\ phase' = IF attempt < TotalAttempts THEN "backoff" ELSE "exhausted"
    /\ UNCHANGED <<call, attempt, delays, answer>>

(* Which class a failure that is not retried is raised as.  Only an empty or *)
(* truncated structured answer keeps its own class; a schema violation      *)
(* (pydantic's error from parse) ends in the catch-all clause.              *)
PermanentError(kind, failure) ==
    IF kind = "structured" /\ failure \in {"empty", "truncated"}
    THEN "LLMStructuredOutputError" ELSE "LLMProviderError"

AttemptFailsForGood ==
    /\ phase = "request"
    /\ \E failure \in Failures(call) \ Transient :
          Raise(PermanentError(call, failure)) /\ outcome' = failure
    /\ UNCHANGED <<call, attempt, lastError, delays>>

-----------------------------------------------------------------------------
Cap == 60  \* _MAX_BACKOFF_SECONDS, in half seconds
Lesser(a, b) == IF a < b THEN a ELSE b

PowerOfTwo[k \in Nat] == IF k = 0 THEN 1 ELSE 2 * PowerOfTwo[k - 1]

(* 2 ** (attempt - 1) seconds plus up to half a second of jitter, capped.  *)
Delay(k, jitter) == Lesser(PowerOfTwo[k] + jitter, Cap)

Backoff ==
    /\ phase = "backoff"
    /\ \E jitter \in {0, 1} : delays' = Append(delays, Delay(attempt, jitter))
    /\ attempt' = attempt + 1 /\ phase' = "request"
    /\ UNCHANGED <<call, lastError, outcome, answer>>

(* All attempts are used up: the class follows the last failure. *)
GiveUp ==
    /\ phase = "exhausted"
    /\ Raise(IF lastError = "timeout" THEN "LLMTimeoutError" ELSE "LLMProviderError")
    /\ UNCHANGED <<call, attempt, lastError, outcome, delays>>

Attempt == AttemptSucceeds \/ AttemptFailsForNow \/ AttemptFailsForGood

LLMNext == Attempt \/ Backoff \/ GiveUp

CallReturned == call # "none" /\ phase = "idle"
-----------------------------------------------------------------------------
(* A call makes at most max_retries + 1 attempts, gives up on transient      *)
(* failures only after all of them, and never sleeps after the last one,    *)
(* which would only delay the error; the sleeps never shrink and never      *)
(* exceed the cap, jitter included (openai_provider.py:128-152, 198).       *)
BudgetSpent ==
    /\ attempt <= MaxRetries + 1
    /\ phase \in {"idle", "exhausted"} /\ call # "none" => Len(delays) = attempt - 1
    /\ phase = "exhausted" => attempt = MaxRetries + 1
    /\ \A i \in DOMAIN delays :
          delays[i] <= Cap /\ (i > 1 => delays[i - 1] <= delays[i])

(* The error class tells what happened last, after any mix of failures: a   *)
(* timeout is reported exactly when the last attempt of all timed out       *)
(* (openai_provider.py:184).                                                *)
ErrorTellsLastFailure ==
    answer = "LLMTimeoutError" <=>
        CallReturned /\ attempt = MaxRetries + 1 /\ outcome = "timeout"
=============================================================================
