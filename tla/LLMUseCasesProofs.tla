-------------------------- MODULE LLMUseCasesProofs --------------------------
(***************************************************************************)
(* The requests, the provider's error classes and its back-off, for every  *)
(* number of retries and every set of instants.                            *)
(***************************************************************************)
EXTENDS LLMUseCases, SetLemmas

-----------------------------------------------------------------------------
(* The provider                                                            *)

(* A call that gives up does so at its last attempt, with that attempt's    *)
(* failure remembered; a call in progress has no answer yet.                *)
ProviderInv ==
    /\ attempt \in 0..TotalAttempts
    /\ phase \in {"idle", "request", "backoff", "exhausted"}
    /\ phase = "backoff" => attempt < TotalAttempts
    /\ phase # "idle" => call # "none" /\ answer = "pending"
    /\ call = "none" => answer = "pending"
    /\ phase = "exhausted" => attempt = TotalAttempts /\ outcome = lastError
    /\ phase = "idle" /\ call # "none" =>
          (answer = "LLMTimeoutError" <=> attempt = TotalAttempts /\ outcome = "timeout")

LEMMA ProviderInit == LLMInit => ProviderInv
BY RetriesAssumption DEF LLMInit, ProviderInv, TotalAttempts

LEMMA BeginKeepsProvider ==
    ASSUME ProviderInv, NEW kind \in CallKinds, BeginCall(kind)
    PROVE  ProviderInv'
BY RetriesAssumption DEF BeginCall, CallKinds, ProviderInv, TotalAttempts

LEMMA ProviderStep ==
    ASSUME ProviderInv, LLMNext
    PROVE  ProviderInv'
<1> USE RetriesAssumption DEF ProviderInv, TotalAttempts
<1>1. CASE AttemptSucceeds
  BY <1>1 DEF AttemptSucceeds, Raise
<1>2. CASE AttemptFailsForNow
  BY <1>2 DEF AttemptFailsForNow, Transient
<1>3. CASE AttemptFailsForGood
  <2>1. PICK failure \in Failures(call) \ Transient :
            Raise(PermanentError(call, failure)) /\ outcome' = failure
    BY <1>3 DEF AttemptFailsForGood
  <2>2. failure # "timeout" /\ answer' # "LLMTimeoutError"
    BY <2>1 DEF Transient, Raise, PermanentError
  <2> QED  BY <1>3, <2>1, <2>2 DEF AttemptFailsForGood, Raise
<1>4. CASE Backoff
  BY <1>4 DEF Backoff
<1>5. CASE GiveUp
  BY <1>5 DEF GiveUp, Raise
<1> QED  BY <1>1, <1>2, <1>3, <1>4, <1>5 DEF LLMNext, Attempt

-----------------------------------------------------------------------------
(* The requests                                                            *)

Steps == {"idle", "parsing", "checking", "fetch", "phrasing", "done"}

(* Data is there only from the step that fetched it on, and what is         *)
(* answered after that carries it.                                          *)
DataInv ==
    /\ step \in Steps
    /\ data \in {"none", "some"}
    /\ data = "some" => step \in {"phrasing", "done"}
    /\ step = "phrasing" => data = "some" /\ request # "metrics"
    /\ DataSurvivesTheLLM

(* A query that reaches the store has passed every guard.                   *)
Narrow(q) ==
    /\ q.station /\ q.metric /\ ~q.clarify
    /\ ~Unreadable(q.start) /\ ~Unreadable(q.end)
    /\ Order(q.start, q.end) = "fine"

NarrowInv ==
    /\ asked => step \in {"phrasing", "done"}
    /\ step \in {"idle", "parsing", "checking", "fetch", "phrasing"} => response = NoResponse
    /\ request = "query" /\ (asked \/ step \in {"fetch", "phrasing"}) => Narrow(parsed)
    /\ request = "query" /\ asked => ~response.clarify

UCInv == ProviderInv /\ DataInv /\ NarrowInv

LEMMA OrderValues ==
    ASSUME NEW s, NEW e PROVE Order(s, e) \in {"fine", "type_error", "inverted"}
BY DEF Order

LEMMA StatusFields ==
    ASSUME NEW code
    PROVE  /\ Status(code).status = code /\ ~Status(code).clarify
           /\ Status(code).data = "none" /\ Status(code).text = FALSE
           /\ Status(code).failed = FALSE
BY DEF Status, NoResponse

LEMMA GuardsNarrow ==
    ASSUME NEW q, Guards(q) = NoResponse
    PROVE  Narrow(q)
<1>1. Status(500) # NoResponse /\ Clarification # NoResponse
  <2>1. NoResponse.status = 0 /\ Status(500).status = 500
    BY StatusFields, ZenonT(40) DEF NoResponse
  <2>2. NoResponse.clarify = FALSE /\ Clarification.clarify = TRUE
    BY DEF NoResponse, Clarification, Status
  <2> QED  BY <2>1, <2>2
<1>2. ~(q.clarify \/ ~q.station \/ ~q.metric \/ Unreadable(q.start) \/ Unreadable(q.end))
  BY <1>1 DEF Guards
<1>3. NoResponse = CASE Order(q.start, q.end) = "type_error" -> Status(500)
                     [] Order(q.start, q.end) = "inverted"   -> Clarification
                     [] Order(q.start, q.end) = "fine"       -> NoResponse
  BY <1>2, Zenon DEF Guards
<1>4. Order(q.start, q.end) # "type_error"
  BY <1>1, <1>3, Zenon
<1>5. Order(q.start, q.end) # "inverted"
  <2> SUFFICES ASSUME Order(q.start, q.end) = "inverted" PROVE FALSE
    OBVIOUS
  <2>1. "inverted" # "type_error" /\ "inverted" # "fine"
    OBVIOUS
  <2> QED  BY <1>1, <1>3, <2>1, Zenon
<1> QED  BY <1>2, <1>4, <1>5, OrderValues DEF Narrow

LEMMA UCStep ==
    ASSUME UCInv, UCNext
    PROVE  UCInv'
<1> USE DEF UCInv, DataInv, DataSurvivesTheLLM, NarrowInv, Steps, Respond
<1>1. CASE DependencyFails
  BY <1>1, StatusFields DEF DependencyFails, llmVars, ProviderInv
<1>2. CASE ReceiveRequest
  BY <1>2, StatusFields DEF ReceiveRequest, llmVars, ProviderInv
<1>3. CASE ReceiveQuestion
  <2>1. ProviderInv'
    BY <1>3, BeginKeepsProvider DEF ReceiveQuestion, CallKinds
  <2> QED  BY <1>3, <2>1 DEF ReceiveQuestion
<1>4. CASE ParseFails
  BY <1>4 DEF ParseFails, llmVars, ProviderInv
<1>5. CASE ParseSucceeds
  BY <1>5 DEF ParseSucceeds, llmVars, ProviderInv
<1>6. CASE CheckQuery
  <2>1. UNCHANGED <<llmVars, request, parsed, asked, data>> /\ step = "checking"
    BY <1>6 DEF CheckQuery
  <2>2. CASE Guards(parsed) = NoResponse /\ step' = "fetch" /\ UNCHANGED response
    BY <2>1, <2>2, GuardsNarrow DEF llmVars, ProviderInv, Narrow
  <2>3. CASE Respond(Guards(parsed))
    BY <2>1, <2>3 DEF llmVars, ProviderInv
  <2> QED  BY <1>6, <2>2, <2>3 DEF CheckQuery
<1>7. CASE FetchFails
  <2>1. PICK code \in {503, 422, 500} : Respond(Status(code))
    BY <1>7 DEF FetchFails
  <2>2. ~response'.clarify /\ step' = "done"
    <3>1. response' = Status(code) /\ step' = "done"
      BY <2>1 DEF Respond
    <3>2. ~Status(code).clarify
      BY StatusFields
    <3> QED BY <3>1, <3>2
  <2>3. UNCHANGED <<llmVars, request, parsed, data>> /\ step = "fetch"
    BY <1>7 DEF FetchFails
  <2> QED  BY <2>2, <2>3 DEF llmVars, ProviderInv, Narrow
<1>8. CASE FetchFindsNothing
  BY <1>8, StatusFields DEF FetchFindsNothing, llmVars, ProviderInv
<1>9. CASE FetchFinds
  <2>1. ProviderInv'
    BY <1>9, BeginKeepsProvider DEF FetchFinds, CallKinds
  <2> QED  BY <1>9, <2>1 DEF FetchFinds, NoResponse, Narrow
<1>10. CASE ReturnMetrics
  BY <1>10 DEF ReturnMetrics, Status, NoResponse, llmVars, ProviderInv
<1>11. CASE Finish
  BY <1>11 DEF Finish, Status, NoResponse, llmVars, ProviderInv, Narrow
<1>12. CASE Calling
  BY <1>12, ProviderStep DEF Calling, ucVars, Narrow
<1> QED
  BY <1>1, <1>2, <1>3, <1>4, <1>5, <1>6, <1>7, <1>8, <1>9, <1>10, <1>11, <1>12
  DEF UCNext

LEMMA UCInductive == UCInv /\ [UCNext]_allVars => UCInv'
<1>1. ASSUME UCInv, UNCHANGED allVars PROVE UCInv'
  BY <1>1 DEF allVars, llmVars, ucVars, UCInv, ProviderInv, DataInv, DataSurvivesTheLLM,
     NarrowInv, Narrow
<1> QED  BY <1>1, UCStep

LEMMA UCInitial == UCInit => UCInv
BY ProviderInit DEF UCInit, UCInv, DataInv, DataSurvivesTheLLM, NarrowInv, Steps

(* A timeout is reported exactly when the last attempt of all timed out,    *)
(* however many attempts are allowed.                                       *)
THEOREM TimeoutsToldApart == UCSpec => []ErrorTellsLastFailure
<1>1. UCInv => ErrorTellsLastFailure
  BY DEF UCInv, ProviderInv, ErrorTellsLastFailure, CallReturned, TotalAttempts
<1> QED  BY <1>1, UCInitial, UCInductive, PTL DEF UCSpec

(* Data that was fetched goes out with status 200, whatever the provider    *)
(* does, with a text or with its failure declared.                          *)
THEOREM DataGoesOut == UCSpec => []DataSurvivesTheLLM
<1>1. UCInv => DataSurvivesTheLLM
  BY DEF UCInv, DataInv
<1> QED  BY <1>1, UCInitial, UCInductive, PTL DEF UCSpec

(* No guess or failure of the parser makes a query ask for more than one    *)
(* station, one metric and a readable window in order.                      *)
THEOREM QueriesStayNarrow == UCSpec => []NeverBroadens
<1>1. UCInv => NeverBroadens
  BY DEF UCInv, NarrowInv, Narrow, NeverBroadens
<1> QED  BY <1>1, UCInitial, UCInductive, PTL DEF UCSpec

-----------------------------------------------------------------------------
(* The back-off.  PowerOfTwo is what its recursion says: functions on 0..n  *)
(* that satisfy it exist, agree, and together make the one on Nat.          *)
Doubling(f, i) == IF i = 0 THEN 1 ELSE 2 * f[i - 1]
DoublesTo(f, n) == f = [i \in 0..n |-> Doubling(f, i)]

LEMMA DoublingExists == \A n \in Nat : \E f : DoublesTo(f, n)
<1> DEFINE Missing == {n \in Nat : ~\E f : DoublesTo(f, n)}
<1> SUFFICES ASSUME Missing # {} PROVE FALSE
  OBVIOUS
<1>1. PICK n \in Missing : \A k \in Missing : n <= k
  <2>1. Missing \in SUBSET Nat
    OBVIOUS
  <2> HIDE DEF Missing
  <2> QED BY <2>1, SmallestNumber
<1>2. n # 0
  <2> DEFINE f == [i \in 0..0 |-> 1]
  <2>1. DoublesTo(f, 0)
    BY DEF DoublesTo, Doubling
  <2> QED BY <2>1
<1>3. n - 1 \in Nat /\ ~(n <= n - 1)
  BY <1>2
<1>4. PICK g : DoublesTo(g, n - 1)
  <2>1. n - 1 \notin Missing
    BY <1>1, <1>3
  <2> QED BY <1>3, <2>1
<1> DEFINE f == [i \in 0..n |-> IF i = n THEN Doubling(g, n) ELSE g[i]]
<1>5. ASSUME NEW i \in 0..n PROVE f[i] = Doubling(f, i)
  <2>1. i # n => i \in 0..(n - 1)
    OBVIOUS
  <2>2. i # n => g[i] = Doubling(g, i)
    BY <1>4, <2>1 DEF DoublesTo
  <2>3. i # 0 => i - 1 \in 0..n /\ i - 1 # n
    OBVIOUS
  <2>4. i # 0 => f[i - 1] = g[i - 1]
    BY <2>3
  <2> QED BY <2>2, <2>4 DEF Doubling
<1>6. DoublesTo(f, n)
  BY <1>5 DEF DoublesTo
<1> QED BY <1>6

LEMMA DoublingAgrees ==
    ASSUME NEW n \in Nat, NEW m \in Nat, NEW f, DoublesTo(f, n), NEW g, DoublesTo(g, m),
           NEW i \in Nat, i <= n, i <= m
    PROVE  f[i] = g[i]
<1> DEFINE Apart == {k \in Nat : k <= n /\ k <= m /\ f[k] # g[k]}
<1> SUFFICES ASSUME Apart # {} PROVE FALSE
  OBVIOUS
<1>1. PICK k \in Apart : \A j \in Apart : k <= j
  <2>1. Apart \in SUBSET Nat
    OBVIOUS
  <2> HIDE DEF Apart
  <2> QED BY <2>1, SmallestNumber
<1>2. f[k] = Doubling(f, k) /\ g[k] = Doubling(g, k)
  <2>1. k \in 0..n /\ k \in 0..m
    OBVIOUS
  <2> QED BY <2>1 DEF DoublesTo
<1>3. k # 0
  BY <1>2 DEF Doubling
<1>4. k - 1 \in Nat /\ k - 1 <= n /\ k - 1 <= m /\ ~(k <= k - 1)
  BY <1>3
<1>5. f[k - 1] = g[k - 1]
  BY <1>1, <1>4
<1> QED BY <1>2, <1>5 DEF Doubling

(* So PowerOfTwo doubles, and is a positive number. *)
LEMMA Powers ==
    /\ PowerOfTwo[0] = 1 /\ \A k \in Nat : PowerOfTwo[k + 1] = 2 * PowerOfTwo[k]
    /\ \A k \in Nat : PowerOfTwo[k] \in Nat /\ PowerOfTwo[k] >= 1
<1> DEFINE Upto(n) == CHOOSE f : DoublesTo(f, n)
           P == [k \in Nat |-> Upto(k)[k]]
           Doubles(f) == f = [k \in Nat |-> IF k = 0 THEN 1 ELSE 2 * f[k - 1]]
<1>1. \A n \in Nat : DoublesTo(Upto(n), n)
  BY DoublingExists
<1>2. ASSUME NEW k \in Nat PROVE P[k] = IF k = 0 THEN 1 ELSE 2 * P[k - 1]
  <2>1. Upto(k)[k] = Doubling(Upto(k), k)
    <3> HIDE DEF Upto
    <3> QED BY <1>1 DEF DoublesTo
  <2>2. k # 0 => Upto(k)[k - 1] = Upto(k - 1)[k - 1]
    <3> SUFFICES ASSUME k # 0 PROVE Upto(k)[k - 1] = Upto(k - 1)[k - 1]
      OBVIOUS
    <3>1. k - 1 \in Nat /\ k - 1 <= k /\ k - 1 <= k - 1
      OBVIOUS
    <3> HIDE DEF Upto
    <3> QED BY <1>1, <3>1, DoublingAgrees
  <2> HIDE DEF Upto
  <2> QED BY <2>1, <2>2 DEF Doubling
<1>3. Doubles(P)
  <2> HIDE DEF Upto
  <2> QED BY <1>2
<1>4. Doubles(PowerOfTwo)
  <2>1. PowerOfTwo = CHOOSE f : Doubles(f)
    BY DEF PowerOfTwo
  <2> HIDE DEF Doubles, P
  <2> QED BY <1>3, <2>1
<1>5. PowerOfTwo[0] = 1 /\ \A k \in Nat : PowerOfTwo[k + 1] = 2 * PowerOfTwo[k]
  <2>1. \A k \in Nat : PowerOfTwo[k] = IF k = 0 THEN 1 ELSE 2 * PowerOfTwo[k - 1]
    BY <1>4
  <2>2. ASSUME NEW k \in Nat PROVE PowerOfTwo[k + 1] = 2 * PowerOfTwo[k]
    <3>1. k + 1 \in Nat /\ k + 1 # 0 /\ (k + 1) - 1 = k
      OBVIOUS
    <3> QED BY <2>1, <3>1
  <2> QED BY <2>1, <2>2
<1>6. \A k \in Nat : PowerOfTwo[k] \in Nat /\ PowerOfTwo[k] >= 1
  <2> DEFINE Wrong == {k \in Nat : ~(PowerOfTwo[k] \in Nat /\ PowerOfTwo[k] >= 1)}
  <2> SUFFICES ASSUME Wrong # {} PROVE FALSE
    OBVIOUS
  <2>1. PICK k \in Wrong : \A j \in Wrong : k <= j
    <3>1. Wrong \in SUBSET Nat
      OBVIOUS
    <3> HIDE DEF Wrong
    <3> QED BY <3>1, SmallestNumber
  <2>2. k # 0
    BY <1>5
  <2>3. k - 1 \in Nat /\ ~(k <= k - 1) /\ (k - 1) + 1 = k
    BY <2>2
  <2>4. PowerOfTwo[k - 1] \in Nat /\ PowerOfTwo[k - 1] >= 1
    BY <2>1, <2>3
  <2>5. PowerOfTwo[k] = 2 * PowerOfTwo[k - 1]
    BY <1>5, <2>3
  <2> QED BY <2>4, <2>5
<1> QED BY <1>5, <1>6

(* A sleep is capped, and the next one at least as long whatever the jitters. *)
LEMMA DelaysGrow ==
    ASSUME NEW k \in Nat, NEW i \in {0, 1}, NEW j \in {0, 1}
    PROVE  /\ Delay(k, i) \in Nat /\ Delay(k, i) <= Cap
           /\ Delay(k, i) <= Delay(k + 1, j)
<1>1. /\ PowerOfTwo[k] \in Nat /\ PowerOfTwo[k] >= 1
      /\ PowerOfTwo[k + 1] = 2 * PowerOfTwo[k]
  BY Powers
<1> QED BY <1>1 DEF Delay, Lesser, Cap

(* Every attempt but the first was slept for, as long as _backoff says. *)
BudgetInv ==
    /\ delays \in Seq(Nat)
    /\ attempt \in Nat
    /\ call # "none" => Len(delays) = attempt - 1
    /\ \A i \in DOMAIN delays : \E jitter \in {0, 1} : delays[i] = Delay(i, jitter)

(* No call, no sleep. *)
LEMMA BudgetInit == LLMInit => BudgetInv
BY DEF LLMInit, BudgetInv

LEMMA BudgetBegins ==
    ASSUME NEW kind \in CallKinds, BeginCall(kind) PROVE BudgetInv'
BY DEF BeginCall, BudgetInv, CallKinds

(* Each step of a call keeps to the budget ... *)
LEMMA BudgetStep == ASSUME ProviderInv, BudgetInv, LLMNext PROVE BudgetInv'
<1>1. CASE Attempt \/ GiveUp
  BY <1>1 DEF Attempt, AttemptSucceeds, AttemptFailsForNow, AttemptFailsForGood, GiveUp,
     BudgetInv
<1>2. CASE Backoff
  <2>1. PICK jitter \in {0, 1} : delays' = Append(delays, Delay(attempt, jitter))
    BY <1>2 DEF Backoff
  <2>2. /\ attempt' = attempt + 1 /\ call' = call /\ call # "none"
        /\ delays \in Seq(Nat) /\ attempt \in Nat /\ Len(delays) = attempt - 1
    BY <1>2 DEF Backoff, BudgetInv, ProviderInv
  <2>3. Delay(attempt, jitter) \in Nat
    BY <2>2, DelaysGrow
  <2>4. /\ delays' \in Seq(Nat) /\ Len(delays') = attempt
        /\ delays'[attempt] = Delay(attempt, jitter)
        /\ \A i \in DOMAIN delays' : i = attempt \/ (i \in DOMAIN delays /\ delays'[i] = delays[i])
    BY <2>1, <2>2, <2>3
  <2>5. \A i \in DOMAIN delays' : \E j \in {0, 1} : delays'[i] = Delay(i, j)
    BY <2>4 DEF BudgetInv
  <2> QED BY <2>2, <2>4, <2>5 DEF BudgetInv
<1> QED BY <1>1, <1>2 DEF LLMNext

(* ... and so does every other step of the system. *)
LEMMA BudgetInductive == UCInv /\ BudgetInv /\ [UCNext]_allVars => BudgetInv'
<1> SUFFICES ASSUME UCInv, BudgetInv, [UCNext]_allVars PROVE BudgetInv'
  OBVIOUS
<1>1. CASE ReceiveQuestion
  BY <1>1, BudgetBegins DEF ReceiveQuestion, CallKinds
<1>2. CASE FetchFinds
  BY <1>2, BudgetBegins DEF FetchFinds, CallKinds
<1>3. CASE Calling
  BY <1>3, BudgetStep DEF Calling, UCInv
<1>4. CASE UNCHANGED llmVars
  BY <1>4 DEF llmVars, BudgetInv
<1>5. UNCHANGED allVars => UNCHANGED llmVars
  BY DEF allVars
<1>6. UCNext => ReceiveQuestion \/ FetchFinds \/ Calling \/ UNCHANGED llmVars
  BY DEF UCNext, DependencyFails, ReceiveRequest, ParseFails, ParseSucceeds, CheckQuery,
         FetchFails, FetchFindsNothing, ReturnMetrics, Finish
<1> QED BY <1>1, <1>2, <1>3, <1>4, <1>5, <1>6

(* A call makes at most max_retries + 1 attempts, gives up on transient     *)
(* failures only after all of them, sleeps between them and not after the   *)
(* last, and never shorter than before nor longer than the cap.             *)
THEOREM BudgetKept == UCSpec => []BudgetSpent
<1>1. UCInv /\ BudgetInv => BudgetSpent
  <2> SUFFICES ASSUME UCInv, BudgetInv PROVE BudgetSpent
    OBVIOUS
  <2>1. ASSUME NEW i \in DOMAIN delays
        PROVE  delays[i] <= Cap /\ (i > 1 => delays[i - 1] <= delays[i])
    <3>1. i \in Nat /\ delays \in Seq(Nat)
      BY DEF BudgetInv
    <3>2. PICK j \in {0, 1} : delays[i] = Delay(i, j)
      BY DEF BudgetInv
    <3>3. delays[i] <= Cap
      BY <3>1, <3>2, DelaysGrow
    <3>4. CASE i > 1
      <4>1. i - 1 \in DOMAIN delays /\ i - 1 \in Nat /\ (i - 1) + 1 = i
        BY <3>1, <3>4
      <4>2. PICK k \in {0, 1} : delays[i - 1] = Delay(i - 1, k)
        BY <4>1 DEF BudgetInv
      <4>3. Delay(i - 1, k) <= Delay((i - 1) + 1, j)
        BY <4>1, DelaysGrow
      <4> QED BY <3>2, <3>3, <4>1, <4>2, <4>3
    <3> QED BY <3>3, <3>4
  <2>2. /\ attempt <= MaxRetries + 1
        /\ phase \in {"idle", "exhausted"} /\ call # "none" => Len(delays) = attempt - 1
        /\ phase = "exhausted" => attempt = MaxRetries + 1
    BY RetriesAssumption DEF UCInv, ProviderInv, BudgetInv, TotalAttempts
  <2> QED BY <2>1, <2>2 DEF BudgetSpent
<1>2. UCInit => BudgetInv
  BY BudgetInit DEF UCInit
<1> QED BY <1>1, <1>2, UCInitial, UCInductive, BudgetInductive, PTL DEF UCSpec
=============================================================================
