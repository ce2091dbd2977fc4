---------------------------- MODULE LLMUseCases ----------------------------
(***************************************************************************)
(* llm/use_cases.py behind its routes: a request for a station summary, a  *)
(* natural-language query, a quality report, or the stored metrics as they *)
(* are, from its validation to its HTTP response, with the calls it makes  *)
(* to the provider, the metric store and the ingestion pipeline.  A request*)
(* that has been answered is over; nothing is kept between requests.       *)
(***************************************************************************)
EXTENDS LLMProvider

CONSTANTS
    HasApiKey,  \* whether openai_api_key is set
    Instants    \* the instants time filters may name

ASSUME UseCasesAssumption ==
    HasApiKey \in BOOLEAN /\ Instants \subseteq Nat /\ Instants # {}

(* A time filter: absent, an empty string, other text fromisoformat cannot  *)
(* read, or an instant written with or without a UTC offset.                *)
Filter == [form : {"none", "empty", "garbage", "naive", "aware"}, at : Instants]
NoFilter == CHOOSE f \in Filter : f.form = "none"
Filters == {f \in Filter : f.form \in {"naive", "aware"}} \cup {NoFilter}
UnreadableFilters ==
    {CHOOSE f \in Filter : f.form = form : form \in {"empty", "garbage"}}

(* StructuredMetricQuery, as far as execute() looks at it. *)
Query == [clarify : BOOLEAN, station : BOOLEAN, metric : BOOLEAN,
          start : Filters \cup UnreadableFilters, end : Filters \cup UnreadableFilters]

NoQuery == [clarify |-> FALSE, station |-> FALSE, metric |-> FALSE,
            start |-> NoFilter, end |-> NoFilter]

VARIABLES
    request,   \* "none", "summary", "query", "report" or "metrics"
    step,      \* where its handler is
    parsed,    \* the structured query
    asked,     \* whether the metric store or the pipeline was asked for data
    data,      \* the data it answered with: "none" or "some"
    response   \* [status, clarify, data, text, failed]

ucVars == <<request, step, parsed, asked, data, response>>
allVars == <<llmVars, ucVars>>

NoResponse == [status |-> 0, clarify |-> FALSE,
               data |-> "none", text |-> FALSE, failed |-> FALSE]
Status(code) == [NoResponse EXCEPT !.status = code]

UCInit ==
    /\ LLMInit
    /\ request = "none" /\ step = "idle" /\ parsed = NoQuery
    /\ asked = FALSE /\ data = "none" /\ response = NoResponse

Respond(r) == response' = r /\ step' = "done"

(* start >= end on two datetimes; Python refuses to compare a naive one     *)
(* with an aware one.                                                       *)
Order(start, end) ==
    IF start.form = "none" \/ end.form = "none" THEN "fine"
    ELSE IF start.form # end.form THEN "type_error"
    ELSE IF start.at >= end.at THEN "inverted"
    ELSE "fine"

-----------------------------------------------------------------------------
(* The dependencies of a route are resolved before its body is validated:   *)
(* without a key, or when the store or the schema cannot be opened, the     *)
(* answer is 503 whatever was asked.  GET /metrics needs no key.            *)
DependencyFails ==
    /\ step = "idle" /\ request' \in {"summary", "query", "report", "metrics"}
    /\ Respond(Status(503))
    /\ UNCHANGED <<llmVars, parsed, asked, data>>

(* The body's model validator, and the route of GET /metrics, reject an     *)
(* inverted window with 422; the TypeError of the comparison is nobody's to *)
(* catch.                                                                   *)
ReceiveRequest ==
    /\ step = "idle"
    /\ request' \in {"metrics"} \cup IF HasApiKey THEN {"summary", "report"} ELSE {}
    /\ \E start, end \in Filters :
          LET order == Order(start, end) IN
          \/ order = "inverted" /\ Respond(Status(422))
          \/ order = "type_error" /\ Respond(Status(500))
          \/ order = "fine" /\ step' = "fetch" /\ UNCHANGED response
    /\ UNCHANGED <<llmVars, parsed, asked, data>>

ReceiveQuestion ==
    /\ step = "idle" /\ HasApiKey
    /\ request' = "query" /\ BeginCall("structured") /\ step' = "parsing"
    /\ UNCHANGED <<parsed, asked, data, response>>

Clarification == [Status(200) EXCEPT !.clarify = TRUE]

(* Any LLMError of the parse becomes a clarification. *)
ParseFails ==
    /\ step = "parsing" /\ CallReturned /\ answer # "ok"
    /\ Respond([Clarification EXCEPT !.failed = TRUE])
    /\ UNCHANGED <<llmVars, request, parsed, asked, data>>

ParseSucceeds ==
    /\ step = "parsing" /\ CallReturned /\ answer = "ok"
    /\ parsed' \in Query /\ step' = "checking"
    /\ UNCHANGED <<llmVars, request, asked, data, response>>

Unreadable(f) == f.form \in {"empty", "garbage"}

(* Mutant of Guards: a query without a station goes through. *)
GuardsStationless(q) ==
    IF q.clarify \/ ~q.metric \/ Unreadable(q.start) \/ Unreadable(q.end) THEN Clarification
    ELSE CASE Order(q.start, q.end) = "type_error" -> Status(500)
           [] Order(q.start, q.end) = "inverted"   -> Clarification
           [] Order(q.start, q.end) = "fine"       -> NoResponse

(* Steps 2 to 4 of execute(), in this order: what is answered without       *)
(* asking the store, NoResponse when every guard lets the query through.    *)
(* What a clarification says of the reason is wording and left out.         *)
Guards(q) ==
    IF q.clarify \/ ~q.station \/ ~q.metric \/ Unreadable(q.start) \/ Unreadable(q.end)
    THEN Clarification
    ELSE CASE Order(q.start, q.end) = "type_error" -> Status(500)
           [] Order(q.start, q.end) = "inverted"   -> Clarification
           [] Order(q.start, q.end) = "fine"       -> NoResponse

CheckQuery ==
    /\ step = "checking"
    /\ IF Guards(parsed) = NoResponse
       THEN step' = "fetch" /\ UNCHANGED response
       ELSE Respond(Guards(parsed))
    /\ UNCHANGED <<llmVars, request, parsed, asked, data>>

-----------------------------------------------------------------------------
(* Asking for the data: get_metric_results, or the pipeline for a report,   *)
(* whose query for the readings can fail with an error nothing catches.     *)
FetchFails ==
    /\ step = "fetch" /\ asked' = TRUE
    /\ \/ Respond(Status(503))                              \* StorageError
       \/ request = "report" /\ Respond(Status(422))        \* ValidationError
       \/ request = "report" /\ Respond(Status(500))        \* pandas' DatabaseError
    /\ UNCHANGED <<llmVars, request, parsed, data>>

(* Nothing found: 404, but for a query, which is answered without a value   *)
(* and without being phrased, and GET /metrics, whose list is then empty.   *)
FetchFindsNothing ==
    /\ step = "fetch" /\ asked' = TRUE
    /\ Respond(Status(IF request \in {"query", "metrics"} THEN 200 ELSE 404))
    /\ UNCHANGED <<llmVars, request, parsed, data>>

FetchFinds ==
    /\ step = "fetch" /\ request # "metrics" /\ asked' = TRUE /\ data' = "some"
    /\ BeginCall("text") /\ step' = "phrasing"
    /\ UNCHANGED <<request, parsed, response>>

(* GET /metrics returns the rows themselves. *)
ReturnMetrics ==
    /\ step = "fetch" /\ request = "metrics" /\ asked' = TRUE /\ data' = "some"
    /\ Respond([Status(200) EXCEPT !.data = "some"])
    /\ UNCHANGED <<llmVars, request, parsed>>

(* Mutant of Finish: an exception of generate_text gets through. *)
FinishUnguarded ==
    /\ step = "phrasing" /\ CallReturned
    /\ Respond(IF answer = "ok"
               THEN [Status(200) EXCEPT !.data = data, !.text = TRUE] ELSE Status(502))
    /\ UNCHANGED <<llmVars, request, parsed, asked, data>>

(* _try_generate_text never raises; the data goes out with or without text. *)
Finish ==
    /\ step = "phrasing" /\ CallReturned
    /\ Respond([Status(200) EXCEPT !.data = data, !.text = (answer = "ok"),
                                   !.failed = (answer # "ok")])
    /\ UNCHANGED <<llmVars, request, parsed, asked, data>>

Calling == step \in {"parsing", "phrasing"} /\ LLMNext /\ UNCHANGED ucVars

UCNext ==
    \/ DependencyFails \/ ReceiveRequest \/ ReceiveQuestion \/ ParseFails \/ ParseSucceeds \/ CheckQuery
    \/ FetchFails \/ FetchFindsNothing \/ FetchFinds \/ ReturnMetrics \/ Finish \/ Calling

UCSpec == UCInit /\ [][UCNext]_allVars
-----------------------------------------------------------------------------
(* Once the data is there the request succeeds and carries it, however the  *)
(* provider fails; the text is there or the failure is declared, never both *)
(* nor neither (use_cases.py:7, README.md:270).                             *)
DataSurvivesTheLLM ==
    data = "some" /\ step = "done" =>
        /\ response.status = 200 /\ response.data = "some"
        /\ request # "metrics" => response.failed # response.text

(* The store is asked only for a station, a metric and a readable window in *)
(* order; no failure or guess of the parser broadens a query                *)
(* (use_cases.py:211-274), and a clarification asks nothing (README.md:501).*)
NeverBroadens ==
    request = "query" /\ asked =>
        /\ parsed.station /\ parsed.metric /\ ~parsed.clarify
        /\ ~Unreadable(parsed.start) /\ ~Unreadable(parsed.end)
        /\ Order(parsed.start, parsed.end) = "fine"
        /\ ~response.clarify

=============================================================================
