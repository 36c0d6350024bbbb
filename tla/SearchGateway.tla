--------------------------- MODULE SearchGateway ---------------------------
(***************************************************************************)
(* A search through either gateway (search_handler in src/src/gateway/     *)
(* http.rs, the serica_search branch of handle_tools_call in mcp.rs): the  *)
(* shared cache and its key, DuckDuckGoAdapter::search with its own        *)
(* timeout, the metrics, the cache write, and the TimeoutLayer that wraps  *)
(* the HTTP route.                                                         *)
(***************************************************************************)
EXTENDS Naturals, FiniteSets

CONSTANTS
    Requests,      \* calls of search
    Params,        \* query, page, safe and lang of each, once validated
    HttpRequests,  \* those that came through /api/v1/search
    NoRequest,     \* "no producer"
    RouteBudget,   \* search.default_timeout_ms, in ticks
    EngineBudget   \* the reqwest client's timeout (10s), in ticks

ASSUME GatewayAssumption ==
    /\ IsFiniteSet(Requests) /\ HttpRequests \subseteq Requests
    /\ \A r \in Requests :
          Params[r] = [query |-> Params[r].query, page |-> Params[r].page,
                       safe  |-> Params[r].safe,  lang |-> Params[r].lang]
    /\ {NoRequest, "absent", "corrupt"} \cap Requests = {}
    /\ RouteBudget \in Nat \ {0}
    /\ EngineBudget \in Nat \ {0}

VARIABLES
    pc,          \* where each call stands
    outcome,     \* what the engine returned to each call
    cache,       \* key -> "absent" | "corrupt" | the call that wrote it
    setting,     \* calls whose cache.set Redis has yet to execute
    answer,      \* what each caller was told
    routeLeft,   \* ticks left of the HTTP route's timeout
    engineLeft,  \* ticks left of the engine's timeout
    counters     \* MetricsCollector

vars == <<pc, outcome, cache, setting, answer, routeLeft, engineLeft, counters>>

-----------------------------------------------------------------------------
\* Bug: the key leaves the safe_search level out.
Bug_KeyWithoutSafe(p) == <<p.query, p.page, p.lang>>

\* cache_key: max_results_per_page is the same for every call.
CacheKey(p) == <<p.query, p.page, p.safe, p.lang>>

KeyFor(r) == CacheKey(Params[r])
Keys == {KeyFor(r) : r \in Requests}

\* "recording" and "recorded" surround the two halves of record_search: no
\* await there, so that the call cannot be dropped.
Recording == {"recording", "recorded"}
Open == {"lookup", "asking", "parsing", "storing"} \cup Recording
Closed == {"answered", "cut", "dropped"}
Pc == Open \cup Closed \cup {"idle"}

\* SearchError; Upstream stands for Transport as well, which is handled alike
\* everywhere.
Errors == {"Upstream", "ParsePanicked"}
Failures == Errors \cup {"Blocked", "Challenged"}
Successes == {"Results", "ParseEmpty"}

Counters == {"searches", "latency", "errors", "blocked", "challenged", "emptyParses"}

CounterOf(o) ==
    CASE o \in Errors -> "errors"
      [] o = "Blocked" -> "blocked"
      [] o = "Challenged" -> "challenged"
      [] o = "ParseEmpty" -> "emptyParses"

Count(c) == counters' = [counters EXCEPT ![c] = @ + 1]

NoAnswer == [code |-> "none", from |-> NoRequest]
Failure(e) == [code |-> e, from |-> NoRequest]
Good(p) == [code |-> "ok", from |-> p]
Codes == {"none", "ok", "InvalidQuery", "ServiceUnavailable", "Internal"}

\* map_search_error, and its twin in the MCP gateway.
ErrorCode(o) == IF o = "ParsePanicked" THEN "Internal" ELSE "ServiceUnavailable"

Close(r, how, a) ==
    /\ pc' = [pc EXCEPT ![r] = how]
    /\ answer' = [answer EXCEPT ![r] = a]
    /\ routeLeft' = [routeLeft EXCEPT ![r] = 0]
    /\ engineLeft' = [engineLeft EXCEPT ![r] = 0]

GoTo(r, where) ==
    /\ pc' = [pc EXCEPT ![r] = where]
    /\ UNCHANGED <<answer, routeLeft>>

EngineDue(r) == pc[r] = "asking" /\ engineLeft[r] = 0
RouteDue(r) == r \in HttpRequests /\ pc[r] \in Open /\ routeLeft[r] = 0

-----------------------------------------------------------------------------
(* The handler                                                             *)

RejectParams(r) ==
    /\ pc[r] = "idle"
    /\ Close(r, "answered", Failure("InvalidQuery"))
    /\ UNCHANGED <<outcome, cache, setting, counters>>

Arrive(r) ==
    /\ pc[r] = "idle"
    /\ pc' = [pc EXCEPT ![r] = "lookup"]
    /\ routeLeft' = [routeLeft EXCEPT ![r] =
          IF r \in HttpRequests THEN RouteBudget ELSE 0]
    /\ UNCHANGED <<outcome, cache, setting, answer, engineLeft, counters>>

LookupHit(r) ==
    /\ pc[r] = "lookup"
    /\ cache[KeyFor(r)] \in Requests
    /\ Close(r, "answered", Good(cache[KeyFor(r)]))
    /\ UNCHANGED <<outcome, cache, setting, counters>>

\* No entry, one that does not deserialize, or a cache that cannot answer.
LookupMiss(r) ==
    /\ pc[r] = "lookup"
    /\ GoTo(r, "asking")
    /\ engineLeft' = [engineLeft EXCEPT ![r] = EngineBudget]
    /\ UNCHANGED <<outcome, cache, setting, counters>>

\* The engine failed: counted by kind, and the caller is told.
EngineFails(r, o) ==
    /\ outcome' = [outcome EXCEPT ![r] = o]
    /\ Count(CounterOf(o))
    /\ Close(r, "answered", Failure(ErrorCode(o)))
    /\ UNCHANGED <<cache, setting>>

\* 403, another status, a broken connection, or a challenge page.
UpstreamFails(r) ==
    /\ pc[r] = "asking"
    /\ \E o \in Failures \ {"ParsePanicked"} : EngineFails(r, o)

\* Bug: a request that timed out is sent again, for as long as it takes.
Bug_RetryForEver(r) ==
    /\ EngineDue(r)
    /\ engineLeft' = [engineLeft EXCEPT ![r] = EngineBudget]
    /\ UNCHANGED <<pc, outcome, cache, setting, answer, routeLeft, counters>>

EngineTimeout(r) == EngineDue(r) /\ EngineFails(r, "Upstream")

BodyArrives(r) ==
    /\ pc[r] = "asking"
    /\ GoTo(r, "parsing")
    /\ engineLeft' = [engineLeft EXCEPT ![r] = 0]
    /\ UNCHANGED <<outcome, cache, setting, counters>>

ParsePanics(r) == pc[r] = "parsing" /\ EngineFails(r, "ParsePanicked")

ParseEnds(r) ==
    /\ pc[r] = "parsing"
    /\ GoTo(r, "recording")
    /\ \E o \in Successes :
          /\ outcome' = [outcome EXCEPT ![r] = o]
          /\ IF o = "ParseEmpty" THEN Count("emptyParses") ELSE UNCHANGED counters
    /\ UNCHANGED <<cache, setting, engineLeft>>

\* record_search, first half.
RecordSearch(r) ==
    /\ pc[r] = "recording"
    /\ GoTo(r, "recorded")
    /\ Count("searches")
    /\ UNCHANGED <<outcome, cache, setting, engineLeft>>

\* Bug: an empty page returns before its cost is added up.
Bug_EmptyNotTimed(r) ==
    /\ pc[r] = "recorded"
    /\ GoTo(r, "storing")
    /\ IF outcome[r] = "Results" THEN Count("latency") ELSE UNCHANGED counters
    /\ setting' = setting \cup {r}
    /\ UNCHANGED <<outcome, cache, engineLeft>>

\* record_search, second half (each search takes one unit of time), then
\* finalize_results and the call of cache.set.
RecordLatency(r) ==
    /\ pc[r] = "recorded"
    /\ GoTo(r, "storing")
    /\ Count("latency")
    /\ setting' = setting \cup {r}
    /\ UNCHANGED <<outcome, cache, engineLeft>>

Answer(r) ==
    /\ pc[r] = "storing"
    /\ r \notin setting
    /\ Close(r, "answered", Good(r))
    /\ UNCHANGED <<outcome, cache, setting, counters>>

\* The TimeoutLayer drops the handler where it awaits.
RouteTimeout(r) ==
    /\ RouteDue(r)
    /\ pc[r] \notin Recording
    /\ Close(r, "cut", Failure("ServiceUnavailable"))
    /\ UNCHANGED <<outcome, cache, setting, counters>>

Disconnect(r) ==
    /\ r \in HttpRequests
    /\ pc[r] \in Open \ Recording
    /\ Close(r, "dropped", NoAnswer)
    /\ UNCHANGED <<outcome, cache, setting, counters>>

-----------------------------------------------------------------------------
(* Redis and time                                                          *)

\* Redis executes a SETEX, perhaps after its caller was dropped, or it never
\* gets there.
SetEnds(r) ==
    /\ r \in setting
    /\ setting' = setting \ {r}
    /\ \/ cache' = [cache EXCEPT ![KeyFor(r)] = r]
       \/ UNCHANGED cache
    /\ UNCHANGED <<pc, outcome, answer, routeLeft, engineLeft, counters>>

Expire(k) ==
    /\ cache[k] # "absent"
    /\ cache' = [cache EXCEPT ![k] = "absent"]
    /\ UNCHANGED <<pc, outcome, setting, answer, routeLeft, engineLeft, counters>>

\* Bug: a timer that is due may be served later.
Bug_TimersLate ==
    /\ \E r \in Requests :
          pc[r] = "asking" \/ (r \in HttpRequests /\ pc[r] \in Open)
    /\ engineLeft' = [r \in Requests |->
          IF pc[r] = "asking" THEN engineLeft[r] - 1 ELSE engineLeft[r]]
    /\ routeLeft' = [r \in Requests |->
          IF r \in HttpRequests /\ pc[r] \in Open
          THEN routeLeft[r] - 1 ELSE routeLeft[r]]
    /\ UNCHANGED <<pc, outcome, cache, setting, answer, counters>>

Tick ==
    /\ \A r \in Requests : ~EngineDue(r) /\ ~RouteDue(r)
    /\ \E r \in Requests :
          pc[r] = "asking" \/ (r \in HttpRequests /\ pc[r] \in Open)
    /\ engineLeft' = [r \in Requests |->
          IF pc[r] = "asking" THEN engineLeft[r] - 1 ELSE engineLeft[r]]
    /\ routeLeft' = [r \in Requests |->
          IF r \in HttpRequests /\ pc[r] \in Open
          THEN routeLeft[r] - 1 ELSE routeLeft[r]]
    /\ UNCHANGED <<pc, outcome, cache, setting, answer, counters>>

\* Every call has been made and is over.
Quiescent ==
    /\ \A r \in Requests : pc[r] \in Closed
    /\ UNCHANGED vars

-----------------------------------------------------------------------------
Init ==
    /\ pc = [r \in Requests |-> "idle"]
    /\ outcome = [r \in Requests |-> "none"]
    /\ cache \in [Keys -> {"absent", "corrupt"}]
    /\ setting = {}
    /\ answer = [r \in Requests |-> NoAnswer]
    /\ routeLeft = [r \in Requests |-> 0]
    /\ engineLeft = [r \in Requests |-> 0]
    /\ counters = [c \in Counters |-> 0]

Step(r) ==
    \/ RejectParams(r)  \/ Arrive(r)       \/ LookupHit(r)     \/ LookupMiss(r)
    \/ UpstreamFails(r) \/ EngineTimeout(r) \/ BodyArrives(r)  \/ ParsePanics(r)
    \/ ParseEnds(r)     \/ RecordSearch(r) \/ RecordLatency(r) \/ Answer(r)
    \/ RouteTimeout(r)  \/ Disconnect(r)   \/ SetEnds(r)

Next ==
    \/ \E r \in Requests : Step(r)
    \/ \E k \in Keys : Expire(k)
    \/ Tick
    \/ Quiescent

Spec == Init /\ [][Next]_vars

(* Timers fire and what is ready is polled.  Nothing is assumed of Redis,  *)
(* of DuckDuckGo or of the parser.                                         *)
Fairness ==
    /\ WF_vars(Tick)
    /\ \A r \in Requests :
          /\ WF_vars(EngineTimeout(r)) /\ WF_vars(RouteTimeout(r))
          /\ WF_vars(RecordSearch(r)) /\ WF_vars(RecordLatency(r))
          /\ WF_vars(Answer(r))

FairSpec == Spec /\ Fairness

-----------------------------------------------------------------------------
(* Properties                                                              *)

\* Types; neither timeout is overdrawn (http.rs:236-239, duckduckgo.rs:266).
TypeOK ==
    /\ pc \in [Requests -> Pc]
    /\ outcome \in [Requests -> Failures \cup Successes \cup {"none"}]
    /\ cache \in [Keys -> Requests \cup {"absent", "corrupt"}]
    /\ setting \subseteq Requests
    /\ answer \in [Requests -> [code : Codes, from : Requests \cup {NoRequest}]]
    /\ routeLeft \in [Requests -> 0..RouteBudget]
    /\ engineLeft \in [Requests -> 0..EngineBudget]
    /\ counters \in [Counters -> Nat]

WithOutcome(os) == {r \in Requests : outcome[r] \in os}

\* The successful searches whose number, and whose cost, has been added up.
Searched == {r \in WithOutcome(Successes) : pc[r] # "recording"}
Timed == {r \in WithOutcome(Successes) : pc[r] \notin Recording}

\* The counters tell the upstream's story exactly: every outcome the engine
\* returned to either gateway is counted once and by its kind, whatever then
\* becomes of the caller, cached answers are not counted, and latency lags
\* behind searches only by the searches between the two additions
\* (http.rs:656-673, mcp.rs:537-600, metrics.rs:51-76).
CountersExact ==
    /\ counters["errors"] = Cardinality(WithOutcome(Errors))
    /\ counters["blocked"] = Cardinality(WithOutcome({"Blocked"}))
    /\ counters["challenged"] = Cardinality(WithOutcome({"Challenged"}))
    /\ counters["emptyParses"] = Cardinality(WithOutcome({"ParseEmpty"}))
    /\ counters["searches"] = Cardinality(Searched)
    /\ counters["latency"] = Cardinality(Timed)

\* Each gateway as a CachedService.  The service's key is the whole set of
\* parameters, so that an answer from the cache was filtered for the same
\* safe_search level and fetched for the same page and language.
CallState(r) ==
    CASE pc[r] = "idle" -> "new"
      [] pc[r] \in Open -> "pending"
      [] pc[r] \in {"cut", "dropped"} -> "gone"
      [] pc[r] = "answered" /\ answer[r].code = "ok" -> "ok"
      [] pc[r] = "answered" /\ answer[r].code # "ok" -> "failed"

Service == INSTANCE CachedService WITH
    KeyOf <- Params,
    Nobody <- NoRequest,
    state <- [r \in Requests |-> CallState(r)],
    source <- [r \in Requests |-> answer[r].from],
    produced <- WithOutcome(Successes)

\* Both gateways share a cache and yet never answer one search with another
\* one's results, nor with a failure's (gateway/mod.rs:28-35, 224-249).
ImplementsService == Service!ServiceSpec

\* A DuckDuckGo that never answers, or a silent Redis, holds no HTTP search
\* for ever; the engine's own timeout holds for MCP as well.
EverySearchReturns ==
    \A r \in Requests :
        /\ pc[r] = "asking" ~> pc[r] # "asking"
        /\ r \in HttpRequests => (pc[r] \in Open ~> pc[r] \in Closed)

\* metrics.rs:10-13: an upstream outage "shows up somewhere" in the counters:
\* whenever a caller who waits for DuckDuckGo is told that the service is
\* unavailable, one of them moves.
OutageShowsUp ==
    [][\A r \in Requests :
          pc[r] = "asking" /\ answer[r] # answer'[r]
              /\ answer'[r].code = "ServiceUnavailable"
          => counters' # counters]_vars
=============================================================================
