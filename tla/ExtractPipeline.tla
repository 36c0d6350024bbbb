-------------------------- MODULE ExtractPipeline --------------------------
(***************************************************************************)
(* run_extract (src/src/util/extract.rs) under the two gateways that call  *)
(* it: the cache lookup before the inner timeout, the FIFO permit queue of *)
(* ExtractLimiter, the fetch, the body read, the parse on tokio's blocking *)
(* pool, the cache write, the inner tokio::time::timeout of every request  *)
(* and the outer TimeoutLayer that wraps the HTTP route only.              *)
(*                                                                         *)
(* A request is one call of run_extract.  Dropping its future (timeout or  *)
(* disconnect) gives its permit back but cannot stop a closure already     *)
(* handed to spawn_blocking: `job` is therefore separate from `pc`.        *)
(***************************************************************************)
EXTENDS Naturals, FiniteSets

CONSTANTS
    Requests,       \* calls of run_extract
    Keys,           \* extract_cache_key values
    KeyOf,          \* the key of each request's normalized URL
    HttpRequests,   \* the requests that came through /api/v1/extract
    NoRequest,      \* "no producer"
    MaxConcurrent,  \* server.max_concurrent_extracts
    InnerBudget,    \* extract.timeout_ms, in ticks
    OuterBudget     \* EXTRACT_TIMEOUT + 5s, in ticks

ASSUME PipelineAssumption ==
    /\ IsFiniteSet(Requests)
    /\ KeyOf \in [Requests -> Keys]
    /\ HttpRequests \subseteq Requests
    /\ {NoRequest, "absent", "corrupt"} \cap Requests = {}
    /\ MaxConcurrent \in Nat \ {0}
    /\ InnerBudget \in Nat \ {0}
    /\ OuterBudget \in Nat \ {0}

VARIABLES
    pc,         \* where each request's future stands
    ahead,      \* ahead[r]: the waiters before r in the semaphore's queue
    permits,    \* permits left in ExtractLimiter
    job,        \* the blocking-pool closure of each request
    cache,      \* key -> "absent" | "corrupt" | the request that wrote it
    setting,    \* requests whose cache.set Redis has yet to execute
    result,     \* what each caller was told
    innerLeft,  \* ticks left of the inner timeout
    outerLeft   \* ticks left of the HTTP route's timeout

vars == <<pc, ahead, permits, job, cache, setting, result, innerLeft, outerLeft>>

-----------------------------------------------------------------------------
(* State predicates                                                        *)

Holding == {"fetching", "reading", "parsing"}     \* _permit is alive
Span == Holding \cup {"queued"}                   \* inside the inner timeout
Open == Span \cup {"lookup", "storing"}           \* the future is alive
Closed == {"answered", "cut", "dropped"}          \* it has returned or gone
Pc == Open \cup Closed \cup {"idle"}

Jobs == {"none", "running", "finished", "panicked"}

\* The AppError variants run_extract and the routes around it produce.
FetchErrors == {"InvalidQuery", "ServiceUnavailable"}
ReadErrors == {"ContentTooLarge", "Internal"}
Errors == FetchErrors \cup ReadErrors \cup {"ExtractTimeout"}

Waiting == {r \in Requests : pc[r] = "queued"}
Holders == {r \in Requests : pc[r] \in Holding}

\* cache.rs keeps bytes; what matters is who produced them, if they parse.
CacheEntries == Requests \cup {"absent", "corrupt"}

NoResult == [code |-> "none", cached |-> FALSE, from |-> NoRequest]
Failure(e) == [code |-> e, cached |-> FALSE, from |-> NoRequest]
Fresh(r) == [code |-> "ok", cached |-> FALSE, from |-> r]
Hit(p) == [code |-> "ok", cached |-> TRUE, from |-> p]

Results == [code : Errors \cup {"ok", "none"},
            cached : BOOLEAN,
            from : Requests \cup {NoRequest}]

InnerDue(r) == pc[r] \in Span /\ innerLeft[r] = 0
OuterDue(r) == r \in HttpRequests /\ pc[r] \in Open /\ outerLeft[r] = 0

\* The semaphore can hand r a permit: it is first in the FIFO queue.
CanAcquire(r) == pc[r] = "queued" /\ permits > 0 /\ ahead[r] = {}

\* The inner future would complete a step if polled now, so that the
\* timeout, which polls it before the timer, does not elapse yet.
Ready(r) == CanAcquire(r) \/ (pc[r] = "parsing" /\ job[r] # "running")

-----------------------------------------------------------------------------
(* The end of the timed span: dropping the future returns the permit and   *)
(* takes a waiter out of the queue.                                        *)

\* Bug: the permit is returned though none was held.
Bug_ReleaseUnheld(r) == permits' = permits + 1

\* Bug: the permit moved into the closure is lost with the join handle.
Bug_LosePermitOfParse(r) ==
    permits' = IF pc[r] \in Holding \ {"parsing"} THEN permits + 1 ELSE permits

Release(r) == permits' = IF pc[r] \in Holding THEN permits + 1 ELSE permits

\* Bug: a waiter that gave up stays in the queue.
Bug_StayInQueue(r) == UNCHANGED ahead

LeaveQueue(r) ==
    ahead' = [q \in Requests |-> IF q = r THEN {} ELSE ahead[q] \ {r}]

DropSpan(r) ==
    /\ Release(r)
    /\ LeaveQueue(r)
    /\ innerLeft' = [innerLeft EXCEPT ![r] = 0]

\* The call ends; its timers are dropped with it.
Close(r, how) ==
    /\ pc' = [pc EXCEPT ![r] = how]
    /\ outerLeft' = [outerLeft EXCEPT ![r] = 0]

\* The attempt fails inside the span: `?` returns before the cache write.
Fail(r, e) ==
    /\ DropSpan(r)
    /\ Close(r, "answered")
    /\ result' = [result EXCEPT ![r] = Failure(e)]
    /\ UNCHANGED <<job, cache, setting>>

-----------------------------------------------------------------------------
(* Actions of the request's future                                         *)

\* Both handlers: an empty or unparsable url never reaches run_extract.
RejectUrl(r) ==
    /\ pc[r] = "idle"
    /\ Close(r, "answered")
    /\ result' = [result EXCEPT ![r] = Failure("InvalidQuery")]
    /\ UNCHANGED <<ahead, permits, job, cache, setting, innerLeft>>

Arrive(r) ==
    /\ pc[r] = "idle"
    /\ pc' = [pc EXCEPT ![r] = "lookup"]
    /\ outerLeft' = [outerLeft EXCEPT
          ![r] = IF r \in HttpRequests THEN OuterBudget ELSE 0]
    /\ UNCHANGED <<ahead, permits, job, cache, setting, result, innerLeft>>

\* Bug: the cache key leaves the URL out.
Bug_HitAnyKey(r) ==
    /\ pc[r] = "lookup"
    /\ \E k \in Keys :
          /\ cache[k] \in Requests
          /\ result' = [result EXCEPT ![r] = Hit(cache[k])]
    /\ Close(r, "answered")
    /\ UNCHANGED <<ahead, permits, job, cache, setting, innerLeft>>

LookupHit(r) ==
    /\ pc[r] = "lookup"
    /\ cache[KeyOf[r]] \in Requests
    /\ Close(r, "answered")
    /\ result' = [result EXCEPT ![r] = Hit(cache[KeyOf[r]])]
    /\ UNCHANGED <<ahead, permits, job, cache, setting, innerLeft>>

\* No entry, bytes that do not deserialize, or a cache that cannot answer.
LookupMiss(r) ==
    /\ pc[r] = "lookup"
    /\ pc' = [pc EXCEPT ![r] = "queued"]
    /\ ahead' = [ahead EXCEPT ![r] = Waiting]
    /\ innerLeft' = [innerLeft EXCEPT ![r] = InnerBudget]
    /\ UNCHANGED <<permits, job, cache, setting, result, outerLeft>>

Acquire(r) ==
    /\ CanAcquire(r)
    /\ pc' = [pc EXCEPT ![r] = "fetching"]
    /\ permits' = permits - 1
    /\ LeaveQueue(r)
    /\ UNCHANGED <<job, cache, setting, result, innerLeft, outerLeft>>

\* fetch_extract_target, the status check and the content-type check.
FetchFail(r) ==
    /\ pc[r] = "fetching"
    /\ \E e \in FetchErrors : Fail(r, e)

FetchOk(r) ==
    /\ pc[r] = "fetching"
    /\ pc' = [pc EXCEPT ![r] = "reading"]
    /\ UNCHANGED <<ahead, permits, job, cache, setting, result, innerLeft, outerLeft>>

\* read_capped_body: over max_raw_bytes, or the connection broke.
ReadFail(r) ==
    /\ pc[r] = "reading"
    /\ \E e \in ReadErrors : Fail(r, e)

SpawnParse(r) ==
    /\ pc[r] = "reading"
    /\ pc' = [pc EXCEPT ![r] = "parsing"]
    /\ job' = [job EXCEPT ![r] = "running"]
    /\ UNCHANGED <<ahead, permits, cache, setting, result, innerLeft, outerLeft>>

JoinPanicked(r) ==
    /\ pc[r] = "parsing"
    /\ job[r] = "panicked"
    /\ Fail(r, "Internal")

\* Bug: a panic of the parse is taken for an empty extraction.
Bug_JoinAnything(r) ==
    /\ pc[r] = "parsing"
    /\ job[r] \in {"finished", "panicked"}
    /\ DropSpan(r)
    /\ pc' = [pc EXCEPT ![r] = "storing"]
    /\ setting' = setting \cup {r}
    /\ UNCHANGED <<job, cache, result, outerLeft>>

\* The async block returns: its permit goes before cache.set is called.
JoinFinished(r) ==
    /\ pc[r] = "parsing"
    /\ job[r] = "finished"
    /\ DropSpan(r)
    /\ pc' = [pc EXCEPT ![r] = "storing"]
    /\ setting' = setting \cup {r}
    /\ UNCHANGED <<job, cache, result, outerLeft>>

\* Redis executes a SETEX, at once or after its caller was dropped, or it is
\* lost on the way there, or there is no Redis.
SetEnds(r) ==
    /\ r \in setting
    /\ setting' = setting \ {r}
    /\ \/ cache' = [cache EXCEPT ![KeyOf[r]] = r]
       \/ UNCHANGED cache
    /\ UNCHANGED <<pc, ahead, permits, job, result, innerLeft, outerLeft>>

\* cache.set has returned; the answer does not depend on how it went.
Answer(r) ==
    /\ pc[r] = "storing"
    /\ r \notin setting
    /\ Close(r, "answered")
    /\ result' = [result EXCEPT ![r] = Fresh(r)]
    /\ UNCHANGED <<ahead, permits, job, cache, setting, innerLeft>>

-----------------------------------------------------------------------------
(* Timers and departures                                                   *)

\* Bug: the elapsed timeout is reported as an upstream failure.
Bug_ElapsedAsUnavailable(r) ==
    /\ InnerDue(r)
    /\ ~Ready(r)
    /\ Fail(r, "ServiceUnavailable")

InnerTimeout(r) ==
    /\ InnerDue(r)
    /\ ~Ready(r)
    /\ Fail(r, "ExtractTimeout")

\* Bug: the route's timeout starts after the cache was asked.
Bug_LookupUntimed(r) ==
    /\ OuterDue(r)
    /\ pc[r] # "lookup"
    /\ DropSpan(r)
    /\ Close(r, "cut")
    /\ result' = [result EXCEPT ![r] = Failure("ServiceUnavailable")]
    /\ UNCHANGED <<job, cache, setting>>

\* The route's TimeoutLayer drops the handler and answers an empty 504,
\* which convert_timeout_response rewrites to SERVICE_UNAVAILABLE.
OuterTimeout(r) ==
    /\ OuterDue(r)
    /\ DropSpan(r)
    /\ Close(r, "cut")
    /\ result' = [result EXCEPT ![r] = Failure("ServiceUnavailable")]
    /\ UNCHANGED <<job, cache, setting>>

\* An HTTP client hangs up: hyper drops the handler's future.
Disconnect(r) ==
    /\ r \in HttpRequests
    /\ pc[r] \in Open
    /\ DropSpan(r)
    /\ Close(r, "dropped")
    /\ UNCHANGED <<job, cache, setting, result>>

-----------------------------------------------------------------------------
(* Environment: the blocking pool, the cache's TTL and time.               *)

JobEnds(r) ==
    /\ job[r] = "running"
    /\ \E end \in {"finished", "panicked"} : job' = [job EXCEPT ![r] = end]
    /\ UNCHANGED <<pc, ahead, permits, cache, setting, result, innerLeft, outerLeft>>

Expire(k) ==
    /\ cache[k] # "absent"
    /\ cache' = [cache EXCEPT ![k] = "absent"]
    /\ UNCHANGED <<pc, ahead, permits, job, setting, result, innerLeft, outerLeft>>

\* A due timer is served before another tick passes.
Tick ==
    /\ \A r \in Requests : ~InnerDue(r) /\ ~OuterDue(r)
    /\ \E r \in Requests :
          pc[r] \in Span \/ (r \in HttpRequests /\ pc[r] \in Open)
    /\ innerLeft' = [r \in Requests |->
          IF pc[r] \in Span THEN innerLeft[r] - 1 ELSE innerLeft[r]]
    /\ outerLeft' = [r \in Requests |->
          IF r \in HttpRequests /\ pc[r] \in Open
          THEN outerLeft[r] - 1 ELSE outerLeft[r]]
    /\ UNCHANGED <<pc, ahead, permits, job, cache, setting, result>>

\* Every call has been made and every closure has ended.
Quiescent ==
    /\ \A r \in Requests : pc[r] \in Closed /\ job[r] # "running"
    /\ UNCHANGED vars

-----------------------------------------------------------------------------
Init ==
    /\ pc = [r \in Requests |-> "idle"]
    /\ ahead = [r \in Requests |-> {}]
    /\ permits = MaxConcurrent
    /\ job = [r \in Requests |-> "none"]
    /\ cache \in [Keys -> {"absent", "corrupt"}]
    /\ setting = {}
    /\ result = [r \in Requests |-> NoResult]
    /\ innerLeft = [r \in Requests |-> 0]
    /\ outerLeft = [r \in Requests |-> 0]

Step(r) ==
    \/ RejectUrl(r)  \/ Arrive(r)      \/ LookupHit(r)    \/ LookupMiss(r)
    \/ Acquire(r)    \/ FetchFail(r)   \/ FetchOk(r)      \/ ReadFail(r)
    \/ SpawnParse(r) \/ JoinPanicked(r) \/ JoinFinished(r) \/ SetEnds(r)
    \/ Answer(r)    \/ InnerTimeout(r) \/ OuterTimeout(r) \/ Disconnect(r) \/ JobEnds(r)

Next ==
    \/ \E r \in Requests : Step(r)
    \/ \E k \in Keys : Expire(k)
    \/ Tick
    \/ Quiescent

Spec == Init /\ [][Next]_vars

(* The runtime polls what is ready and timers fire.  Nothing is assumed of *)
(* the upstream (FetchOk, FetchFail, SpawnParse, ReadFail), of the parser  *)
(* (JobEnds) or of the cache, whose commands have no timeout (LookupHit,   *)
(* LookupMiss, SetEnds): each of them may hang for ever.                   *)
Fairness ==
    /\ WF_vars(Tick)
    /\ \A r \in Requests :
          /\ WF_vars(Acquire(r))
          /\ WF_vars(JoinPanicked(r) \/ JoinFinished(r))
          /\ WF_vars(Answer(r))
          /\ WF_vars(InnerTimeout(r))
          /\ WF_vars(OuterTimeout(r))

FairSpec == Spec /\ Fairness

-----------------------------------------------------------------------------
(* Properties                                                              *)

\* Types of every variable; the permit count never leaves 0..MaxConcurrent
\* and no budget is overdrawn (extract.rs:464-512).
TypeOK ==
    /\ pc \in [Requests -> Pc]
    /\ ahead \in [Requests -> SUBSET Requests]
    /\ permits \in 0..MaxConcurrent
    /\ job \in [Requests -> Jobs]
    /\ cache \in [Keys -> CacheEntries]
    /\ setting \subseteq Requests
    /\ result \in [Requests -> Results]
    /\ innerLeft \in [Requests -> 0..InnerBudget]
    /\ outerLeft \in [Requests -> 0..OuterBudget]

\* Whatever way a request leaves the timed span (answer, error, panic, inner
\* timeout, outer timeout, hang-up), its permit comes back exactly once:
\* permits in the semaphore and permits held always add up (extract.rs:465).
PermitAccounting == permits + Cardinality(Holders) = MaxConcurrent

\* The semaphore's queue holds exactly live waiters, in one total order:
\* nobody waits behind a request that timed out or hung up, and no two
\* requests wait for each other (extract.rs:465-469, 512).
QueueOrder ==
    \A r \in Requests :
        /\ ahead[r] \subseteq Waiting \ {r}
        /\ pc[r] # "queued" => ahead[r] = {}
        /\ \A q \in ahead[r] : ahead[q] \subseteq ahead[r]
        /\ \A q \in Waiting \ {r} :
              pc[r] = "queued" => q \in ahead[r] \/ r \in ahead[q]

\* An entry of the cache was written by a call for that very key whose parse
\* finished and which run_extract never reports as failed, even if it lands
\* long after its caller is gone: errors and timeouts never reach the cache
\* (extract.rs:548-559).
OnlySuccessesCached ==
    \A k \in Keys : \A p \in Requests :
        cache[k] = p =>
            /\ KeyOf[p] = k
            /\ job[p] = "finished"
            /\ pc[p] \in Closed \cup {"storing"}
            /\ pc[p] = "answered" => result[p] = Fresh(p)

\* A parse runs without a permit only when its call was given up on: by the
\* inner timeout, by the route's timeout or by the client (extract.rs:501).
OnlyAbandonedParsesOutlive ==
    \A r \in Requests :
        job[r] = "running" /\ pc[r] # "parsing" =>
            \/ pc[r] \in {"cut", "dropped"}
            \/ result[r] = Failure("ExtractTimeout")

\* The strengthening that ties a call's closure and its answer to its
\* program counter (used by the proofs, extract.rs:501-561).
CallShape ==
    \A r \in Requests :
        /\ pc[r] \in {"idle", "lookup", "queued", "fetching", "reading"} =>
              job[r] = "none"
        /\ pc[r] = "parsing" => job[r] # "none"
        /\ pc[r] = "storing" => job[r] = "finished"
        /\ r \in setting =>
              pc[r] \in {"storing", "cut", "dropped"} /\ job[r] = "finished"
        /\ pc[r] \notin {"answered", "cut"} => result[r] = NoResult
        /\ pc[r] = "cut" => result[r] = Failure("ServiceUnavailable")

\* Even if the upstream, the parser and Redis never come back, every HTTP
\* call ends, and no call of either gateway stays for ever in the span that
\* holds, or waits for, a permit (extract.rs:464, http.rs:257-260).
EveryCallReturns ==
    \A r \in Requests :
        /\ pc[r] \in Span ~> pc[r] \notin Span
        /\ r \in HttpRequests => (pc[r] \in Open ~> pc[r] \in Closed)

\* What the endpoint promises (CachedService), for this implementation.
CallState(r) ==
    CASE pc[r] = "idle" -> "new"
      [] pc[r] \in Open -> "pending"
      [] pc[r] \in {"cut", "dropped"} -> "gone"
      [] pc[r] = "answered" /\ result[r].code = "ok" -> "ok"
      [] pc[r] = "answered" /\ result[r].code # "ok" -> "failed"

Service == INSTANCE CachedService WITH
    Nobody <- NoRequest,
    state <- [r \in Requests |-> CallState(r)],
    source <- [r \in Requests |-> result[r].from],
    produced <- {r \in Requests : job[r] = "finished"}

\* run_extract implements the service: in particular a cached answer always
\* comes from a completed extraction of the same normalized URL.
ImplementsService == Service!ServiceSpec

\* config.rs:33-35 and docs/CONFIG.md:25: the limiter bounds how many
\* extracts run their fetch+parse span, hence how many pages are parsed.
ParsesBounded ==
    Cardinality({r \in Requests : job[r] = "running"}) <= MaxConcurrent

\* docs/CONFIG.md:37: extract.timeout_ms is the budget of the full span; a
\* call is not timed out while some of it is left.
BudgetHonoured ==
    [][\A r \in Requests :
          pc[r] \in Span /\ pc'[r] = "cut" => innerLeft[r] = 0]_vars
=============================================================================
