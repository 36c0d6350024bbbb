# A verification project for Serica

Serica is a small search and page-extraction server with two gateways, an HTTP API
(axum) and an MCP server over stdio. A process runs one of them (`main.rs:181-190`),
with its own engine adapter (DuckDuckGo), counters, extraction permits and connection
to an optional Redis; processes of both kinds have in common the code behind the
gateways and, if it is configured, the entries in Redis. This directory holds
TLA+ models of its concurrent core, the TLC configurations that check them on
small instances, and proofs, checked by TLAPS, of what holds for every instance.
Eight modules are proved about, each in a module of its own.
Paths such as `extract.rs:465` are relative to the crate's source directory.

    tlc -workers 2 -config MCExtractPipeline.cfg MCExtractPipeline
    tlapm ExtractPipelineProofs.tla

## 1. Inventory

| Component | State | Operations | Talks to |
|---|---|---|---|
| Extract pipeline, `util/extract.rs` `run_extract` | permits of `ExtractLimiter` (FIFO semaphore), closures on tokio's blocking pool, cache entries | lookup, wait for a permit, fetch, read, parse, cache write; inner timeout `extract.timeout_ms` | both gateways call it; cache; extract fetch; blocking pool |
| Extract fetch, `util/ssrf.rs`, `util/fetch.rs` | current URL, redirect count, the address checked, the buffer | normalize, resolve and check, connect to the pinned address, redirect, capped read | DNS, web servers |
| Lazy Redis cache, `cache/redis.rs` | one connection and `last_attempt` behind an RwLock | `get`, `set`, `ensure_conn`, `invalidate` | Redis; called by every search and extract |
| Search gateway, `search_handler`, `serica_search`, `engines/duckduckgo.rs`, `util/metrics.rs` | cache entries, counters | validate, lookup, ask the engine, count, filter, cache write | DuckDuckGo, cache, counters |
| MCP stdio server, `gateway/mcp.rs` `run_stdio` | tasks, semaphore of 32, stdout behind a mutex | read a line, spawn, handle, write the answer | the MCP client |
| HTTP server life cycle, `main.rs`, health routes, `spawn_health_monitor` | `is_shutting_down`, `EngineHealth`, listener | signal, drain, close, exit; probe; readiness | load balancer, DuckDuckGo |
| Router: rate limits, timeouts, API key, CORS, request ids, `gateway/http.rs` | one token bucket per client and route group | admit, refuse, cut, rewrite a bare timeout | clients; wraps every HTTP handler |
| Search parameters, `SearchRequest`, MCP's own validation and dispatch | none | read, validate, refuse; build the engine's URL and the cache key | both gateways, engine, cache |
| Configuration and startup, `config.rs`, `main.rs` | how far `main` has come, what it has set going | merge, validate, choose cache and mode, bind | everything |
| Fallback cascade, `extract_from_html_impl`, `util/prune.rs` | none | choose between Markdown, text and the whole document | called on the blocking pool |
| HTML fixups, `util/codespan_fixup.rs`, `util/codeblock_linebreaks.rs` | a scanner's position, `in_pre`, the output | mark blank spans, break code lines, restore the markers | around the library, inside the cascade |
| Safe-search filter, `gateway/mod.rs` | none | filter, cut to a page | search gateway |
| DuckDuckGo parser and URL builder | none | encode a search, keep the hits that are links | search gateway |
| No-op cache, error envelope, logging | none | formatting | |

What is hard in it, and what makes each part correct:

* *Dropped futures.* A timeout or a client that hangs up drops a future at
  whatever await it stands at: in a semaphore's queue, under a write lock, while
  a closure it started runs on, between a command sent to Redis and its answer.
  Permits, queue places and locks must come back exactly once, and what cannot
  be called back (closures, commands) must do no harm.
* *Nested timeouts* with different starting points and budgets: per hop 15s, the
  extract span 30s, its HTTP route 20s, the search route 4s, the engine 10s,
  Redis connection attempts 5s. Every call must end, in the documented way.
* *A shared cache* written by processes of both gateways, by calls already given up on, and
  read without any of the checks that guarded the original.
* *A reconnecting singleton*: one connection, one throttle, many users with old
  clones, Redis going up, down and silent.
* *A shared stdout*, where an answer takes several writes.
* *Shutdown*: a flag, a sleep, a listener, a load balancer that polls, connections
  somebody must read from, and closures nothing can stop.
* *A loop over hops* whose names change their addresses between check and use.
* *Two parsers of the same parameters*, one typed and one with casts that wrap,
  in front of one cache; pages cut once by the engine and once here.
* *Hand-written scanners* over pages anybody may have written, around a library
  whose treatment of white space they make up for.
* *Layers*: what a refusal costs, and whose 504 an answer is, depends on the
  order in which the router wraps its routes.

`PROJECT.json` lists these as hazards, each at its line, with the properties
aimed at it.

## 2. Modules

| Module | Models | Checked by |
|---|---|---|
| `CachedService` | what the search and extract endpoints promise (abstract) | refinement in `extract` and `search` |
| `ExtractPipeline` | `run_extract` under both gateways | `extract`, `extract_overrun` |
| `ExtractPipelineProofs` | theorems about `ExtractPipeline` | TLAPS |
| `ExtractFetch` | `fetch_extract_target`, the response checks, `read_capped_body` | `fetch` |
| `ExtractCascade` | `extract_from_html_impl`, from the library's answer to the cap | `cascade` |
| `ExtractStepsProofs` | theorems about `ExtractFetch` and `ExtractCascade` | TLAPS |
| `LazyRedisCache` | `LazyRedisCache` | `redis` |
| `LazyRedisCacheProofs` | theorems about `LazyRedisCache` | TLAPS |
| `SearchGateway` | `search_handler`, `serica_search`, `DuckDuckGoAdapter::search`, `MetricsCollector` | `search`, `search_outage` |
| `SearchGatewayProofs` | theorems about `SearchGateway` | TLAPS |
| `McpStdio` | `McpGateway::run_stdio` | `mcp` |
| `McpStdioProofs` | theorems about `McpStdio` | TLAPS |
| `HttpServer` | `main`'s server arm, `spawn_health_monitor`, `health_ready_handler` | `server` |
| `HttpServerProofs` | theorems about `HttpServer` | TLAPS |
| `SearchRequests` | parameters, engine's URL and replies, filter, page, dispatch and error codes of both gateways | `params` |
| `HtmlFixups` | `codespan_fixup`, `codeblock_linebreaks` around the library | `fixups` |
| `Filter` | `Vec::retain` and its like: what is left of a sequence | with `params` and `fixups` |
| `FilterProofs` | theorems about `Filter`, `SearchRequests` and `HtmlFixups` | TLAPS |
| `Startup` | `Config::load`, `Config::validate`, `main` up to where it serves | `router` |
| `HttpRouter` | `HttpGateway::router` with its buckets, timeouts, refusals and API key; extends `Startup` | `router` |
| `HttpRouterProofs` | theorems about `HttpRouter` and `Startup` | TLAPS |

`MC*` modules give the constants their values. Operators named `Bug_...` are
plausible mistakes in the code; no specification uses them. Each stands before
the definition it would replace, and a property is only kept if some `Bug_...`
breaks it.

### CachedService

State: for each call `new`, `pending`, `ok`, `failed` or `gone`; whose results an
`ok` call was answered with; which calls have complete results. A call is
answered once; with its own results, or with those of a call for the same key
which is not told that it failed; it is not refused once it has results of its
own; nothing follows the answer. Permits, timers, Redis and the blocking pool do
not occur in it. `ExtractPipeline!Service` and `SearchGateway!Service` are the
refinement mappings.

### ExtractPipeline

A request is one call of `run_extract`. `pc` is the await its future stands at:
`lookup` (`cache.get`), `queued` (semaphore), `fetching`, `reading`, `parsing`
(the join handle), `storing` (`cache.set`); then `answered`, `cut` (the route's
TimeoutLayer) or `dropped` (the client left). `job` is the closure on the
blocking pool, which dropping the future does not stop, so it is kept apart.
`ahead[r]` is the set of waiters before `r` in the semaphore: tokio's queue is
FIFO, and a dropped waiter leaves it from any place. `DropSpan` is what dropping
the timed block does, on each of its exits. `setting` holds the writes given to
Redis: they may be executed after their caller is gone (`SetEnds`). `innerLeft`
and `outerLeft` are what is left of the two timeouts; `Tick` waits until due
timers are served, and `InnerTimeout` lets a ready future go first, as
`tokio::time::timeout` does. A cache entry is who produced it; `corrupt` is one
that does not deserialize. The permits are one process's: in the runs an HTTP and an
MCP call that contend for them stand for what calls with and without a route's timeout
do to each other, which is more than either kind of process has.

### ExtractFetch

`pc` is the place in the loop: `validate`, `connect`, `respond`, `read`. A URL is
its scheme, its host and whether it carries something `normalize_extract_url`
removes. `dns` maps names to sets of addresses and changes at any moment.
`dialled` records each connection with its URL and hop. Servers answer as they
like: any redirect, any status, any body; the client of a hop may fail to be built
(`BuildFails`). The forbidden ranges are a set of
addresses; `proxy.extract_url`, which by its own documentation gives the pinning
up, is taken as unset.

### ExtractCascade

One call, `page`: what the caller configured, what the library answered and how
long the document's text is; `stage` goes from `extract` through `audit` and `cap`
to `done`. A text is its length, with what matters of its content: how many of
the three-byte markers of `codespan_fixup` are in it, how many spaces they take
with them when they are restored, and whether anything else is not blank.
`chosen`, `method` and `audited` (`ratio.is_some()`) are the function's own
variables. The `f64` ratio is an integer comparison: for lengths that fit in
memory the double never falls on the other side of the threshold. How often a
cut falls into a character is left open (`Cap` takes up to three bytes less).
The library is taken to keep to the cap it is given, as the code's comment at
step 5 does. `FillsCap` is the library's answer that reached it; the code looks at
lengths only, and `CapBelowFloor` names the caps for which its other audit, the one
under `WHOLE_DOC_CHECK_FLOOR`, applies to such an extract all the same.

### LazyRedisCache

`get` and `set` take the same steps, so an operation is either. `pc` is its
place: queued on the RwLock for the fast path (`read`), for the slow path
(`write`) or to `invalidate`; `connecting` under the write lock; `command`.
The read-locked section has no await and is one step. `ahead` is the lock's
FIFO queue; a connecting operation is the only one that holds the lock across
steps. `handle[o]` is an operation's clone of the connection, `broken` the
connections on which a command fails, until the ConnectionManager repairs them
(`Heal`). Names of connections are reused once nobody has them.

### SearchGateway

`pc`: `lookup`, `asking` (request and body), `parsing`, `recording` and
`recorded` (around the two additions of `record_search`, between which there is
no await: other threads may run there, but the call cannot be dropped),
`storing`. `outcome` is what the engine returned, kept when the caller is gone,
so that `CountersExact` can compare the counters with what happened. Transport
errors count as `Upstream`: both are handled alike everywhere. Refusals by the
rate limiter are `HttpRouter`'s. The runs let searches over HTTP and over MCP count in
one place, as the calls of one process do; two processes have counters of their own and
only the cache in common.

### McpStdio

One task per line that is not blank: `spawned`, `queued` on the semaphore,
`handling`, then the writes (`start`, `rest`, `newline`, `flush`) while it owns
stdout. `outQueue` is the mutex's FIFO queue, headed by its owner. A request whose
response cannot be serialized ends unanswered (`HandleUnanswered`). The process
leaves with the read loop (`exit`), and its tasks with it: what they had not written
by the end of the input is lost, as the code has it, and no property says otherwise.
What a line is (`request`, `silent`, `blank`) is `handle_message`'s outcome.

### HttpServer

`phase` follows the graceful shutdown future, `axum::serve` (`returned`) and the drop
of the runtime at the end of `#[tokio::main]` (`exited`). A request is `new`, `routed`
(on its way), `open`, `answered` (its client has yet to take the answer), `served` or
`refused`; `job` is the closure its handler gave to the blocking pool, which a timeout
does not stop. `ServeReturns` waits for the last connection, `Exit` for the last
closure. A readiness poll reads `engine_healthy`, then `is_shutting_down`, and its
answer travels to the balancer: three steps, so that a 200 may arrive after the flag
was set and bring the instance back for one interval. `OutInTime` says that it is no
more than that one. The health monitor's interval, probe and probe timeout are timers.

### SearchRequests

`call` is the one call being served, from `lookup` to `engine`; `cache` is what
both gateways write; `answers` what callers were told. Calls follow one another:
their interleaving is `SearchGateway`'s. An ask is what a caller sends, numbers as
any u64, a word for what is no number, a query by its text, length and padding, a
language by its code and whether it is in lower case. `Fault` is the order of
checks both gateways share; what differs before it is `try_from_params` (typed
extraction, a configured default level, a language put in lower case) and
`mcp_params` (`AsUnsigned`: what cannot be read is 1, and the casts cut off). A hit
has a place in DuckDuckGo's list, a region, a grade, the words of its text and
host and a kind of link. `PageStride` is the 20 of `search`'s offset, `Batches` how many
hits DuckDuckGo may put on a page from there: fewer, as many or more.

What the model shows beyond the properties: over MCP an unreadable `page` or
`safe_search` is silently 1 and 2^32 + 1 is page 1, while HTTP answers 400; a
level left out is the configured default over HTTP and 1 over MCP; with
`max_results_per_page` below a batch the hits behind it are on no page, unless the next
page's offset reaches them. `PagesTile` says what a page holds for each length of its
batch. That pages do not overlap is not said, since it depends on DuckDuckGo: after
a batch longer than the offset's 20, of which `gateway/mod.rs:153-156` speaks, the tail
comes again on the next page.

### Filter

`Keep(s)[places]` is what is left of `s` at some of its places, in their order: the
element of rank `k` is the one up to whose place `k` places are kept. It is used
where the code calls `retain` or pushes what passes a test, and for the visible
bytes of a text. Written by ranks and not by recursion or `SelectSeq`, it can be
reasoned about for sequences of any length.

### HtmlFixups

`pass` is `spans`, `lines`, `extract`, `restore`, `done`; `input`, `i`, `inPre` and
`out` are the scanners' own variables, and an action is one round of a loop. A
page is a sequence of tokens: `<`, `/`, `>`, quotes, tag names, blanks, letters.
Between the passes stands the library, external and only for `TidyPages`:
well-formed pages of inline units, a `<pre>` and lines, without quotes. Broken
pages go through the two scanners alone. `TagEnd` is the first `>` outside quotes,
where `Turn` says what each byte makes of the open quote, and `Least` the first of
the places that fit, with what the code has for none.

Known gaps of the code that `WordsKept` is stated around: spans with nested tags,
with `&nbsp;` or with a form feed are not marked; a run of blanks in a span becomes
one space and takes a neighbouring space with it; an opening `<div>` and a `</li>`
before a closing tag break no line; a U+E000 of the page's own is taken for the marker
and becomes a space (`NothingLost` counts no marker among the visible bytes); a `<span` that never closes is scanned to the
end of the page each time it is met, so that a page full of them costs quadratic
time although the comment above the function speaks of a linear pass.

### Startup

`phase` is the point of `main` before its next chance to fail, `config` the merged
settings, `started` where logs go, which cache there is and whether the monitor
runs. `Merged` is Figment's merge of defaults, file and environment; `validate` is
`Config::validate` check by check, sizes in units of 64 KiB. `EngineFails` is left
open for a proxy URL that parses and is still refused by the client. What nothing
checks: `search.default_timeout_ms` may be 0, which cuts every search at once (the
other modules' budgets are positive by assumption, not by `validate`). The health
check asks 127.0.0.1, so that a server bound to one other address is unhealthy, as is
one that is too slow, and anything else at that port that answers without a 2xx. A text
of spaces is not an empty one: `config.rs:177`, `main.rs:127` and `http.rs:743` ask
`is_empty()`, so that a path, a Redis URL or an API key of spaces counts as set.

### HttpRouter

`debt` is the governor's cell per client and route group: ticks until the bucket
is full. A request costs `Period`, a bucket holds `Burst` of them. `window` is an
observer who counts what one bucket admits from some moment on, and `last` the
last answer with the reason for it. `Limit` is a refusal; `Admit` pays and then
lets the handler answer, the timeout around it cut, or a wrong method be turned down;
`Health` is in no group. `TurnAway` is what no bucket sees: a body declared above the
limit, which the outermost layer refuses, and a path that no route has.
`convert_timeout_response` sees every answer inside the body limit.

`WindowBounded` allows a full bucket plus one request per period, which is what the
code does; over a minute that is up to twice `rate_limit_per_minute`, as `RateKept`
(section 3) shows. `AnswersTellWhy` says which answers have no envelope, and
`ErrorsStructured` that there are some.

## 3. Runs

| Run | Shows | Instance |
|---|---|---|
| `extract` | types, permits, queue, cache soundness, refinement, every call ends | 2 HTTP calls, 1 MCP call, 2 keys, 1 permit, budgets 2 (inner) and 1 (outer) |
| `redis` | attempts are throttled, the lock moves on, caching resumes | 1 operation with a deadline, 1 without, for ever; 3 connection names; 2, 3 and 5 ticks |
| `mcp` | permits come back, answers do not mix, slow calls hold up nobody | 5 lines, 2 permits, 1 hanging call |
| `search` | counters exact, refinement, HTTP searches end | 2 HTTP calls, 1 MCP call, 2 safe_search levels, budgets 1 (route) and 2 (engine) |
| `server` | no request lost, out of rotation in time, shutdown completes, readiness recovers | 2 requests, one of which parses, drain of 0 or 2 ticks, poll every tick |
| `fetch` | only checked addresses, bounded chain and body, the fetch ends | 2 names, 2 addresses, 2 redirects, bodies to 2 units |
| `cascade` | the audit loses nothing, more is never worse, a saturated extract is kept, the cap holds | the code's own constants; 13 lengths around them, caps 2, 1499, 1500, 2999, 3000 and 50000 |
| `fixups` | scanners end, lose nothing, glue no words | pages of up to 3 of 13 broken pieces; tidy pages of up to 3 units, inline or in a `<pre>` followed by text |
| `params` | answers fit what was asked, pages show their batches, gateways agree | parameters at and beyond each limit, 2 calls, a stride of 2, pages of up to 2 hits from batches of 1, 2 and 3, at most 3 pages, widths 5 and 4 |
| `router` | bad settings never serve, token buckets, refusals end, statuses tell why | each setting at, below and above its limits in file and environment; 1 client, 2 route groups, a minute of 4 ticks |
| `extract_overrun` | finding: parses beyond `max_concurrent_extracts` | as `extract` |
| `search_outage` | finding: a silent upstream is not counted | as `search` |

Why the bounds are enough. In `extract` and `search` three calls are the least
at which one caller holds what a second waits for and a third abandons, and at
which two gateways meet on one cache key while another key is in use; one permit
makes the queue as contended as it gets. A tick stands for the greatest common
step of the two timeouts; what matters of them is their order, and that both may
fall due in the same tick. In `redis` two tasks suffice for every race on the
lock, since a third would only queue behind one of them; because the tasks go on
for ever and connections are renamed, the run has no bound on the number of
reconnections. The budgets keep the order 4s < 5s < 10s. In `mcp` three requests
over two permits are enough for a queue on the semaphore and on stdout at once.
In `server` the drain is longer than the poll interval or zero; the run shows
both what the drain buys and (through `Refuse`) what is lost without it. One request
parses and one does not: either may hold `serve`, only the one the runtime. In
`fetch` two redirects stand for `MAX_REDIRECT_HOPS`; the theorems hold for any.
In `params` two calls show an entry that one gateway wrote and the other reads,
or finds expired; a stride of two over a list of eight, with batches shorter, as long
and longer, shows first, full and last
pages and hits that are dropped before, at and after a page's end. The widths stand
for 2^32 and 2^8: what matters is that a value beyond them wraps to one refused (page
0) or to a legal one, and that the limits fit.
In `fixups` the pieces hold every token that the scanners compare bytes with,
whole, cut off and closed twice; three of them open, interrupt and end a construct. In `router`
the buckets of two clients share nothing, as those of the two groups do not;
rates 1, 2 and 5 over a minute of four ticks make the period a whole minute, a
part of one, and the clamped least one.

In `cascade` the
lengths lie on both sides of every comparison the code makes, also after the
cap, and the theorems hold for any.

Deadlock is checked in `extract` and `search`, where the only state without a
step left is the one in which every call is over (`Quiescent`), and in `redis`,
which never stops. `mcp`, `server`, `fetch`, `cascade`, `fixups`
and `params` end when the process, the fetch, the function or the bounded
sequence of calls does; in `router` a process that failed to start stays so.

### Fairness

Weak fairness is assumed only where the runtime provides it: a timer that is due fires,
a future that is ready is polled, a semaphore or lock hands over what is free. Nothing
is assumed of web servers, DuckDuckGo, the parser, clients, or Redis, and
`ShutdownCompletes` speaks of the shutdowns that no unread answer and no endless parse
holds for ever (`Held`): commands to Redis have no timeout, so a lookup or a write may
hang for ever, and then only the HTTP route's own timeout ends the call. `McpStdio`
takes the client to drain its end of the pipe and handlers outside `Hanging` to return.
`CachingResumes` speaks of the time after `calm`, from which on Redis answers within its
callers' deadlines; nothing makes `calm` come. `HtmlFixups` is one function that runs
(weak fairness of its next round); `RefusalsEnd` needs only that time passes, whatever
clients do.

### Findings

Two statements of the repository's documents and comments do not hold of the
code; the violation runs show how, `PROJECT.json` quotes them. They are
differences between text and program, and each is a place where a change would
be easy to get wrong:

* `MCExtractOverrun.cfg` (`ParsesBounded`): `config.rs:33-35` bounds the parses that run
  at once; one whose caller has been given up on runs on without a permit.
* `MCSearchOutage.cfg` (`OutageShowsUp`): `metrics.rs:10-13` has an outage show up in the
  counters; a search cut by the route's timeout moves none.

Five more have a configuration each with which TLC shows the same of them, kept for
whoever works on those parts, though they are not among the runs:

* `MCCascadeSaturated.cfg` (`SaturatedTrusted`, module `MCExtractCascade`):
  `extract.rs:115` and `331` trust an extract that reached the cap outright. Its markers
  are restored first, and it is shorter by then; and with a cap below 3000 the other
  disjunct of `audit_needed` (`extract.rs:343`) audits it.
* `MCRateKept.cfg` (`RateKept`, module `MCHttpRouter`): `docs/CONFIG.md:22` and
  `http.rs:416-418` have the rate enforced over a rolling window; after a quiet minute
  nearly twice as many requests get through in one.
* `MCErrorsStructured.cfg` (`ErrorsStructured`, module `MCHttpRouter`): `README.md:99` has
  errors structured; those of axum's extractor, of the body limit, of a wrong method and
  of a wrong path are not.
* `MCExtractBudget.cfg` (`BudgetHonoured`): `docs/CONFIG.md:37` promises a 504 once
  the budget of 30s is used up; the route's timeout of 20s answers 503 first.
* `MCRedisDisconnected.cfg` (`DisconnectedIsMiss`): `redis.rs:114` has a dead Redis
  cost nothing; one attempt per interval waits 5s, longer than a search's deadline.

## 4. Proofs

`ExtractPipelineProofs`, for every finite set of calls, any keys and any
positive budgets and number of permits (`PipelineAssumption`):

* `TypeCorrect`, `PermitsAccounted`. The types are inductive except for the
  upper bound of `permits`, so the proof first shows `Typed` (the types with
  `permits \in Nat`) and then `PermitAccounting`, `permits + Cardinality(Holders)
  = MaxConcurrent`, which is inductive given `Typed`: each exit of the timed
  block removes one holder and returns one permit, or neither. The bound on
  `permits` follows from the sum.
* `QueueStaysOrdered`. `QueueOrder` is inductive given `Typed`; the two cases with
  content are a waiter that joins behind everybody and one that leaves from any
  place.
* `CacheStaysSound`. An entry is sound only because of where its writer stood
  when it handed the write to Redis, so the invariant is strengthened with
  `CallShape`, which ties each call's closure, pending write and answer to its
  program counter.
* `OverrunIsAbandoned`, from `CallShape`.
* `PipelineImplementsService`: the refinement of `CachedService`. Initial states
  map to initial states; each step of a call maps to `Submit`, `Produce`,
  `AnswerWith`, `Refuse`, `GiveUp` or a stutter, under the invariants above
  (`CacheStaysSound` is what makes a cache hit an `AnswerWith`).
* `OkAnswersTrue`: whoever is answered "ok" has a finished extraction of its own
  page, marked `cached` exactly if it is another call's. From `CacheStaysSound` and
  `CallShape`.
* `PermitsNeverIdle`: while somebody waits, all permits are held or one of the waiters
  may have one now. Some waiter has nobody ahead (`SomebodyFirst`: the one with the
  fewest ahead, as `QueueOrder` makes the order transitive), and if it may not acquire
  there is no permit left, which by `PermitAccounting` means that all are held.
  `PermitsInTurn` is the order in which they are handed out, step by step.
* `CallsRunDown`: no call goes back in `run_extract`, time takes one tick of every
  running budget at once, and nothing gives a budget back.
* `AwaitedParsesStayBounded`: what is true of the bound that `ParsesBounded` (section 3)
  refutes: it holds of the parses whose callers still wait.

`ExtractStepsProofs`, for any names, addresses and limits (`FetchAssumption`):
`FetchTypeCorrect` and `OnlyValidatedDialled` (through `HopChecked`: the address
pinned for a hop was checked, and the URL of a hop under way is https),
`FetchChainBounded` (`HopsCounted`: connections are counted against hops),
`FetchBodyBounded` (`ReadWithin`: a body still being read is within the limit) and
`FetchTimeRunsOut`: the timeouts of the hops to come and what is left of this one are
at most `MaxRedirectHops + 1` timeouts together, each tick is one less, and no step
adds to it (`ClockShape`: the timer runs while the request is out);

and, for any floors, percentages, page sizes and caps
(`CascadeAssumption`: the library's answers are within the cap):
`CascadeTypeCorrect`, `MethodTruthful`, `KeepMonotone` (from the types alone: a
longer extract takes a larger share, and whatever exempts the shorter from the
audit exempts the longer), `NeverLoses` and `SaturatedIsKept`. The last needs
`SaturatedSoFar`, that the extract still has all of its length when the audit
looks at it, which is where a marker would break it, and that the cap is not below the
floor that applies, where the audit's first disjunct would; `SaturatedTrusted` (section
3) has neither exception.

`SearchGatewayProofs`, for any finite set of calls, parameters and positive
budgets (`GatewayAssumption`):

* `EveryOutcomeCounted`. `CountersExact` is inductive once `OutcomeShape` ties each
  call's outcome to its place: no outcome before the engine returns, only successes
  in `record_search`. Each step that counts adds its caller to one of six sets and
  to no other (`NewOutcome`, `OneMore`); every other step leaves all six alone
  (`NothingCounted`).
* `SearchImplementsService`, as for the pipeline. `CacheShape` says that an entry
  stands under its own key and that its call succeeded; `AnswerShape`, that such a
  call is never told it failed; `KeyTellsParams`, that the key determines all
  parameters, which is where a key without the safe_search level would fail.
* `SearchTypes`: the types, and that neither timeout is overdrawn.
* `OkAnswersTrue`: a page of results was found by a search for the very same
  parameters, whose caller was not told that it failed. From `CacheShape` and
  `KeyTellsParams`.
* `SearchesRunDown`, as `CallsRunDown` above.
* `EngineFailuresShowUp`: what is true of the promise that `OutageShowsUp` (section 3)
  refutes: each failure the engine reports moves one counter by one; a search that is
  cut or dropped moves none.

`McpStdioProofs`, for any lines and any positive number of permits
(`StdioAssumption`): `PermitsConserved` and `StdioTypes` from one invariant (the
types, the sum of permits, and that a line not read has no task); `NoAnswersMixed`
from `AnswersInv`: whoever writes heads the queue of stdout, all behind it have yet
to start (`Turns`), and the last piece on stdout is that writer's or of a finished
or failed answer (`GoesOn`). `EachRequestAnsweredOnce`, from `OnceInv`: the parts on
stdout are distinct, and those of a task tell where it stands (`PartsBehind`).
`TasksNeverWedged`: with fewer hanging handlers than permits, whenever a task that does
not hang is under way, some such task can go on; for that, the semaphore's queue lists
the queued tasks once each (`SemTurns`), and who writes heads the queue of stdout
(`Turns`). `TasksMoveInOrder` is the order of both queues, step by step.

`HttpServerProofs`, for any finite set of requests, any drains and timeouts
(`ServerAssumption`; a probe's timeout is shorter than the monitor's interval, as
in the code): `ServerTypes`; `ShutdownLosesNothing`, for a drain longer than the
balancer's interval, from `DrainInv`: while the balancer still routes here, the time
since the drain began and the time to its next poll add up to one interval at most, a
200 from before the flag arrives before the drain's first tick, and what was routed
arrives in the tick it was routed in; `OutOfRotationInTime`, from the same invariant;
`ShutdownKeepsMoving`: a shutdown is never taken back, its handlers are answered within
the drain and `HandlerBudget`, each tick one less, and once the listener is closed
nothing joins what may hold the process, unread answers and running parses;
`ReadyInstancesStay`: while the upstream answers, only a shutdown takes a healthy
instance out of rotation that was not polled as unhealthy. The last two need the types
and that the flag is not set before the signal.

`LazyRedisCacheProofs`, for any finite set of operations and budgets
(`CacheAssumption`): `OneConnects`, from `LockInv` (who connects is alone in that, and
there is no connection), and `AttemptsApart`, since only `WriteLocked` starts an
attempt and it looks at the throttle again. `LockNeverIdle`, from `QueueInv` (the
waiters are totally ordered): while tasks wait on the lock, one connects under it or
one of them may have it now. `LockServedInOrder`: no step lets anybody overtake, or
gives a connection attempt more time. `CalmWeatherHeals`: once Redis stays up, a
connection that works is thrown away at most once by each operation whose command
failed on an older one, and such operations only get fewer.

`HttpRouterProofs`, for any settings, clients and length of a minute
(`StartupAssumption`: numbers are natural numbers or ill-typed, as serde has it;
`RouterAssumption`):

* `StartSound` and `ServesSound`: `StartInv` lists what `main` has established at each
  `phase`; the router's steps leave it alone.
* `AnswersHonest`, on `AnswersTellWhy` itself, with nothing answered before serving:
  each of the answers a handler, an extractor, a timeout or a refusal may give is
  followed through `convert_timeout_response`, which must touch no other than the
  marker.
* `NoWindowOverrun`. `BucketsInv`: no bucket owes more than `Burst * Period`, and what
  a window admitted, times the period, is at most what is owed now plus the window's
  age. The quotient in `WindowBounded` follows (`PaidFor`); that rates are positive
  comes from `StartInv`, through `validate`.
* `RefusalsAreShort` and `RefusalsAreFree`, from the same invariants: a refused client
  is at most one period away from its next request, and only time changes that.

`FilterProofs` begins with `Keep`. A place is kept under a rank of its own, and every
rank up to the number of places is one's (`Ranks`: the ranks are an injection into
an interval of the same size, hence onto it); so a filter keeps exactly the elements
at its places (`KeepElements`), repeats none (`KeepDistinct`), and leaves each no
further back than it was with all that is kept of those before it (`RankOrder`,
`KeepOrder`).

For any requests and limits (`LimitsAssumption`: the strict list includes the
moderate one, 0 is no limit, and what the checks let through fits the casts), any
lists of hits (`CorpusAssumption`: one for every text, each hit at one place) and any
parameters of the shapes the gateways can meet (`AsksAssumption`):

* `RequestsInvariance`. `CallInv`: a call on its way passed its gateway's checks and
  carries what that gateway read. `CacheInv`: a cached page is what some reply to the
  URL of the key's request is made into (`MadeFor`). `AnswersInv`: an answer is a
  refusal of parameters that fail the checks, or carries a request that passed them
  and a page made for it, from the engine or from the cache. The step that matters is
  `LookupHit`: the entry may be the other gateway's, and only because the key holds
  every parameter (`KeyedBack`) was it made for this request.
* `AnswersFit`, `PagesShowTheirBatches` and `BothGatewaysAgree` follow from it without
  another step of the system: the first from what the parser, the filter and the cut
  keep; the second from where a batch lies in DuckDuckGo's list (`Paged`), from the
  order in which the parser and the filter leave it (`ParsedPage`, `Finalized`: the
  first hits kept are the first that are sound) and from no hit being listed twice; the
  third from `ReadAlike`, that both gateways read parameters within the widths of their
  types as the same request.

For any pages over any bytes (`FixupsAssumption`: they are sequences):

* `NothingIsLost`. `NothingLost` is inductive once the position is known to be in the
  input or one past it (`ScanInv`). `InkConcat`, that the visible bytes of two texts
  in a row are those of the one and then of the other, turns each action into an
  equation about the stretch it reads and the one it writes (`Passed`); what is not
  copied is white space or a marker (`BlankStretch`, `OneBlank`, `BlankDropped`). The
  second conjunct carries the page over from one scanner to the next, up to the
  library.
* `EachRoundMovesOn`, from the same invariant: every round goes on by a byte or more,
  never past the end, and no pass comes back. It is what the liveness property
  `ScanEnds` rests on, without fairness.
* `NoMarkerServed`: whatever text the library hands back, markers included,
  `restore_whitespace_placeholders` leaves none in what is served (`NoMarkerLeft`). It
  is the part of `WordsKept` that needs no known answer of the library.

Model-checked only: liveness, which is out of the prover's reach, as is `ENABLED`.
For each liveness property theorems state what it rests on, for every value of the
constants and without fairness: what only runs down, who is served in which order, or
that somebody can always go on. TLC adds, on small instances, that the stated fairness
then suffices to get to the end.

| Liveness property | Proved of it |
|---|---|
| `EveryCallReturns` | `CallsRunDown`, `PermitsNeverIdle`, `PermitsInTurn` |
| `EverySearchReturns` | `SearchesRunDown` |
| `FetchEnds` | `FetchTimeRunsOut` |
| `SlowCallsBlockNobody` | `TasksNeverWedged`, `TasksMoveInOrder` |
| `LockMakesProgress` | `LockNeverIdle`, `LockServedInOrder` |
| `CachingResumes` | `CalmWeatherHeals` |
| `ShutdownCompletes` | `ShutdownKeepsMoving` |
| `ReadinessRecovers` | `ReadyInstancesStay` |
| `RefusalsEnd` | `RefusalsAreShort`, `RefusalsAreFree` |
| `ScanEnds` | `EachRoundMovesOn` |

The one invariant without a theorem is `WordsKept` of `HtmlFixups`: it compares words
computed by a fold over the text, so a proof would be by induction over data, and it
speaks of the pages `TidyPages` lists, on which the library's answer is known.

## 5. Not modelled

Preflights and CORS headers, request ids, compression, tracing and the format of
logs; `proxy.extract_url`, which by its own documentation gives the pinning up; CSS
selection and percent-encoding; the library rs-trafilatura, except for what it
does to the tidy pages of `HtmlFixups`; `prune_scripts_styles` and
`whole_doc_text`, which are calls to a tokenizer; `RedisCache`, the eager variant
that nothing constructs; the texts of messages and of `tools/list`. A `NoopCache`
is a cache whose lookups all miss and whose writes are all lost, which
`ExtractPipeline`, `SearchGateway` and `SearchRequests` include. A snapshot of the
counters reads six of them one by one and may catch a search half counted.

## 6. Plan

1. A composition of `ExtractPipeline` with `LazyRedisCache` in place of its
   lookup and write steps.
2. Metrics snapshot and `EngineHealth` readers.
