--------------------------- MODULE SearchRequests ---------------------------
(***************************************************************************)
(* What the two gateways make of the parameters they are given, and how a  *)
(* page of results comes about: SearchRequest::try_from_params and the     *)
(* handlers in gateway/http.rs, handle_message and handle_tools_call in    *)
(* gateway/mcp.rs, the URL builder and the parser in engines/duckduckgo.rs,*)
(* the filter and the page in gateway/mod.rs.                              *)
(*                                                                         *)
(* Calls come one after the other and share the cache.  Their interleaving *)
(* is SearchGateway's, the inside of an extract ExtractPipeline's.         *)
(***************************************************************************)
EXTENDS Integers, SequencesExt, Filter

CONSTANTS
    Asks,        \* parameters of a search, as they are sent
    Lines,       \* lines sent to the MCP server
    Urls,        \* what callers pass for "url"
    Corpus,      \* query -> everything DuckDuckGo has on it, best first
    Region,      \* ddg_region_for_language: the codes it knows
    TwoLetter,   \* well-formed codes, those it does not know included
    Strict,      \* SAFE_SEARCH_BLOCKLIST_STRICT
    Moderate,    \* SAFE_SEARCH_BLOCKLIST_MODERATE
    Absent,      \* a parameter that is not there
    NotANumber,  \* a page or level that is no unsigned number
    SafeDefault, \* search.safe_search_default
    MaxPerPage,  \* search.max_results_per_page
    QueryMax,    \* 500
    PageMax,     \* 50
    PageMod,     \* 2^32
    SafeMod,     \* 2^8
    PageStride,  \* 20, by which a page's offset grows
    Batches,     \* how many hits DuckDuckGo may put on a page: ~20 to 40
    MaxCalls     \* bound: calls made

ASSUME LimitsAssumption ==
    /\ Moderate \subseteq Strict
    /\ SafeDefault \in 0..2
    /\ {MaxPerPage, QueryMax, PageMax, PageStride} \subseteq Nat \ {0}
    /\ {PageMod, SafeMod, MaxCalls} \subseteq Nat
    /\ Batches \subseteq Nat
    /\ PageMax < PageMod /\ 2 < SafeMod

\* DuckDuckGo has a list for every text, if an empty one, and lists a hit
\* once: a page that comes up twice is two hits.
ASSUME CorpusAssumption ==
    \A text \in DOMAIN Corpus :
        LET list == Corpus[text]
        IN /\ list \in Seq(ToSet(list))
           /\ \A p, q \in DOMAIN list : list[p] = list[q] => p = q

Queries == [text : DOMAIN Corpus, length : Nat, padded : BOOLEAN]
Langs == [code : STRING, tidy : BOOLEAN]
Counts == Nat \cup {Absent, NotANumber}

\* What a search may be asked with: an ask.
SearchParams ==
    [query : Queries \cup {Absent}, page : Counts, safe : Counts,
     lang : Langs \cup {Absent}]

ASSUME AsksAssumption ==
    /\ Asks \subseteq SearchParams
    /\ \A m \in Lines : m.ask \in SearchParams \cup {Absent}
    /\ Absent \notin SearchParams \cup Queries \cup Langs \cup Nat \cup {NotANumber}
    /\ NotANumber \notin Nat
    /\ DOMAIN Region \subseteq TwoLetter
    /\ \A code \in DOMAIN Region : Region[code] # Absent

VARIABLES
    call,     \* the call being served
    cache,    \* key -> SearchResponse
    answers   \* what callers were told, in order

vars == <<call, cache, answers>>

-----------------------------------------------------------------------------
(* Parameters: of an ask, and of the request it is read as, which has      *)
(* neither blanks around its text nor numbers that are not there.          *)

OrElse(x, default) == IF x = Absent THEN default ELSE x

Fits(x, width) == x # NotANumber /\ (x # Absent => x < width)

\* The text that is searched for is trimmed by both gateways.
Trim(q) == IF q = Absent THEN [text |-> Absent, length |-> 0, padded |-> FALSE]
           ELSE [q EXCEPT !.padded = FALSE]

\* The checks of both gateways, in their order; "none" if all are passed.
Fault(r) ==
    IF r.query.length \notin 1..QueryMax THEN "query"
    ELSE IF r.page \notin 1..PageMax THEN "page"
    ELSE IF r.safe > 2 THEN "safe_search"
    ELSE IF r.lang = Absent THEN "none"
    ELSE IF ~(r.lang.tidy /\ r.lang.code \in TwoLetter) THEN "malformed_language"
    ELSE IF r.lang.code \notin DOMAIN Region THEN "unsupported_language"
    ELSE "none"

\* try_from_params, on what the extractor could read as u32, u8 and strings.
try_from_params(a) ==
    [query |-> Trim(a.query),
     page |-> OrElse(a.page, 1),
     safe |-> OrElse(a.safe, SafeDefault),
     lang |-> IF a.lang = Absent THEN Absent ELSE [a.lang EXCEPT !.tidy = TRUE]]

Readable(a) == Fits(a.page, PageMod) /\ Fits(a.safe, SafeMod)

\* as_u64().unwrap_or(1) as u32, as u8: what does not fit is cut off.
AsUnsigned(x, width) == IF x \in {Absent, NotANumber} THEN 1 ELSE x % width

\* Bug: the query goes on as it came.
Bug_QueryUntrimmed(a) ==
    [query |-> IF a.query = Absent THEN Trim(a.query) ELSE a.query,
     page |-> AsUnsigned(a.page, PageMod),
     safe |-> AsUnsigned(a.safe, SafeMod),
     lang |-> a.lang]

\* The serica_search branch of handle_tools_call.
mcp_params(a) ==
    [query |-> Trim(a.query),
     page |-> AsUnsigned(a.page, PageMod),
     safe |-> AsUnsigned(a.safe, SafeMod),
     lang |-> a.lang]

CacheKey(r) == <<r.query, r.page, r.safe, r.lang>>

-----------------------------------------------------------------------------
(* DuckDuckGo.  A hit is [id, kl, grade, link, titled, words, host]: its   *)
(* region, DuckDuckGo's own grade of it (0 harmless, 2 explicit), what its *)
(* link leads to, and the words of its title and snippet, and of its host. *)

ddg_kp_for_safe_search(level) ==
    CASE level = 0 -> -2 [] level = 1 -> -1 [] OTHER -> 1

build_search_url(r) ==
    [q |-> r.query.text,
     s |-> (r.page - 1) * PageStride,
     kl |-> IF r.lang = Absent THEN Absent ELSE Region[r.lang.code],
     kp |-> ddg_kp_for_safe_search(r.safe)]

\* What the site lists for such a URL, and the n hits of it that begin at s.
Listing(url) ==
    LET list == Corpus[url.q]
        listed(h) == /\ url.kl # Absent => h.kl = url.kl
                     /\ url.kp = -1 => h.grade < 2
                     /\ url.kp = 1 => h.grade < 1
    IN Keep(list)[{p \in DOMAIN list : listed(list[p])}]

Page(url, n) ==
    LET list == Listing(url)
        last == IF url.s + n < Len(list) THEN url.s + n ELSE Len(list)
    IN SubSeq(list, url.s + 1, last)

Replies ==
    [status : {200, 202, 403, 503}, body : {"page", "challenge"}, batch : Batches]

is_challenge_page(reply) == reply.status = 202 /\ reply.body = "challenge"

\* Links that are no redirect, or lead to anything but http and https, are
\* refused.
extract_uddg_url(h) == h.link = "web"

parse_results(hits) ==
    Keep(hits)[{p \in DOMAIN hits : extract_uddg_url(hits[p]) /\ hits[p].titled}]

Parsed(reply, url) ==
    IF reply.body = "page" THEN parse_results(Page(url, reply.batch)) ELSE <<>>

\* DuckDuckGoAdapter::search
SearchError(reply, url) ==
    IF reply.status = 403 THEN "Blocked"
    ELSE IF reply.status \notin 200..299 THEN "Upstream"
    ELSE IF is_challenge_page(reply) THEN "Challenged"
    ELSE IF Parsed(reply, url) = <<>> THEN "ParseEmpty"
    ELSE "none"

-----------------------------------------------------------------------------
(* The page of results                                                     *)

\* Bug: only level 1 has words of its own.
Bug_StrictIsModerate(level) == IF level = 0 THEN {} ELSE Moderate

Blocklist(level) ==
    CASE level = 0 -> {} [] level = 1 -> Moderate [] OTHER -> Strict

Clear(h, level) == (h.words \cup h.host) \cap Blocklist(level) = {}

apply_safe_search_filter(hits, level) ==
    Keep(hits)[{p \in DOMAIN hits : Clear(hits[p], level)}]

Take(s, n) == SubSeq(s, 1, IF n < Len(s) THEN n ELSE Len(s))

\* Bug: the page is taken a second time out of what is one page already.
Bug_SkipAgain(hits, r) ==
    LET kept == apply_safe_search_filter(hits, r.safe)
    IN [results |-> Take(SubSeq(kept, (r.page - 1) * MaxPerPage + 1, Len(kept)),
                         MaxPerPage),
        total |-> Len(kept), page |-> r.page, cached |-> FALSE]

finalize_results(hits, r) ==
    LET kept == apply_safe_search_filter(hits, r.safe)
    IN [results |-> Take(kept, MaxPerPage),
        total |-> Len(kept), page |-> r.page, cached |-> FALSE]

-----------------------------------------------------------------------------
(* Answers                                                                 *)

Idle == [stage |-> "idle"]

Blank == [gateway |-> "http", ask |-> Absent, req |-> Absent, error |-> "none",
          code |-> "none", response |-> Absent]

Tell(a) == answers' = Append(answers, a) /\ call' = Idle

MayCall == call = Idle /\ Len(answers) < MaxCalls

\* map_search_error and its twin: a search without results is no failure.
HttpCode(error) ==
    CASE error = "ParseEmpty" -> "200"
      [] error = "ParsePanicked" -> "500"
      [] OTHER -> "503"

McpCode(error) ==
    CASE error = "ParseEmpty" -> "result"
      [] error = "ParsePanicked" -> "-32603"
      [] OTHER -> "-32000"

SearchCode(g, error) == IF g = "http" THEN HttpCode(error) ELSE McpCode(error)

Serve(response) ==
    Tell([Blank EXCEPT !.gateway = call.gateway, !.ask = call.ask, !.req = call.req,
                       !.code = SearchCode(call.gateway, "ParseEmpty"),
                       !.response = response])

Accept(g, a, r) ==
    /\ call' = [stage |-> "lookup", gateway |-> g, ask |-> a, req |-> r]
    /\ UNCHANGED answers

\* Parameters the extractor cannot read, and those the checks refuse, are a
\* 400.
HttpSearch(a) ==
    /\ MayCall
    /\ IF Readable(a) /\ Fault(try_from_params(a)) = "none"
       THEN Accept("http", a, try_from_params(a))
       ELSE Tell([Blank EXCEPT !.ask = a, !.code = "400"])
    /\ UNCHANGED cache

McpSearch(a) ==
    /\ IF Fault(mcp_params(a)) = "none"
       THEN Accept("mcp", a, mcp_params(a))
       ELSE Tell([Blank EXCEPT !.gateway = "mcp", !.ask = a, !.code = "-32602"])
    /\ UNCHANGED cache

LookupHit ==
    /\ call.stage = "lookup"
    /\ CacheKey(call.req) \in DOMAIN cache
    /\ Serve([cache[CacheKey(call.req)] EXCEPT !.cached = TRUE])
    /\ UNCHANGED cache

\* A cache may lose an entry or be out of reach.
LookupMiss ==
    /\ call.stage = "lookup"
    /\ call' = [call EXCEPT !.stage = "engine"]
    /\ UNCHANGED <<cache, answers>>

EngineFails ==
    /\ call.stage = "engine"
    /\ \E error \in {SearchError(reply, build_search_url(call.req)) : reply \in Replies}
                    \cup {"Transport", "ParsePanicked"} :
          /\ error \notin {"none", "ParseEmpty"}
          /\ Tell([Blank EXCEPT !.gateway = call.gateway, !.ask = call.ask,
                                !.req = call.req, !.error = error,
                                !.code = SearchCode(call.gateway, error)])
    /\ UNCHANGED cache

EngineAnswers ==
    /\ call.stage = "engine"
    /\ \E reply \in Replies :
          LET url == build_search_url(call.req)
              response == finalize_results(Parsed(reply, url), call.req)
          IN /\ SearchError(reply, url) \in {"none", "ParseEmpty"}
             /\ Serve(response)
             /\ cache' = [k \in DOMAIN cache \cup {CacheKey(call.req)} |->
                             IF k = CacheKey(call.req) THEN response ELSE cache[k]]

-----------------------------------------------------------------------------
(* Extracts, as far as the gateways' own part goes                         *)

\* A url is "absent", "blank", "malformed" or "good"; run_extract's outcome
\* is ExtractPipeline's business.
ExtractOutcomes ==
    {"ok", "InvalidQuery", "ContentTooLarge", "ServiceUnavailable",
     "ExtractTimeout", "Internal"}

ExtractHttpCode(o) ==
    CASE o = "ok" -> "200" [] o = "InvalidQuery" -> "400"
      [] o = "ContentTooLarge" -> "413" [] o = "ServiceUnavailable" -> "503"
      [] o = "ExtractTimeout" -> "504" [] o = "Internal" -> "500"

ExtractMcpCode(o) ==
    CASE o = "ok" -> "result" [] o = "InvalidQuery" -> "-32602" [] OTHER -> "-32000"

extract_handler(u) ==
    /\ MayCall
    /\ \E o \in IF u = "good" THEN ExtractOutcomes ELSE {"InvalidQuery"} :
          Tell([Blank EXCEPT !.code = ExtractHttpCode(o)])
    /\ UNCHANGED cache

McpExtract(u) ==
    /\ \E o \in IF u = "good" THEN ExtractOutcomes ELSE {"InvalidQuery"} :
          Tell([Blank EXCEPT !.gateway = "mcp", !.code = ExtractMcpCode(o)])
    /\ UNCHANGED cache

-----------------------------------------------------------------------------
(* JSON-RPC.  A line is [json, id, method, tool, ask, url]: ask is Absent  *)
(* where the arguments are.                                                *)

McpReply(code) ==
    /\ Tell([Blank EXCEPT !.gateway = "mcp", !.code = code])
    /\ UNCHANGED cache

UnknownTool(m) == m.tool = "other" /\ McpReply("-32601")

handle_tools_call(m) ==
    \/ m.ask = Absent /\ McpReply("-32602")
    \/ m.ask # Absent /\ m.tool = "serica_search" /\ McpSearch(m.ask)
    \/ m.ask # Absent /\ m.tool = "serica_extract" /\ McpExtract(m.url)
    \/ m.ask # Absent /\ UnknownTool(m)

\* A line without an id is a notification, whatever its method: nothing is
\* done and nothing is said.
Notification(m) ==
    /\ MayCall
    /\ m.json /\ (m.method = "notifications/initialized" \/ ~m.id)
    /\ McpReply("none")

Unparsable(m) == MayCall /\ ~m.json /\ McpReply("-32700")

handle_message(m) ==
    /\ MayCall
    /\ m.json /\ m.id /\ m.method # "notifications/initialized"
    /\ \/ m.method \in {"initialize", "tools/list"} /\ McpReply("result")
       \/ m.method = "tools/call" /\ handle_tools_call(m)
       \/ m.method = "other" /\ McpReply("-32601")

-----------------------------------------------------------------------------

Expire(k) ==
    /\ call = Idle
    /\ cache' = [j \in DOMAIN cache \ {k} |-> cache[j]]
    /\ UNCHANGED <<call, answers>>

Init ==
    /\ call = Idle
    /\ cache = <<>>
    /\ answers = <<>>

Next ==
    \/ \E a \in Asks : HttpSearch(a)
    \/ \E u \in Urls : extract_handler(u)
    \/ \E m \in Lines : Notification(m) \/ Unparsable(m) \/ handle_message(m)
    \/ LookupHit \/ LookupMiss \/ EngineFails \/ EngineAnswers
    \/ \E k \in DOMAIN cache : Expire(k)

Spec == Init /\ [][Next]_vars

-----------------------------------------------------------------------------
(* Properties                                                              *)

Served == {a \in ToSet(answers) : a.response # Absent}

\* Numbers that a u32 and a u8 hold; beyond them MCP's casts cut off.
WithinWidth(a) == Readable(a)

LevelAsked(a) ==
    OrElse(a.ask.safe, IF a.gateway = "http" THEN SafeDefault ELSE 1)

\* Whoever asks, and whichever gateway's entry the cache answers with, gets
\* hits for the query and the language asked for, at the level asked for:
\* none with a word that level blocks, wherever in title, snippet or host,
\* none that is not a web link, no more than a page of them
\* (gateway/mod.rs:132-174, 210-233, duckduckgo.rs:65-98).
AnswerFits ==
    \A a \in Served : WithinWidth(a.ask) =>
        LET hits == ToSet(a.response.results)
        IN /\ a.response.page = OrElse(a.ask.page, 1)
           /\ Len(a.response.results) <= MaxPerPage
           /\ a.response.total >= Len(a.response.results)
           /\ \A h \in hits :
                 /\ h \in ToSet(Corpus[a.ask.query.text])
                 /\ h.link = "web"
                 /\ a.ask.lang # Absent => h.kl = Region[a.ask.lang.code]
                 /\ LevelAsked(a) = 1 => (h.words \cup h.host) \cap Moderate = {}
                 /\ LevelAsked(a) = 2 => (h.words \cup h.host) \cap Strict = {}

\* A page shows the head of what DuckDuckGo lists from the page's offset on:
\* nothing from before it; of the batch that came every hit the filter lets
\* through, up to the place MaxPerPage; and no hit in preference to one that is
\* listed before it.  So turning pages misses nothing if a batch is as long as
\* the stride and MaxPerPage no shorter; a batch longer than the stride has its
\* tail again at the head of the next page, or loses it to MaxPerPage
\* (duckduckgo.rs:332, gateway/mod.rs:200-224).
PagesTile ==
    \A a \in Served :
        LET url == build_search_url(a.req)
            list == Listing(url)
            shown(p) == list[p] \in ToSet(a.response.results)
            sound(p) == /\ list[p].link = "web" /\ list[p].titled
                        /\ Clear(list[p], a.req.safe)
        IN /\ \E b \in Batches : \A p \in DOMAIN list :
                 /\ shown(p) => url.s < p /\ p <= url.s + b
                 /\ /\ sound(p) /\ a.response.total > 0
                    /\ url.s < p /\ p <= url.s + b /\ p <= url.s + MaxPerPage
                    => shown(p)
           /\ \A p, q \in DOMAIN list :
                 url.s < p /\ p < q /\ shown(q) /\ sound(p) => shown(p)

\* The same parameters, in the values both gateways can read, mean the same
\* search to both: both refuse them or both search for the same, under the
\* same key, and the engine's failures are told in kind.  Apart from that
\* they differ, in what the casts cut off, in a level left out when the
\* configured default is not 1, and in a language that is not in lower case
\* (http.rs:53-118, mcp.rs:396-512, gateway/mod.rs:27-34).
GatewaysAgree ==
    \A h, m \in ToSet(answers) :
        /\ h.gateway = "http" /\ m.gateway = "mcp"
        /\ h.ask # Absent /\ h.ask = m.ask /\ WithinWidth(h.ask)
        /\ h.ask.safe # Absent \/ SafeDefault = 1
        /\ h.ask.lang = Absent \/ h.ask.lang.tidy
        => /\ h.req = m.req
           /\ h.req = Absent => h.code = "400" /\ m.code = "-32602"
           /\ h.error = m.error => <<h.code, m.code>> \in
                 {<<"200", "result">>, <<"400", "-32602">>,
                  <<"503", "-32000">>, <<"500", "-32603">>}
=============================================================================
