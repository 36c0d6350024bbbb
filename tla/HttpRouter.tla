----------------------------- MODULE HttpRouter -----------------------------
(***************************************************************************)
(* What stands between a client and a handler once the process serves      *)
(* HTTP: HttpGateway::router in gateway/http.rs with its two token buckets *)
(* per client address, the timeout around each group of routes, the API    *)
(* key of /api/v1/stats, and the one place where a timeout is given the    *)
(* envelope of every other error.  Startup brings the process up.          *)
(*                                                                         *)
(* What the handlers do is the business of the other modules: here an      *)
(* answer has a status and a body, "json" (the envelope), "plain" (a       *)
(* rejection of axum's or tower-http's own) or "empty".  A HEAD is served  *)
(* as a GET is, its body left out on the way; preflights are the CORS      *)
(* layer's, which lies around all of this.                                 *)
(***************************************************************************)
EXTENDS Startup

CONSTANTS
    Peers,    \* client addresses
    Minute,   \* ticks in a minute
    MaxAge    \* bound: ticks an observed window lasts

ASSUME RouterAssumption == Minute \in Nat \ {0} /\ MaxAge \in Nat

VARIABLES
    debt,     \* per bucket: ticks until it is full again
    window,   \* a window of time somebody watches one bucket for
    last      \* the last answer given

vars == <<sources, phase, config, started, debt, window, last>>

-----------------------------------------------------------------------------
(* Token buckets                                                           *)

Groups == {"general", "extract"}
Buckets == Peers \X Groups

AtLeastOne(n) == IF n = 0 THEN 1 ELSE n

\* general_rate_limit_per_minute, extract_rate_limit_per_minute
RatePerMinute(group) ==
    IF group = "general" THEN config.rate_limit_per_minute
    ELSE AtLeastOne(config.rate_limit_per_minute \div 4)

\* build_governor_config
Burst(group) == AtLeastOne(RatePerMinute(group))

Period(group) == AtLeastOne(Minute \div Burst(group))

\* Bug: a bucket is spent one request late.
Bug_OneMore(b) == debt[b] > Burst(b[2]) * Period(b[2])

\* The governor's cell: a request costs a period, a bucket holds Burst of
\* them, and time pays it back.
Spent(b) == debt[b] > (Burst(b[2]) - 1) * Period(b[2])

Pay(b) == debt' = [debt EXCEPT ![b] = @ + Period(b[2])]

Closed == [bucket |-> <<>>, age |-> 0, admitted |-> 0]

Watched(b) == window' = IF window.bucket = b
                        THEN [window EXCEPT !.admitted = @ + 1] ELSE window

-----------------------------------------------------------------------------
(* Answers                                                                 *)

Answer(status, body) == [status |-> status, body |-> body]

\* TIMEOUT_MARKER_STATUS
Marker == Answer(504, "empty")

\* Bug: whatever has the marker's status is taken for the marker.
Bug_ConvertByStatus(a) == IF a.status = 504 THEN Answer(503, "json") ELSE a

convert_timeout_response(a) ==
    IF a.status = 504 /\ a.body = "empty" THEN Answer(503, "json") ELSE a

\* Headers are [auth, key]: "other" is an Authorization without a Bearer.
extract_provided_key(h) == IF h.auth \in {"right", "wrong"} THEN h.auth ELSE h.key

check_api_key(h) ==
    config.api_key \in {Unset, "empty"} \/ extract_provided_key(h) = "right"

Headers == [auth : {"none", "other", "right", "wrong"}, key : {"none", "right"}]

\* AppError of parameters, of the network and of a panic.
Errors == {<<"handler", Answer(status, "json")>> : status \in {400, 500, 503}}

\* What a handler may answer, and why; "extractor" is axum's own rejection of
\* a query string that does not fit the handler's parameters.
Handled(route) ==
    CASE route = "search" ->
            Errors \cup {<<"handler", Answer(200, "json")>>, <<"extractor", Answer(400, "plain")>>}
      [] route = "extract" ->
            Errors \cup {<<"handler", Answer(200, "json")>>, <<"handler", Answer(413, "json")>>,
                        <<"extractor", Answer(400, "plain")>>, <<"own_timeout", Answer(504, "json")>>}
      [] route = "stats" ->
            {IF check_api_key(h) THEN <<"key", Answer(200, "json")>>
             ELSE <<"no_key", Answer(401, "json")>> : h \in Headers}

\* A method that the route does not have.
WrongMethod == <<"method", Answer(405, "empty")>>

GroupOf(route) == IF route = "extract" THEN "extract" ELSE "general"

Say(route, why, a) == last' = [route |-> route, why |-> why, answer |-> a]

Serves == Serving("server")

\* Bug: a refused request costs as much as one that is let in.
Bug_RefusalCosts(p, route) ==
    /\ Serves /\ Spent(<<p, GroupOf(route)>>)
    /\ Say(route, "limited", convert_timeout_response(Answer(429, "json")))
    /\ debt' = [debt EXCEPT ![<<p, GroupOf(route)>>] =
          Burst(GroupOf(route)) * Period(GroupOf(route))]
    /\ UNCHANGED <<sources, phase, config, started, window>>

\* A request that finds its bucket spent: rate_limit_error_handler.
Limit(p, route) ==
    /\ Serves /\ Spent(<<p, GroupOf(route)>>)
    /\ Say(route, "limited", convert_timeout_response(Answer(429, "json")))
    /\ UNCHANGED <<sources, phase, config, started, debt, window>>

\* One that is let in is paid for whatever becomes of it: its handler answers
\* or is cut by the timeout around it, or there is no handler for its method.
Admit(p, route) ==
    LET b == <<p, GroupOf(route)>>
    IN /\ Serves /\ ~Spent(b)
       /\ Pay(b) /\ Watched(b)
       /\ \E r \in Handled(route) \cup {<<"outer_timeout", Marker>>, WrongMethod} :
             Say(route, r[1], convert_timeout_response(r[2]))
       /\ UNCHANGED <<sources, phase, config, started>>

\* The health routes are in neither group: no bucket, no timeout.
Health(route) ==
    /\ Serves
    /\ \E r \in {<<"handler", Answer(status, "json")>> :
                    status \in IF route = "live" THEN {200} ELSE {200, 503}}
                \cup {WrongMethod} :
          Say(route, r[1], convert_timeout_response(r[2]))
    /\ UNCHANGED <<sources, phase, config, started, debt, window>>

\* RequestBodyLimitLayer lies around the buckets, and a path that no route
\* has is inside none of them: neither costs anything.
TurnAway(route) ==
    /\ Serves
    /\ IF route = "unknown" THEN Say(route, "path", Answer(404, "empty"))
       ELSE Say(route, "body", Answer(413, "plain"))
    /\ UNCHANGED <<sources, phase, config, started, debt, window>>

-----------------------------------------------------------------------------
(* Time, and somebody who counts                                           *)

Tick ==
    /\ Serves
    /\ debt' = [b \in Buckets |-> IF debt[b] = 0 THEN 0 ELSE debt[b] - 1]
    /\ window' = IF window = Closed \/ window.age = MaxAge THEN Closed
                 ELSE [window EXCEPT !.age = @ + 1]
    /\ UNCHANGED <<sources, phase, config, started, last>>

Watch(b) ==
    /\ Serves /\ window = Closed
    /\ window' = [Closed EXCEPT !.bucket = b]
    /\ UNCHANGED <<sources, phase, config, started, debt, last>>

Init ==
    /\ StartInit
    /\ debt = [b \in Buckets |-> 0]
    /\ window = Closed
    /\ last = [route |-> "none", why |-> "none", answer |-> Answer(0, "none")]

Start == StartNext /\ UNCHANGED <<debt, window, last>>

Next ==
    \/ Start
    \/ \E p \in Peers, route \in {"search", "stats", "extract"} :
          Limit(p, route) \/ Admit(p, route)
    \/ \E route \in {"live", "ready"} : Health(route)
    \/ \E route \in {"search", "stats", "extract", "live", "ready", "unknown"} : TurnAway(route)
    \/ Tick
    \/ \E b \in Buckets : Watch(b)

\* Time passes, whatever the clients send.
Spec == Init /\ [][Next]_vars /\ WF_vars(Tick)

-----------------------------------------------------------------------------
(* Properties                                                              *)

\* However requests are spread over time and routes, a client gets no more
\* of them through in any window than a full bucket and one per period since
\* (http.rs:419-443).  Over a minute that is up to twice the rate set, which
\* is what a bucket that is full after a quiet minute comes to.
WindowBounded ==
    window # Closed =>
        LET group == window.bucket[2]
        IN window.admitted <= Burst(group) + window.age \div Period(group)

\* A client that was refused is let in again in the end, however often it or
\* any other asks meanwhile: refusals cost nothing and buckets are apart.
RefusalsEnd == \A b \in Buckets : Serves /\ Spent(b) ~> ~Spent(b)

\* The status tells a client what happened: 429 comes only from its own spent
\* bucket and never from a health route, 504 only from the extract's own
\* budget, 401 only where a key is configured, be it spaces; both timeouts,
\* refusals and every error of a handler have the envelope, so that an answer
\* without a body is only that of a wrong method or path and one in plain
\* text only axum's rejection of a query string or a body declared too long
\* (http.rs:262-298, 445-505, 697-763).
AnswersTellWhy ==
    LET a == last.answer
    IN /\ a.body = "empty" <=> last.why \in {"method", "path"}
       /\ a.body = "plain" <=> last.why \in {"extractor", "body"}
       /\ a.status = 429 <=> last.why = "limited"
       /\ last.route \in {"live", "ready"} => last.why \notin {"limited", "outer_timeout"}
       /\ a.status = 504 <=> last.why = "own_timeout"
       /\ last.why = "outer_timeout" => a.status = 503
       /\ a.status = 401 => config.api_key \notin {Unset, "empty"}

-----------------------------------------------------------------------------
(* Claims that the code does not keep                                      *)

\* Every error that a client is sent is structured (README.md:99).
ErrorsStructured == last.answer.status >= 400 => last.answer.body = "json"

\* The limiter lets a client have the configured number of requests a minute,
\* in any minute (http.rs:416-418, docs/CONFIG.md:22).
RateKept ==
    window # Closed /\ window.age < Minute =>
        window.admitted <= RatePerMinute(window.bucket[2])
=============================================================================
