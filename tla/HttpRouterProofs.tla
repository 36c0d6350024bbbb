-------------------------- MODULE HttpRouterProofs --------------------------
(***************************************************************************)
(* What holds of a process that serves HTTP, for any settings and command  *)
(* line, any clients and any rate: its configuration is sound, its answers *)
(* tell why, and no window of time lets in more than a bucket and what was *)
(* paid back meanwhile.                                                    *)
(***************************************************************************)
EXTENDS HttpRouter, Sequences, TLAPS

-----------------------------------------------------------------------------
(* Startup                                                                 *)

Loaded == {"validate", "command", "cache", "engine", "router", "bind", "serving", "healthy"}
Validated == Loaded \ {"validate"}
Logging == Validated \ {"command", "healthy"}
Cached == Logging \ {"cache"}
Built == Cached \ {"engine"}

\* What main has established by the time it has come so far.
StartInv ==
    /\ sources \in Sources
    /\ phase \in Loaded \cup {"load", "failed"}
    /\ phase \in Loaded => config = Merged(sources) /\ Loadable(sources)
    /\ phase \in Validated => validate(config)
    /\ DOMAIN started = {"logs", "cache", "monitor"}
    /\ phase \in Logging /\ sources.command = "mcp" =>
          config.mcp_enabled /\ started.logs = "stderr"
    /\ phase \in Cached /\ RedisWanted /\ config.redis_url = "good" =>
          started.cache = "redis"
    /\ phase \in Built => started.monitor = (sources.command = "server")
    /\ phase \in {"router", "bind"} => sources.command # "mcp"
    /\ phase = "bind" => CorsSound
    /\ Serving("server") => CorsSound /\ config.host # "name"
    /\ phase = "healthy" => sources.listening = "serica"

\* Nothing is established when the process starts.
LEMMA StartInvInit == StartInit => StartInv
BY DEF StartInit, StartInv, Loaded, Validated, Logging, Cached, Built, Serving

\* Each step of main establishes what the next one relies on.
LEMMA StartInvNext == StartInv /\ StartNext => StartInv'
<1> SUFFICES ASSUME StartInv, StartNext PROVE StartInv'
  OBVIOUS
<1> USE DEF StartInv, Loaded, Validated, Logging, Cached, Built, Serving
<1>1. CASE Load
  BY <1>1 DEF Load, Loadable, PathFound, Merged
<1>2. CASE LoadFails \/ ValidateFails \/ McpDisabled \/ RedisNotBuiltIn
            \/ EngineFails \/ RouterFails \/ BindFails
  BY <1>2 DEF LoadFails, ValidateFails, McpDisabled, RedisNotBuiltIn,
     EngineFails, RouterFails, BindFails, Fail, GoOn
<1>3. CASE Validate
  BY <1>3 DEF Validate, GoOn, Merged, Loadable, PathFound, validate, ProxySound
<1>4. CASE Healthcheck
  BY <1>4 DEF Healthcheck, GoOn, Merged, Loadable, PathFound, validate, ProxySound
<1>5. CASE InitLogging
  BY <1>5 DEF InitLogging, GoOn, Merged, Loadable, PathFound, validate, ProxySound
<1>6. CASE OpenCache
  <2>1. /\ started'.logs = started.logs /\ DOMAIN started' = DOMAIN started
        /\ RedisWanted /\ config.redis_url = "good" => started'.cache = "redis"
    BY <1>6 DEF OpenCache
  <2>2. QED
    BY <1>6, <2>1 DEF OpenCache, GoOn, Merged, Loadable, PathFound, validate, ProxySound, RedisWanted
<1>7. CASE BuildEngine
  BY <1>7 DEF BuildEngine, GoOn, Merged, Loadable, PathFound, validate, ProxySound, RedisWanted
<1>8. CASE Router
  BY <1>8 DEF Router, GoOn, Merged, Loadable, PathFound, validate, ProxySound, RedisWanted, CorsSound
<1>9. CASE Bind
  BY <1>9 DEF Bind, GoOn, Merged, Loadable, PathFound, validate, ProxySound, RedisWanted, CorsSound
<1>10. QED
  BY <1>1, <1>2, <1>3, <1>4, <1>5, <1>6, <1>7, <1>8, <1>9 DEF StartNext
\* The numbers of a configuration that has been validated.
LEMMA SoundNumbers ==
    ASSUME StartInv, phase \in Validated
    PROVE  /\ \A n \in Numbers : config[n] \in Nat
           /\ config.rate_limit_per_minute > 0
<1>1. config = Merged(sources) /\ Loadable(sources) /\ validate(config)
  BY DEF StartInv, Loaded, Validated
<1>2. ASSUME NEW n \in Numbers PROVE config[n] \in Nat
  <2>1. sources \in Sources
    BY DEF StartInv
  <2>2. n \in DOMAIN Default /\ config[n] # IllTyped
    BY <1>1, StartupAssumption DEF Loadable
  <2>3. config[n] = IF n \in DOMAIN sources.env THEN sources.env[n]
                    ELSE IF n \in DOMAIN sources.file THEN sources.file[n]
                    ELSE Default[n]
    BY <1>1, <2>2 DEF Merged
  <2>4. QED
    BY <2>1, <2>2, <2>3, StartupAssumption
<1>3. config.rate_limit_per_minute \in Nat
  BY <1>2 DEF Numbers
<1>4. QED
  BY <1>1, <1>2, <1>3 DEF validate

\* What main has established is what a process that serves relies on.
LEMMA StartInvSound == StartInv => ServesOnlySound
<1> SUFFICES ASSUME StartInv PROVE ServesOnlySound
  OBVIOUS
<1>1. ASSUME phase = "serving"
      PROVE  /\ config.rate_limit_per_minute \in Nat \ {0}
             /\ config.max_concurrent_extracts \in Nat \ {0}
             /\ config.max_results_per_page \in Nat \ {0}
             /\ config.timeout_ms > 0 /\ config.max_content_chars > 0
             /\ config.ttl_seconds > 0 /\ config.extract_ttl_seconds > 0
             /\ config.safe_search_default \in 0..2
             /\ config.max_raw_bytes <= MaxRaw
  <2>1. phase \in Validated
    BY <1>1 DEF Validated, Loaded
  <2>2. validate(config)
    BY <2>1 DEF StartInv
  <2>3. /\ config.rate_limit_per_minute \in Nat
        /\ config.max_concurrent_extracts \in Nat
        /\ config.max_results_per_page \in Nat
        /\ config.timeout_ms \in Nat /\ config.max_content_chars \in Nat
        /\ config.ttl_seconds \in Nat /\ config.extract_ttl_seconds \in Nat
        /\ config.safe_search_default \in Nat /\ config.max_raw_bytes \in Nat
    BY <2>1, SoundNumbers DEF Numbers
  <2>4. QED
    BY <2>2, <2>3, StartupAssumption DEF validate
<1>2. QED
  BY <1>1 DEF ServesOnlySound, StartInv, Loaded, Validated, Logging, Cached, Built, Serving

-----------------------------------------------------------------------------
(* The router                                                              *)

\* A step of the router starts nothing.
LEMMA RouterKeepsStart ==
    [Next]_vars => StartNext \/ UNCHANGED startVars
BY DEF Next, Start, Limit, Admit, Health, TurnAway, Tick, Watch, vars, startVars

\* Invariance, for the router's own specification.
THEOREM StartSound == Spec => []StartInv
<1>1. Init => StartInv
  BY StartInvInit DEF Init
<1>2. StartInv /\ UNCHANGED startVars => StartInv'
  BY DEF StartInv, startVars, Serving, RedisWanted, CorsSound
<1>3. StartInv /\ [Next]_vars => StartInv'
  BY <1>2, StartInvNext, RouterKeepsStart
<1>4. QED
  BY <1>1, <1>3, PTL DEF Spec

\* Whatever settings it was given, a process that serves is soundly
\* configured, and an MCP server keeps stdout to its answers.
THEOREM ServesSound == Spec => []ServesOnlySound
BY StartSound, StartInvSound, PTL
-----------------------------------------------------------------------------
(* Answers                                                                 *)

NoAnswer == [route |-> "none", why |-> "none", answer |-> Answer(0, "none")]

\* Nothing is answered before the process serves.
AnswersInv == AnswersTellWhy /\ (phase # "serving" => last = NoAnswer)

\* It holds when the process starts.
LEMMA AnswersInit == Init => AnswersInv
BY DEF Init, AnswersInv, AnswersTellWhy, NoAnswer, Answer

\* main is over where the server is up.
LEMMA StartsBeforeServing == StartNext => phase # "serving" /\ phase # "failed"
BY DEF StartNext, Load, LoadFails, Validate, ValidateFails, Healthcheck,
   McpDisabled, InitLogging, OpenCache, RedisNotBuiltIn, BuildEngine,
   EngineFails, Router, RouterFails, Bind, BindFails, Fail

\* And is kept.
LEMMA AnswersNext == AnswersInv /\ [Next]_vars => AnswersInv'
<1> SUFFICES ASSUME AnswersInv, [Next]_vars PROVE AnswersInv'
  OBVIOUS
<1> USE DEF AnswersInv
<1>1. CASE Start
  <2>1. last' = NoAnswer
    BY <1>1, StartsBeforeServing DEF Start
  <2>2. QED
    BY <2>1 DEF AnswersTellWhy, NoAnswer, Answer
<1>2. ASSUME NEW p \in Peers, NEW route \in {"search", "stats", "extract"},
             Limit(p, route)
      PROVE  AnswersInv'
  BY <1>2 DEF Limit, Serves, Serving, Say, AnswersTellWhy,
     convert_timeout_response, Answer
<1>3. ASSUME NEW p \in Peers, NEW route \in {"search", "stats", "extract"},
             Admit(p, route)
      PROVE  AnswersInv'
  <2>1. PICK r \in Handled(route) \cup {<<"outer_timeout", Marker>>, WrongMethod} :
           Say(route, r[1], convert_timeout_response(r[2]))
    BY <1>3 DEF Admit
  <2>2. phase' = "serving" /\ config' = config
    BY <1>3 DEF Admit, Serves, Serving
  <2>3. CASE r \in {<<"outer_timeout", Marker>>, WrongMethod}
    BY <2>1, <2>2, <2>3 DEF Say, AnswersTellWhy, convert_timeout_response, Answer,
       Marker, WrongMethod
  <2>4. CASE r \in Handled(route)
    BY <2>1, <2>2, <2>4 DEF Handled, Errors, check_api_key, Say, AnswersTellWhy,
       convert_timeout_response, Answer
  <2>5. QED
    BY <2>3, <2>4
<1>4. ASSUME NEW route \in {"live", "ready"}, Health(route)
      PROVE  AnswersInv'
  BY <1>4 DEF Health, WrongMethod, Serves, Serving, Say, AnswersTellWhy,
     convert_timeout_response, Answer
<1>5. ASSUME NEW route \in {"search", "stats", "extract", "live", "ready", "unknown"},
             TurnAway(route)
      PROVE  AnswersInv'
  BY <1>5 DEF TurnAway, Serves, Serving, Say, AnswersTellWhy, Answer
<1>6. CASE Tick
  BY <1>6 DEF Tick, Serves, Serving, AnswersTellWhy
<1>7. ASSUME NEW b \in Buckets, Watch(b)
      PROVE  AnswersInv'
  BY <1>7 DEF Watch, Serves, Serving, AnswersTellWhy
<1>8. CASE UNCHANGED vars
  BY <1>8 DEF vars, AnswersTellWhy
<1>9. QED
  BY <1>1, <1>2, <1>3, <1>4, <1>5, <1>6, <1>7, <1>8 DEF Next

\* The status of an answer tells the client what happened, whoever asks and
\* whatever the limits are.
THEOREM AnswersHonest == Spec => []AnswersTellWhy
<1>1. AnswersInv => AnswersTellWhy
  BY DEF AnswersInv
<1>2. QED
  BY <1>1, AnswersInit, AnswersNext, PTL DEF Spec
-----------------------------------------------------------------------------
(* Token buckets                                                           *)

\* A bucket holds one request at least, and is paid back one at a time.
LEMMA RatesTyped ==
    ASSUME config.rate_limit_per_minute \in Nat, NEW group \in Groups
    PROVE  Burst(group) \in Nat \ {0} /\ Period(group) \in Nat \ {0}
<1>1. \A n \in Nat : AtLeastOne(n) \in Nat \ {0}
  BY DEF AtLeastOne
<1>2. RatePerMinute(group) \in Nat
  <2>1. config.rate_limit_per_minute \div 4 \in Nat
    OBVIOUS
  <2>2. QED
    BY <1>1, <2>1 DEF RatePerMinute, Groups
<1>3. Burst(group) \in Nat \ {0}
  BY <1>1, <1>2 DEF Burst
<1>4. Minute \div Burst(group) \in Nat
  BY <1>3, RouterAssumption
<1>5. QED
  BY <1>1, <1>3, <1>4 DEF Period

\* What one more request costs, as a product.
LEMMA OneMoreRequest ==
    ASSUME NEW n \in Nat, NEW period \in Nat
    PROVE  (n + 1) * period = n * period + period
OBVIOUS

\* Requests that were paid for by the bucket and by time.
LEMMA PaidFor ==
    ASSUME NEW n \in Nat, NEW burst \in Nat, NEW age \in Nat, NEW period \in Nat \ {0},
           n * period <= burst * period + age
    PROVE  n <= burst + age \div period
<1> DEFINE q == age \div period
<1>1. q \in Nat /\ age < (q + 1) * period
  OBVIOUS
<1>2. SUFFICES ASSUME n >= burst + q + 1 PROVE FALSE
  BY <1>1
<1>3. n * period >= (burst + q + 1) * period
  BY <1>1, <1>2
<1>4. (burst + q + 1) * period = burst * period + (q + 1) * period
  BY <1>1
<1>5. QED
  BY <1>1, <1>3, <1>4

\* A bucket is a client and a group, and is not the one nobody watches.
LEMMA BucketsTyped ==
    ASSUME NEW b \in Buckets
    PROVE  b[2] \in Groups /\ b # <<>>
<1>1. PICK p \in Peers, g \in Groups : b = <<p, g>>
  BY DEF Buckets
<1>2. b[2] \in Groups /\ Len(b) = 2 /\ Len(<<>>) = 0
  BY <1>1
<1>3. QED
  BY <1>2

\* What is owed to a bucket is never more than it holds, and whoever watches
\* it has seen no more requests than what it owes and time has paid.
BucketsInv ==
    /\ debt \in [Buckets -> Nat]
    /\ phase # "serving" => window = Closed /\ \A b \in Buckets : debt[b] = 0
    /\ phase = "serving" =>
          \A b \in Buckets : debt[b] <= Burst(b[2]) * Period(b[2])
    /\ window \in [bucket : Buckets \cup {<<>>}, age : Nat, admitted : Nat]
    /\ window.bucket = <<>> => window = Closed
    /\ \A b \in Buckets : window.bucket = b =>
          window.admitted * Period(b[2]) <= debt[b] + window.age

\* While the process serves, a period and a burst are numbers that stay.
RatesInv ==
    phase = "serving" =>
        \A b \in Buckets : Burst(b[2]) \in Nat \ {0} /\ Period(b[2]) \in Nat \ {0}

\* A validated configuration gives every bucket a burst and a period.
LEMMA RatesSound == StartInv => RatesInv
<1> SUFFICES ASSUME StartInv, phase = "serving"
             PROVE  \A b \in Buckets :
                       Burst(b[2]) \in Nat \ {0} /\ Period(b[2]) \in Nat \ {0}
  BY DEF RatesInv
<1>1. config.rate_limit_per_minute \in Nat
  BY SoundNumbers DEF Numbers, Validated, Loaded
<1>2. QED
  BY <1>1, RatesTyped, BucketsTyped

\* The rates depend on nothing but the configuration.
LEMMA RatesUnchanged ==
    ASSUME config' = config
    PROVE  \A group : Burst(group)' = Burst(group) /\ Period(group)' = Period(group)
BY DEF Burst, Period, RatePerMinute

\* No bucket owes anything at the start.
LEMMA BucketsInit == Init => BucketsInv
<1> SUFFICES ASSUME Init PROVE BucketsInv
  OBVIOUS
<1>1. phase = "load" /\ window = Closed /\ debt = [b \in Buckets |-> 0]
  BY DEF Init, StartInit
<1>2. Closed \in [bucket : Buckets \cup {<<>>}, age : Nat, admitted : Nat]
  BY DEF Closed
<1>3. QED
  BY <1>1, <1>2, BucketsTyped DEF BucketsInv, Closed

\* The buckets of a process that comes to serve are full.
LEMMA BucketsStart == RatesInv' /\ BucketsInv /\ Start => BucketsInv'
<1> SUFFICES ASSUME RatesInv', BucketsInv, Start PROVE BucketsInv'
  OBVIOUS
<1>1. UNCHANGED <<debt, window>> /\ phase # "serving"
  BY StartsBeforeServing DEF Start
<1>2. window = Closed /\ \A b \in Buckets : debt[b] = 0
  BY <1>1 DEF BucketsInv
<1>3. ASSUME phase' = "serving", NEW b \in Buckets
      PROVE  debt'[b] <= Burst(b[2])' * Period(b[2])'
  <2>1. Burst(b[2])' \in Nat /\ Period(b[2])' \in Nat
    BY <1>3 DEF RatesInv, Buckets
  <2>2. debt'[b] = 0
    BY <1>1, <1>2
  <2>3. QED
    BY <2>1, <2>2
<1>4. QED
  BY <1>1, <1>2, <1>3, BucketsTyped DEF BucketsInv, Closed

\* A request that is let in finds room for what it costs.
LEMMA BucketsAdmit ==
    ASSUME RatesInv, BucketsInv, NEW p \in Peers,
           NEW route \in {"search", "stats", "extract"}, Admit(p, route)
    PROVE  BucketsInv'
<1> DEFINE b == <<p, GroupOf(route)>>
<1>1. b \in Buckets /\ b[2] = GroupOf(route)
  BY DEF Buckets, GroupOf, Groups
<1>2. phase = "serving" /\ phase' = "serving" /\ config' = config
  BY DEF Admit, Serves, Serving
<1>3. Burst(b[2]) \in Nat \ {0} /\ Period(b[2]) \in Nat \ {0}
  BY <1>1, <1>2 DEF RatesInv
<1>4. ~Spent(b) /\ Pay(b) /\ Watched(b)
  BY DEF Admit
<1>5. debt[b] \in Nat /\ debt' = [debt EXCEPT ![b] = debt[b] + Period(b[2])]
  BY <1>1, <1>4 DEF Pay, BucketsInv
<1>6. debt' \in [Buckets -> Nat]
  BY <1>1, <1>3, <1>5 DEF BucketsInv
<1>7. debt[b] <= (Burst(b[2]) - 1) * Period(b[2])
  BY <1>3, <1>4, <1>5 DEF Spent
<1>8. debt[b] + Period(b[2]) <= Burst(b[2]) * Period(b[2])
  <2>1. (Burst(b[2]) - 1) * Period(b[2]) + Period(b[2]) = Burst(b[2]) * Period(b[2])
    BY <1>3
  <2>2. QED
    BY <1>3, <1>5, <1>7, <2>1
<1>9. ASSUME NEW c \in Buckets
      PROVE  debt'[c] <= Burst(c[2])' * Period(c[2])'
  <2>1. debt[c] <= Burst(c[2]) * Period(c[2])
    BY <1>2 DEF BucketsInv
  <2>2. debt'[c] = IF c = b THEN debt[b] + Period(b[2]) ELSE debt[c]
    BY <1>1, <1>5 DEF BucketsInv
  <2>3. QED
    BY <1>2, <1>8, <2>1, <2>2, RatesUnchanged
<1>10. window' = IF window.bucket = b THEN [window EXCEPT !.admitted = window.admitted + 1]
                 ELSE window
  BY <1>4 DEF Watched
<1>11. window' \in [bucket : Buckets \cup {<<>>}, age : Nat, admitted : Nat]
       /\ window'.bucket = window.bucket
  BY <1>10 DEF BucketsInv
<1>12. window'.bucket = <<>> => window' = Closed
  BY <1>1, <1>10, BucketsTyped DEF BucketsInv
<1>13. ASSUME NEW c \in Buckets, window'.bucket = c
       PROVE  window'.admitted * Period(c[2])' <= debt'[c] + window'.age
  <2>1. window.age \in Nat /\ window.admitted \in Nat /\ debt[c] \in Nat
        /\ Period(c[2]) \in Nat
        /\ window.admitted * Period(c[2]) <= debt[c] + window.age
    BY <1>2, <1>11, <1>13 DEF BucketsInv, RatesInv
  <2>2. Period(c[2])' = Period(c[2])
    BY <1>2, RatesUnchanged
  <2>3. CASE c = b
    <3>1. window'.admitted = window.admitted + 1 /\ window'.age = window.age
          /\ debt'[c] = debt[c] + Period(c[2])
      BY <1>1, <1>5, <1>10, <1>11, <1>13, <2>3 DEF BucketsInv
    <3>2. (window.admitted + 1) * Period(c[2]) = window.admitted * Period(c[2]) + Period(c[2])
      BY <2>1, OneMoreRequest
    <3>3. (window.admitted + 1) * Period(c[2]) <= debt[c] + Period(c[2]) + window.age
      BY <2>1, <3>2
    <3>4. QED
      BY <2>2, <3>1, <3>3
  <2>4. CASE c # b
    <3>1. window' = window /\ debt'[c] = debt[c]
      BY <1>1, <1>5, <1>10, <1>11, <1>13, <2>4 DEF BucketsInv
    <3>2. QED
      BY <2>1, <2>2, <3>1
  <2>5. QED
    BY <2>3, <2>4
<1>14. QED
  BY <1>2, <1>6, <1>9, <1>11, <1>12, <1>13 DEF BucketsInv

\* Time pays back no more than it takes.
LEMMA BucketsTick == RatesInv /\ BucketsInv /\ Tick => BucketsInv'
<1> SUFFICES ASSUME RatesInv, BucketsInv, Tick PROVE BucketsInv'
  OBVIOUS
<1>1. phase = "serving" /\ phase' = "serving" /\ config' = config
  BY DEF Tick, Serves, Serving
<1>2. debt' = [b \in Buckets |-> IF debt[b] = 0 THEN 0 ELSE debt[b] - 1]
  BY DEF Tick
<1>3. ASSUME NEW b \in Buckets
      PROVE  debt'[b] \in Nat /\ debt'[b] <= debt[b] /\ debt[b] <= debt'[b] + 1
  BY <1>2 DEF BucketsInv
<1>4. ASSUME NEW b \in Buckets
      PROVE  debt'[b] <= Burst(b[2])' * Period(b[2])'
  <2>1. debt[b] <= Burst(b[2]) * Period(b[2]) /\ debt[b] \in Nat
        /\ Burst(b[2]) \in Nat /\ Period(b[2]) \in Nat
    BY <1>1 DEF BucketsInv, RatesInv
  <2>2. QED
    BY <1>1, <1>3, <2>1, RatesUnchanged
<1>5. debt' \in [Buckets -> Nat]
  BY <1>2, <1>3
<1>6. CASE window' = Closed
  BY <1>1, <1>4, <1>5, <1>6, BucketsTyped DEF BucketsInv, Closed
<1>7. CASE window' = [window EXCEPT !.age = window.age + 1] /\ window # Closed
  <2>1. window' \in [bucket : Buckets \cup {<<>>}, age : Nat, admitted : Nat]
        /\ window'.bucket = window.bucket /\ window.bucket # <<>>
        /\ window'.age = window.age + 1 /\ window'.admitted = window.admitted
    BY <1>7 DEF BucketsInv
  <2>2. ASSUME NEW b \in Buckets, window'.bucket = b
        PROVE  window'.admitted * Period(b[2])' <= debt'[b] + window'.age
    <3>1. /\ window.age \in Nat /\ window.admitted \in Nat /\ debt[b] \in Nat
          /\ Period(b[2]) \in Nat
          /\ window.admitted * Period(b[2]) <= debt[b] + window.age
      BY <1>1, <2>1, <2>2 DEF BucketsInv, RatesInv
    <3>2. debt[b] <= debt'[b] + 1 /\ debt'[b] \in Nat
      BY <1>3
    <3>3. window.admitted * Period(b[2]) <= debt'[b] + (window.age + 1)
      BY <3>1, <3>2
    <3>4. QED
      BY <1>1, <2>1, <3>3, RatesUnchanged
  <2>3. QED
    BY <1>1, <1>4, <1>5, <2>1, <2>2 DEF BucketsInv
<1>8. QED
  BY <1>6, <1>7 DEF Tick

\* Whoever begins to watch has seen nothing.
LEMMA BucketsWatch ==
    ASSUME RatesInv, BucketsInv, NEW b \in Buckets, Watch(b)
    PROVE  BucketsInv'
<1>1. phase = "serving" /\ UNCHANGED <<phase, config, debt>>
  BY DEF Watch, Serves, Serving
<1>2. window' = [bucket |-> b, age |-> 0, admitted |-> 0]
  BY DEF Watch, Closed
<1>3. b # <<>> /\ debt[b] \in Nat /\ Period(b[2]) \in Nat
  BY <1>1, BucketsTyped DEF BucketsInv, RatesInv
<1>4. ASSUME NEW c \in Buckets PROVE debt'[c] <= Burst(c[2])' * Period(c[2])'
  BY <1>1, RatesUnchanged DEF BucketsInv
<1>5. 0 * Period(b[2])' <= debt'[b] + 0
  BY <1>1, <1>3, RatesUnchanged
<1>6. QED
  BY <1>1, <1>2, <1>3, <1>4, <1>5 DEF BucketsInv

\* What touches no bucket keeps the bound.
LEMMA BucketsUnchanged ==
    BucketsInv /\ UNCHANGED <<phase, config, debt, window>> => BucketsInv'
BY DEF BucketsInv, Burst, Period, RatePerMinute

\* No step lets a window run past its bound.
LEMMA BucketsNext == RatesInv /\ RatesInv' /\ BucketsInv /\ [Next]_vars => BucketsInv'
<1> SUFFICES ASSUME RatesInv, RatesInv', BucketsInv, [Next]_vars PROVE BucketsInv'
  OBVIOUS
<1>1. CASE Start
  BY <1>1, BucketsStart
<1>2. ASSUME NEW p \in Peers, NEW route \in {"search", "stats", "extract"}, Limit(p, route)
      PROVE  BucketsInv'
  BY <1>2, BucketsUnchanged DEF Limit
<1>3. ASSUME NEW p \in Peers, NEW route \in {"search", "stats", "extract"}, Admit(p, route)
      PROVE  BucketsInv'
  BY <1>3, BucketsAdmit
<1>4. ASSUME NEW route \in {"live", "ready"}, Health(route) PROVE BucketsInv'
  BY <1>4, BucketsUnchanged DEF Health
<1>5. ASSUME NEW route \in {"search", "stats", "extract", "live", "ready", "unknown"},
             TurnAway(route)
      PROVE  BucketsInv'
  BY <1>5, BucketsUnchanged DEF TurnAway
<1>6. CASE Tick
  BY <1>6, BucketsTick
<1>7. ASSUME NEW b \in Buckets, Watch(b) PROVE BucketsInv'
  BY <1>7, BucketsWatch
<1>8. CASE UNCHANGED vars
  BY <1>8, BucketsUnchanged DEF vars
<1>9. QED
  BY <1>1, <1>2, <1>3, <1>4, <1>5, <1>6, <1>7, <1>8 DEF Next

\* And what was paid for bounds what was let in.
LEMMA BucketsBound == RatesInv /\ BucketsInv => WindowBounded
<1> SUFFICES ASSUME RatesInv, BucketsInv, window # Closed
             PROVE  window.admitted <= Burst(window.bucket[2])
                                       + window.age \div Period(window.bucket[2])
  BY DEF WindowBounded
<1> DEFINE b == window.bucket
<1>1. b \in Buckets /\ b # <<>> /\ phase = "serving"
      /\ window.age \in Nat /\ window.admitted \in Nat
  BY DEF BucketsInv
<1>2. /\ window.admitted * Period(b[2]) <= debt[b] + window.age
      /\ debt[b] <= Burst(b[2]) * Period(b[2])
      /\ Burst(b[2]) \in Nat /\ Period(b[2]) \in Nat \ {0} /\ debt[b] \in Nat
  BY <1>1 DEF BucketsInv, RatesInv
<1>3. window.admitted * Period(b[2]) <= Burst(b[2]) * Period(b[2]) + window.age
  BY <1>1, <1>2
<1>4. QED
  BY <1>1, <1>2, <1>3, PaidFor

\* Whatever the rate, the number of clients and the way they spread their
\* requests, no window of any length lets in more than a full bucket and one
\* request per period.
THEOREM NoWindowOverrun == Spec => []WindowBounded
<1>1. Spec => []RatesInv
  BY StartSound, RatesSound, PTL
<1>2. QED
  BY <1>1, BucketsInit, BucketsNext, BucketsBound, PTL DEF Spec

-----------------------------------------------------------------------------
(* What RefusalsEnd rests on                                               *)

\* Ticks until a refused client is let in again, if nobody else uses up what
\* it is waiting for, which nobody can.
Wait(b) == debt[b] - (Burst(b[2]) - 1) * Period(b[2])

\* A client that is refused is never more than a period away from its next
\* request, however hard it has pressed (http.rs:419-443).
RefusalsShort == \A b \in Buckets : Serves /\ Spent(b) => Wait(b) \in 1..Period(b[2])

\* While a client is refused its wait only gets shorter: each tick takes one
\* off, nothing it or anybody else sends adds to it, and the rates stay
\* (http.rs:419-461).
RefusalsCostNothing ==
    Serves =>
        /\ Serves' /\ config' = config
        /\ \A b \in Buckets :
              Spent(b) => IF Tick THEN Wait(b)' = Wait(b) - 1 ELSE Wait(b)' = Wait(b)

\* What a bucket owes is no more than it holds.
THEOREM RefusalsAreShort == Spec => []RefusalsShort
<1>1. RatesInv /\ BucketsInv => RefusalsShort
  <2> SUFFICES ASSUME RatesInv, BucketsInv, NEW b \in Buckets, Serves, Spent(b)
               PROVE  Wait(b) \in 1..Period(b[2])
    BY DEF RefusalsShort
  <2> DEFINE burst == Burst(b[2])
             period == Period(b[2])
  <2>1. phase = "serving"
    BY DEF Serves, Serving
  <2>2. burst \in Nat \ {0} /\ period \in Nat \ {0} /\ debt[b] \in Nat
        /\ debt[b] <= burst * period /\ debt[b] > (burst - 1) * period
        /\ Wait(b) = debt[b] - (burst - 1) * period
    BY <2>1 DEF RatesInv, BucketsInv, Spent, Wait
  <2> HIDE DEF burst, period
  <2>3. (burst - 1) * period + period = burst * period /\ (burst - 1) * period \in Nat
    BY <2>2
  <2>4. Wait(b) \in 1..period
    BY <2>2, <2>3
  <2>5. QED
    BY <2>4 DEF period
<1>2. Spec => []RatesInv
  BY StartSound, RatesSound, PTL
<1>3. QED
  BY <1>1, <1>2, BucketsInit, BucketsNext, PTL DEF Spec

\* A refused client waits for time and for nothing else.
THEOREM RefusalsAreFree == Spec => [][RefusalsCostNothing]_vars
<1>1. ASSUME RatesInv, BucketsInv, Next PROVE RefusalsCostNothing
  <2> SUFFICES ASSUME Serves
               PROVE  /\ Serves' /\ config' = config
                      /\ \A b \in Buckets :
                            Spent(b) => IF Tick THEN Wait(b)' = Wait(b) - 1
                                        ELSE Wait(b)' = Wait(b)
    BY DEF RefusalsCostNothing
  <2>1. phase = "serving" /\ ~Start
    BY StartsBeforeServing DEF Serves, Serving, Start
  <2>2. UNCHANGED <<sources, phase, config, started>>
    BY <1>1, <2>1 DEF Next, Limit, Admit, Health, TurnAway, Tick, Watch
  <2>3. Serves'
    BY <2>2 DEF Serves, Serving
  <2>4. ASSUME NEW b \in Buckets, Spent(b)
        PROVE  IF Tick THEN Wait(b)' = Wait(b) - 1 ELSE Wait(b)' = Wait(b)
    <3>1. Burst(b[2])' = Burst(b[2]) /\ Period(b[2])' = Period(b[2])
      BY <2>2, RatesUnchanged
    <3>2. debt[b] \in Nat /\ Burst(b[2]) \in Nat \ {0} /\ Period(b[2]) \in Nat \ {0}
      BY <1>1, <2>1 DEF BucketsInv, RatesInv
    <3>3. (Burst(b[2]) - 1) * Period(b[2]) \in Nat
      BY <3>2
    <3>4. debt[b] > 0
      BY <2>4, <3>2, <3>3 DEF Spent
    <3>5. CASE Tick
      <4>1. debt'[b] = debt[b] - 1
        BY <3>2, <3>4, <3>5 DEF Tick
      <4>2. Wait(b)' = Wait(b) - 1
        BY <3>1, <3>2, <3>3, <4>1 DEF Wait
      <4>3. QED
        BY <3>5, <4>2
    <3>6. CASE ~Tick
      <4>1. debt'[b] = debt[b]
        <5>1. CASE debt' = debt
          BY <5>1
        <5>2. ASSUME NEW p \in Peers, NEW route \in {"search", "stats", "extract"},
                     Admit(p, route)
              PROVE  debt'[b] = debt[b]
          <6>1. b # <<p, GroupOf(route)>>
            BY <2>4, <5>2 DEF Admit
          <6>2. debt' = [debt EXCEPT ![<<p, GroupOf(route)>>] =
                            @ + Period(<<p, GroupOf(route)>>[2])]
            BY <5>2 DEF Admit, Pay
          <6>3. QED
            BY <1>1, <6>1, <6>2 DEF BucketsInv
        <5>3. QED
          BY <1>1, <2>1, <3>6, <5>1, <5>2 DEF Next, Limit, Health, TurnAway, Watch
      <4>2. Wait(b)' = Wait(b)
        BY <3>1, <4>1 DEF Wait
      <4>3. QED
        BY <3>6, <4>2
    <3>7. QED
      BY <3>5, <3>6
  <2>5. QED
    BY <2>2, <2>3, <2>4
<1>2. RatesInv /\ BucketsInv /\ [Next]_vars => [RefusalsCostNothing]_vars
  BY <1>1
<1>3. Spec => []RatesInv
  BY StartSound, RatesSound, PTL
<1>4. QED
  BY <1>2, <1>3, BucketsInit, BucketsNext, PTL DEF Spec
=============================================================================
