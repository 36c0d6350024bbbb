---------------------------- MODULE MCHttpRouter ----------------------------
EXTENDS HttpRouter, TLC

\* Sizes are in units of 64 KiB.
MCDefault ==
    [host |-> "127.0.0.1", port |-> 3000, log_level |-> "good", log_format |-> "json",
     rate_limit_per_minute |-> 2, api_key |-> Unset, max_concurrent_extracts |-> 2,
     max_results_per_page |-> 20, safe_search_default |-> 1, ttl_seconds |-> 300,
     extract_ttl_seconds |-> 3600, redis_url |-> Unset, mcp_enabled |-> TRUE,
     origin |-> Unset, max_content_chars |-> 50, output_format |-> "markdown",
     max_raw_bytes |-> 64, timeout_ms |-> 30, search_url |-> Unset, extract_url |-> Unset]

MCMinRaw == 1
MCMaxRaw == 256

\* Values at, below and above each limit.
One(f, values) == {f :> v : v \in values}

Bad ==
    One("port", {0, IllTyped}) \cup One("log_level", {"bad"}) \cup One("log_format", {"Pretty"})
    \cup One("rate_limit_per_minute", {0}) \cup One("max_concurrent_extracts", {0, 17})
    \cup One("max_results_per_page", {0, 101}) \cup One("safe_search_default", {3})
    \cup One("ttl_seconds", {0}) \cup One("extract_ttl_seconds", {0})
    \cup One("max_content_chars", {0}) \cup One("output_format", {"html"})
    \cup One("max_raw_bytes", {0, 257}) \cup One("timeout_ms", {0})
    \cup One("search_url", {"empty", "bad"}) \cup One("extract_url", {"spaces", "bad"})
    \cup One("origin", {"bad"}) \cup One("host", {"name"})

\* What the router makes something of, and what main does.
Routed ==
    One("rate_limit_per_minute", {1, 5}) \cup One("api_key", {"empty", "spaces", "set"})
    \cup One("origin", {"spaces"})

Wired ==
    One("redis_url", {"empty", "spaces", "good", "bad"}) \cup One("mcp_enabled", {FALSE})
    \cup One("max_concurrent_extracts", {16}) \cup One("search_url", {"good"})
    \cup One("origin", {"empty"})

Plain == {<<<<>>, <<>>>>}

\* Each setting from the file or from the environment, and a bad one in the
\* file that the environment puts right.
Served == Plain \cup {<<s, <<>>>> : s \in Bad \cup Routed} \cup {<<<<>>, s>> : s \in Bad}
Wirings == Served \cup {<<s, <<>>>> : s \in Wired}
Layers == Wirings \cup {<<s, [f \in DOMAIN s |-> MCDefault[f]]>> : s \in Bad}

Source(path, l, command, feature, listening) ==
    [path |-> path, file |-> l[1], env |-> l[2], command |-> command,
     feature |-> feature, listening |-> listening]

MCSources ==
    {Source("found", l, "server", TRUE, "nothing") : l \in Served}
    \cup {Source(path, l, "server", TRUE, "nothing") :
             path \in {"missing", "spaces"}, l \in Wirings}
    \cup {Source("empty", l, "server", FALSE, "nothing") : l \in {<<s, <<>>>> : s \in Bad}}
    \cup {Source("empty", l, "mcp", feature, "nothing") : l \in Layers, feature \in BOOLEAN}
    \cup {Source("empty", l, "healthcheck", TRUE, up) :
             l \in Wirings \cup {<<"host" :> h, <<>>>> : h \in {"0.0.0.0", "192.0.2.1"}},
             up \in {"nothing", "other", "serica"}}
=============================================================================
