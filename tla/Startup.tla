------------------------------ MODULE Startup ------------------------------
(***************************************************************************)
(* From the command line to a process that serves: main in main.rs, and    *)
(* Config::load and Config::validate in config.rs.  A step is what main    *)
(* does between two points at which it may fail.                           *)
(*                                                                         *)
(* A setting has a value in serica.toml, in the environment, in both or in *)
(* neither.  Numbers are small; a text is "good", "bad" (not parsable) or  *)
(* one of the few words the code looks for: "empty", which stands for an   *)
(* unset one wherever main or config.rs asks is_empty, and "spaces", which *)
(* does not.                                                               *)
(***************************************************************************)
EXTENDS Naturals, FiniteSets

CONSTANTS
    Sources,   \* [path, file, env, command, feature, listening]
    Default,   \* Config::default
    Unset,     \* None
    IllTyped,  \* a value of another type than the setting's
    MinRaw,    \* 64 KiB, in the unit of max_raw_bytes
    MaxRaw     \* 16 MiB

\* The settings that are unsigned integers in the Rust structure.
Numbers ==
    {"rate_limit_per_minute", "max_concurrent_extracts", "max_results_per_page",
     "timeout_ms", "max_content_chars", "ttl_seconds", "extract_ttl_seconds",
     "safe_search_default", "max_raw_bytes"}

ASSUME StartupAssumption ==
    /\ MinRaw \in Nat /\ MaxRaw \in Nat
    /\ \A s \in Sources : DOMAIN s.file \cup DOMAIN s.env \subseteq DOMAIN Default
    /\ Numbers \subseteq DOMAIN Default
    /\ \A n \in Numbers :
          /\ Default[n] \in Nat
          /\ \A s \in Sources : \A layer \in {s.file, s.env} :
                n \in DOMAIN layer => layer[n] = IllTyped \/ layer[n] \in Nat

VARIABLES
    sources,   \* what this process was started with
    phase,     \* how far main has come
    config,    \* the configuration, once loaded
    started    \* [logs, cache, monitor]: what the process has set going

startVars == <<sources, phase, config, started>>

-----------------------------------------------------------------------------
(* Configuration                                                           *)

\* An empty path counts as none, one of spaces names a file that is not there.
PathFound(s) == s.path \in {"empty", "found"}

\* Figment merges the defaults, the file and the environment, in that order.
Merged(s) ==
    [f \in DOMAIN Default |->
        IF f \in DOMAIN s.env THEN s.env[f]
        ELSE IF f \in DOMAIN s.file THEN s.file[f]
        ELSE Default[f]]

\* An explicit path must lead to a file, and what is merged must fit the types.
Loadable(s) ==
    PathFound(s) /\ \A f \in DOMAIN Default : Merged(s)[f] # IllTyped

\* A url that is set must parse, which neither an empty one nor spaces do.
ProxySound(url) == url = Unset \/ url = "good"

\* Bug: the upper bound of the permits is not looked at, nor zero.
Bug_PermitsUnchecked(c) ==
    /\ c.rate_limit_per_minute >= 1
    /\ c.port # 0
    /\ c.max_results_per_page \in 1..100
    /\ c.ttl_seconds >= 1 /\ c.extract_ttl_seconds >= 1
    /\ c.safe_search_default <= 2
    /\ c.log_level = "good" /\ c.log_format \in {"json", "pretty"}
    /\ c.max_content_chars >= 1
    /\ c.output_format \in {"text", "markdown"}
    /\ c.max_raw_bytes \in MinRaw..MaxRaw
    /\ c.timeout_ms >= 1
    /\ ProxySound(c.search_url) /\ ProxySound(c.extract_url)

validate(c) ==
    /\ c.rate_limit_per_minute >= 1
    /\ c.port # 0
    /\ c.max_results_per_page \in 1..100
    /\ c.ttl_seconds >= 1 /\ c.extract_ttl_seconds >= 1
    /\ c.safe_search_default <= 2
    /\ c.log_level = "good" /\ c.log_format \in {"json", "pretty"}
    /\ c.max_content_chars >= 1
    /\ c.output_format \in {"text", "markdown"}
    /\ c.max_raw_bytes \in MinRaw..MaxRaw
    /\ c.timeout_ms >= 1
    /\ c.max_concurrent_extracts \in 1..16
    /\ ProxySound(c.search_url) /\ ProxySound(c.extract_url)

-----------------------------------------------------------------------------
(* main                                                                    *)

GoOn(p) == phase' = p /\ UNCHANGED <<sources, config>>

Fail(where) == phase = where /\ GoOn("failed") /\ UNCHANGED started

Load ==
    /\ phase = "load" /\ Loadable(sources)
    /\ phase' = "validate"
    /\ config' = Merged(sources)
    /\ UNCHANGED <<sources, started>>

LoadFails == Fail("load") /\ ~Loadable(sources)

Validate ==
    /\ phase = "validate" /\ validate(config)
    /\ GoOn("command")
    /\ UNCHANGED started

ValidateFails == Fail("validate") /\ ~validate(config)

\* run_healthcheck asks 127.0.0.1 at the configured port: a server that is
\* bound to another address does not hear it, one that does may be too slow,
\* and what answers with no 2xx ("other") is as bad as what does not answer.
Healthcheck ==
    /\ phase = "command" /\ sources.command = "healthcheck"
    /\ \/ /\ sources.listening = "serica" /\ config.host \in {"127.0.0.1", "0.0.0.0"}
          /\ GoOn("healthy")
       \/ GoOn("failed")
    /\ UNCHANGED started

\* check_mcp_enabled
McpDisabled == Fail("command") /\ sources.command = "mcp" /\ ~config.mcp_enabled

\* init_logging: stdout belongs to JSON-RPC when the process is an MCP server.
InitLogging ==
    /\ phase = "command" /\ sources.command # "healthcheck"
    /\ sources.command = "mcp" => config.mcp_enabled
    /\ GoOn("cache")
    /\ started' = [started EXCEPT !.logs =
          IF sources.command = "mcp" THEN "stderr" ELSE "stdout"]

RedisWanted == config.redis_url \notin {Unset, "empty"}

\* A lazy handle connects to nothing here; a url Redis' client cannot read
\* leaves the process without a cache.
OpenCache ==
    /\ phase = "cache" /\ (RedisWanted => sources.feature)
    /\ GoOn("engine")
    /\ started' = [started EXCEPT !.cache =
          IF RedisWanted /\ config.redis_url = "good" THEN "redis" ELSE "noop"]

RedisNotBuiltIn == Fail("cache") /\ RedisWanted /\ ~sources.feature

\* The engine's client, the extract limiter, the gateway.
BuildEngine ==
    /\ phase = "engine"
    /\ GoOn(IF sources.command = "mcp" THEN "serving" ELSE "router")
    /\ started' = [started EXCEPT !.monitor = (sources.command = "server")]

\* A proxy whose url parses may still be none for the client.
EngineFails == Fail("engine") /\ config.search_url # Unset

\* build_cors_layer: any other origin must be a header value, as spaces are.
CorsSound == config.origin \in {Unset, "empty", "*", "good", "spaces"}

Router ==
    /\ phase = "router" /\ CorsSound
    /\ GoOn("bind")
    /\ UNCHANGED started

RouterFails == Fail("router") /\ ~CorsSound

\* The address is parsed (a host name is no address: a panic), then bound.
Bind ==
    /\ phase = "bind" /\ config.host # "name"
    /\ GoOn("serving")
    /\ UNCHANGED started

BindFails == Fail("bind")

StartInit ==
    /\ sources \in Sources
    /\ phase = "load"
    /\ config = Default
    /\ started = [logs |-> "none", cache |-> "none", monitor |-> FALSE]

StartNext ==
    \/ Load \/ LoadFails \/ Validate \/ ValidateFails
    \/ Healthcheck \/ McpDisabled \/ InitLogging
    \/ OpenCache \/ RedisNotBuiltIn \/ BuildEngine \/ EngineFails
    \/ Router \/ RouterFails \/ Bind \/ BindFails

Serving(command) == phase = "serving" /\ sources.command = command

-----------------------------------------------------------------------------
(* Properties                                                              *)

\* Whatever the three layers of settings and the order of the checks, a
\* process that serves has what the rest of the system takes for granted: a
\* permit to hand out and a page to fill, entries that Redis accepts, a level
\* the filter knows, a page size the fetch can bound; an MCP server is one
\* that is wanted and leaves stdout to the answers; a Redis that was asked
\* for by a readable url is not silently left out; and a probe is healthy
\* only where a server listens (config.rs:213-351, main.rs:44-222).
ServesOnlySound ==
    /\ phase = "serving" =>
          /\ config.rate_limit_per_minute \in Nat \ {0}
          /\ config.max_concurrent_extracts \in Nat \ {0}
          /\ config.max_results_per_page \in Nat \ {0}
          /\ config.timeout_ms > 0 /\ config.max_content_chars > 0
          /\ config.ttl_seconds > 0 /\ config.extract_ttl_seconds > 0
          /\ config.safe_search_default \in 0..2
          /\ config.max_raw_bytes <= MaxRaw
          /\ RedisWanted /\ config.redis_url = "good" => started.cache = "redis"
    /\ Serving("mcp") =>
          config.mcp_enabled /\ started.logs = "stderr" /\ ~started.monitor
    /\ Serving("server") => CorsSound /\ config.host # "name" /\ started.monitor
    /\ phase = "healthy" => sources.listening = "serica"
=============================================================================
