----------------------------- MODULE HttpServer -----------------------------
(***************************************************************************)
(* The life of the HTTP server (src/src/main.rs): the graceful shutdown    *)
(* with its drain period up to the end of the process, the readiness       *)
(* route, the background health monitor behind it, and the load balancer   *)
(* the drain is there for, which polls readiness and routes requests to an *)
(* instance it believes ready.                                             *)
(***************************************************************************)
EXTENDS Naturals, FiniteSets

CONSTANTS
    Requests,       \* requests the load balancer may route here
    Parsing,        \* those whose handlers parse a page: extracts and searches
    Drains,         \* values of shutdown_drain_timeout_seconds, in ticks
    HandlerBudget,  \* the longest route timeout, in ticks
    ProbeEvery,     \* the monitor's interval (60s), in ticks
    ProbeBudget,    \* the engine client's timeout (10s), in ticks
    PollEvery       \* how often the load balancer polls, in ticks

ASSUME ServerAssumption ==
    /\ IsFiniteSet(Requests)
    /\ Drains \subseteq Nat
    /\ HandlerBudget \in Nat \ {0}
    /\ ProbeBudget \in Nat \ {0} /\ ProbeEvery \in Nat /\ ProbeEvery > ProbeBudget
    /\ PollEvery \in Nat \ {0}

VARIABLES
    drain,         \* server.shutdown_drain_timeout_seconds of this process
    phase,         \* serving, signalled, draining, closing, returned, exited
    shuttingDown,  \* is_shutting_down
    drainLeft,     \* ticks left of the drain sleep
    conn,          \* each request, as the load balancer sees it
    handlerLeft,   \* ticks left of each handler's route timeout
    job,           \* each handler's closure on the blocking pool
    healthy,       \* EngineHealth.healthy
    probe,         \* the monitor: "waiting" or "probing"
    probeIn,       \* ticks to the monitor's next interval
    probeLeft,     \* ticks left of the probe under way
    upstream,      \* DuckDuckGo: up, failing, silent
    inRotation,    \* the load balancer routes requests here
    poll,          \* its poll: none, what the handler read, or the answer
    pollIn         \* ticks to its next poll

serverVars == <<drain, phase, shuttingDown, drainLeft>>
trafficVars == <<conn, handlerLeft, job>>
monitorVars == <<healthy, probe, probeIn, probeLeft, upstream>>
balancerVars == <<inRotation, poll, pollIn>>
vars == <<serverVars, trafficVars, monitorVars, balancerVars>>

Listening == phase \in {"serving", "signalled", "draining"}

\* The runtime still polls its tasks.
Running == phase \notin {"returned", "exited"}

-----------------------------------------------------------------------------
(* Shutdown                                                                *)

Signal ==
    /\ phase = "serving"
    /\ phase' = "signalled"
    /\ UNCHANGED <<drain, shuttingDown, drainLeft, trafficVars, monitorVars, balancerVars>>

\* Bug: the flag is left for the end of the drain.
Bug_DrainUnmarked ==
    /\ phase = "signalled"
    /\ phase' = "draining"
    /\ drainLeft' = drain
    /\ UNCHANGED <<drain, shuttingDown, trafficVars, monitorVars, balancerVars>>

\* The flag first, then the sleep.
MarkNotReady ==
    /\ phase = "signalled"
    /\ phase' = "draining"
    /\ shuttingDown' = TRUE
    /\ drainLeft' = drain
    /\ UNCHANGED <<drain, trafficVars, monitorVars, balancerVars>>

\* The sleep is over: axum closes the listener.
CloseListener ==
    /\ phase = "draining"
    /\ drainLeft = 0
    /\ phase' = "closing"
    /\ UNCHANGED <<drain, shuttingDown, drainLeft, trafficVars, monitorVars, balancerVars>>

\* serve returns once the last connection is done: its request answered, and
\* the answer taken by the client.
ServeReturns ==
    /\ phase = "closing"
    /\ poll \notin {"healthy", "unhealthy"}
    /\ \A r \in Requests : conn[r] \notin {"open", "answered"}
    /\ phase' = "returned"
    /\ UNCHANGED <<drain, shuttingDown, drainLeft, trafficVars, monitorVars, balancerVars>>

\* main returns, and #[tokio::main] drops the runtime: its tasks are dropped
\* where they stand, a closure already on the blocking pool runs to its end.
Exit ==
    /\ phase = "returned"
    /\ \A r \in Requests : job[r] # "running"
    /\ phase' = "exited"
    /\ UNCHANGED <<drain, shuttingDown, drainLeft, trafficVars, monitorVars, balancerVars>>

-----------------------------------------------------------------------------
(* Requests                                                                *)

Route(r) ==
    /\ conn[r] = "new"
    /\ inRotation
    /\ conn' = [conn EXCEPT ![r] = "routed"]
    /\ UNCHANGED <<handlerLeft, job, serverVars, monitorVars, balancerVars>>

Accept(r) ==
    /\ conn[r] = "routed"
    /\ Listening
    /\ conn' = [conn EXCEPT ![r] = "open"]
    /\ handlerLeft' = [handlerLeft EXCEPT ![r] = HandlerBudget]
    /\ UNCHANGED <<job, serverVars, monitorVars, balancerVars>>

Refuse(r) ==
    /\ conn[r] = "routed"
    /\ ~Listening
    /\ conn' = [conn EXCEPT ![r] = "refused"]
    /\ UNCHANGED <<handlerLeft, job, serverVars, monitorVars, balancerVars>>

\* Bug: a handler is not bounded by a TimeoutLayer.
Bug_RespondUntimed(r) ==
    /\ conn[r] = "open"
    /\ handlerLeft[r] > 0
    /\ conn' = [conn EXCEPT ![r] = "answered"]
    /\ handlerLeft' = [handlerLeft EXCEPT ![r] = 0]
    /\ UNCHANGED <<job, serverVars, monitorVars, balancerVars>>

\* The handler answers, or one of its timeouts does, whatever its job is at.
Respond(r) ==
    /\ conn[r] = "open"
    /\ conn' = [conn EXCEPT ![r] = "answered"]
    /\ handlerLeft' = [handlerLeft EXCEPT ![r] = 0]
    /\ UNCHANGED <<job, serverVars, monitorVars, balancerVars>>

HandlerDue(r) == conn[r] = "open" /\ handlerLeft[r] = 0

\* The client has taken all of its answer; nothing makes it.
Written(r) ==
    /\ conn[r] = "answered"
    /\ conn' = [conn EXCEPT ![r] = "served"]
    /\ UNCHANGED <<handlerLeft, job, serverVars, monitorVars, balancerVars>>

\* A handler gives its page to spawn_blocking ...
JobStarts(r) ==
    /\ r \in Parsing
    /\ conn[r] = "open" /\ job[r] = "none"
    /\ job' = [job EXCEPT ![r] = "running"]
    /\ UNCHANGED <<conn, handlerLeft, serverVars, monitorVars, balancerVars>>

\* ... where the parse ends in its own time, waited for or not.
JobEnds(r) ==
    /\ job[r] = "running"
    /\ job' = [job EXCEPT ![r] = "ended"]
    /\ UNCHANGED <<conn, handlerLeft, serverVars, monitorVars, balancerVars>>

-----------------------------------------------------------------------------
(* The health monitor                                                      *)

\* Bug: the interval is as short as a failing probe is long.
Bug_ProbeTooOften ==
    /\ probe = "waiting" /\ probeIn = 0
    /\ probe' = "probing"
    /\ probeIn' = ProbeBudget - 1
    /\ probeLeft' = ProbeBudget
    /\ UNCHANGED <<healthy, upstream, serverVars, trafficVars, balancerVars>>

ProbeStarts ==
    /\ probe = "waiting" /\ probeIn = 0
    /\ probe' = "probing"
    /\ probeIn' = ProbeEvery
    /\ probeLeft' = ProbeBudget
    /\ UNCHANGED <<healthy, upstream, serverVars, trafficVars, balancerVars>>

\* Bug: only failures are recorded.
Bug_RecordFailure ==
    /\ probe = "probing"
    /\ upstream # "silent" \/ probeLeft = 0
    /\ healthy' = (healthy /\ upstream = "up")
    /\ probe' = "waiting"
    /\ probeLeft' = 0
    /\ UNCHANGED <<probeIn, upstream, serverVars, trafficVars, balancerVars>>

\* probe_upstream returns, at the latest with its client's timeout, and its
\* verdict is recorded.
ProbeEnds ==
    /\ probe = "probing"
    /\ upstream # "silent" \/ probeLeft = 0
    /\ healthy' = (upstream = "up")
    /\ probe' = "waiting"
    /\ probeLeft' = 0
    /\ UNCHANGED <<probeIn, upstream, serverVars, trafficVars, balancerVars>>

UpstreamChanges ==
    /\ \E mode \in {"up", "failing", "silent"} \ {upstream} : upstream' = mode
    /\ UNCHANGED <<healthy, probe, probeIn, probeLeft, serverVars, trafficVars,
                   balancerVars>>

-----------------------------------------------------------------------------
(* The load balancer, and time                                             *)

\* health_ready_handler reads engine_healthy ...
PollReads ==
    /\ poll = "none" /\ pollIn = 0
    /\ Listening
    /\ poll' = IF healthy THEN "healthy" ELSE "unhealthy"
    /\ UNCHANGED <<inRotation, pollIn, serverVars, trafficVars, monitorVars>>

\* Bug: readiness only looks at the engine.
Bug_PollIgnoresShutdown ==
    /\ poll \in {"healthy", "unhealthy"}
    /\ poll' = IF poll = "healthy" THEN "ok" ELSE "unavailable"
    /\ UNCHANGED <<inRotation, pollIn, serverVars, trafficVars, monitorVars>>

\* ... and then is_shutting_down, and answers 200 or 503.
PollAnswers ==
    /\ poll \in {"healthy", "unhealthy"}
    /\ poll' = IF poll = "healthy" /\ ~shuttingDown THEN "ok" ELSE "unavailable"
    /\ UNCHANGED <<inRotation, pollIn, serverVars, trafficVars, monitorVars>>

\* The answer reaches the balancer, whatever happened to the server since.
PollReceived ==
    /\ poll \in {"ok", "unavailable"}
    /\ inRotation' = (poll = "ok")
    /\ poll' = "none"
    /\ pollIn' = PollEvery
    /\ UNCHANGED <<serverVars, trafficVars, monitorVars>>

PollRefused ==
    /\ poll = "none" /\ pollIn = 0
    /\ ~Listening
    /\ inRotation' = FALSE
    /\ pollIn' = PollEvery
    /\ UNCHANGED <<poll, serverVars, trafficVars, monitorVars>>

Less(n) == IF n = 0 THEN 0 ELSE n - 1

\* What is due is done, and what is on the wire arrives, within a tick.
Tick ==
    /\ phase # "signalled"
    /\ ~(phase = "draining" /\ drainLeft = 0)
    /\ poll = "none" /\ pollIn > 0
    /\ \/ ~Running
       \/ ~(probe = "waiting" /\ probeIn = 0) /\ ~(probe = "probing" /\ probeLeft = 0)
    /\ \A r \in Requests : conn[r] # "routed" /\ ~HandlerDue(r)
    /\ drainLeft' = Less(drainLeft)
    /\ handlerLeft' = [r \in Requests |-> Less(handlerLeft[r])]
    /\ probeIn' = Less(probeIn)
    /\ probeLeft' = Less(probeLeft)
    /\ pollIn' = pollIn - 1
    /\ UNCHANGED <<drain, phase, shuttingDown, conn, job, healthy, probe, upstream,
                   inRotation, poll>>

-----------------------------------------------------------------------------
\* The monitor starts optimistic, with its first probe due at once.
Init ==
    /\ drain \in Drains
    /\ phase = "serving" /\ shuttingDown = FALSE /\ drainLeft = 0
    /\ conn = [r \in Requests |-> "new"]
    /\ handlerLeft = [r \in Requests |-> 0]
    /\ job = [r \in Requests |-> "none"]
    /\ healthy = TRUE /\ probe = "waiting" /\ probeIn = 0 /\ probeLeft = 0
    /\ upstream \in {"up", "failing", "silent"}
    /\ inRotation = FALSE /\ poll = "none" /\ pollIn = 0

Next ==
    \/ Signal \/ MarkNotReady \/ CloseListener \/ ServeReturns \/ Exit
    \/ \E r \in Requests :
          \/ Route(r) \/ Accept(r) \/ Refuse(r) \/ Respond(r) \/ Written(r)
          \/ JobStarts(r) \/ JobEnds(r)
    \/ Running /\ (ProbeStarts \/ ProbeEnds)
    \/ UpstreamChanges
    \/ PollReads \/ PollAnswers \/ PollReceived \/ PollRefused
    \/ Tick

(* Timers fire and the balancer polls.  Signals, requests and DuckDuckGo   *)
(* come and go as they please, a handler answers by its timeout, and       *)
(* nothing is assumed of a client that should read or a parse that should  *)
(* end.                                                                    *)
Fairness ==
    /\ WF_vars(Tick)
    /\ WF_vars(MarkNotReady) /\ WF_vars(CloseListener)
    /\ WF_vars(ServeReturns) /\ WF_vars(Exit)
    /\ WF_vars(Running /\ ProbeStarts)
    /\ WF_vars(Running /\ probeLeft = 0 /\ ProbeEnds)
    /\ WF_vars(Running /\ upstream # "silent" /\ ProbeEnds)
    /\ WF_vars(PollReads) /\ WF_vars(PollAnswers)
    /\ WF_vars(PollReceived) /\ WF_vars(PollRefused)
    /\ \A r \in Requests :
          /\ WF_vars(Accept(r) \/ Refuse(r))
          /\ WF_vars(HandlerDue(r) /\ Respond(r))

Spec == Init /\ [][Next]_vars /\ Fairness

-----------------------------------------------------------------------------
(* Properties                                                              *)

\* Types; no timer is overdrawn, and a probe is over before the next is due,
\* so that missed intervals never pile up (duckduckgo.rs:561-570).
TypeOK ==
    /\ phase \in {"serving", "signalled", "draining", "closing", "returned", "exited"}
    /\ shuttingDown \in BOOLEAN
    /\ drain \in Drains /\ drainLeft \in 0..drain
    /\ conn \in [Requests -> {"new", "routed", "open", "answered", "served", "refused"}]
    /\ handlerLeft \in [Requests -> 0..HandlerBudget]
    /\ job \in [Requests -> {"none", "running", "ended"}]
    /\ healthy \in BOOLEAN
    /\ probe \in {"waiting", "probing"}
    /\ probeIn \in 0..ProbeEvery /\ probeLeft \in 0..ProbeBudget
    /\ upstream \in {"up", "failing", "silent"}
    /\ inRotation \in BOOLEAN
    /\ poll \in {"none", "healthy", "unhealthy", "ok", "unavailable"}
    /\ pollIn \in 0..PollEvery
    /\ probe = "probing" => probeLeft <= probeIn

\* A shutdown loses no request: if the drain is longer than the balancer's
\* polling interval, every request it routed here is accepted, and its client
\* has the answer before serve returns and the runtime drops the handlers
\* (main.rs:43, 232-257, http.rs:547-561).
NoRequestLost ==
    drain > PollEvery =>
        \A r \in Requests :
            /\ conn[r] # "refused"
            /\ ~Running => conn[r] \in {"new", "served"}

\* A 200 sent before the flag was set may arrive after it and bring the
\* instance back once; but one polling interval into the shutdown the balancer
\* has it out, and out it stays, whatever polls overlapped with the signal and
\* with the listener's end (main.rs:235-246, http.rs:547-561).
OutInTime ==
    /\ phase = "draining" /\ drain - drainLeft > PollEvery => ~inRotation
    /\ ~Listening /\ drain > PollEvery => ~inRotation

\* What keeps the process and no timer ends: a client that does not take its
\* answer, a parse that does not end.
Held == \E r \in Requests : conn[r] = "answered" \/ job[r] = "running"

\* A signal ends the process, through the drain, the handlers, serve's return
\* and the drop of the runtime, unless a client that does not read or a parse
\* that does not end keeps it for ever (main.rs:43, 232-257).
ShutdownCompletes == <>[]~Held => (phase = "signalled" ~> phase = "exited")

\* An instance that is not shutting down gets its traffic back once its
\* upstream answers for good, although nobody but the monitor ever looks
\* (duckduckgo.rs:561-570, http.rs:547-561).
ReadinessRecovers ==
    <>[](upstream = "up" /\ phase = "serving") => <>[]inRotation
=============================================================================
