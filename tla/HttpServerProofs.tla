-------------------------- MODULE HttpServerProofs --------------------------
(***************************************************************************)
(* What holds of HttpServer for any number of requests and any values of   *)
(* its timeouts: a drain longer than the balancer's interval is enough.    *)
(***************************************************************************)
EXTENDS HttpServer, TLAPS

Phases == {"serving", "signalled", "draining", "closing", "returned", "exited"}
Connections == {"new", "routed", "open", "answered", "served", "refused"}
Jobs == {"none", "running", "ended"}
Polls == {"none", "healthy", "unhealthy", "ok", "unavailable"}

\* The steps of Next by what they belong to.
ShutdownStep == Signal \/ MarkNotReady \/ CloseListener \/ ServeReturns \/ Exit
RequestStep(r) ==
    \/ Route(r) \/ Accept(r) \/ Refuse(r) \/ Respond(r) \/ Written(r)
    \/ JobStarts(r) \/ JobEnds(r)
MonitorStep == (Running /\ (ProbeStarts \/ ProbeEnds)) \/ UpstreamChanges
PollStep == PollReads \/ PollAnswers \/ PollReceived \/ PollRefused

\* Together they are Next.
LEMMA Steps ==
    Next <=> \/ ShutdownStep \/ MonitorStep \/ PollStep \/ Tick
             \/ \E r \in Requests : RequestStep(r)
BY DEF Next, ShutdownStep, RequestStep, MonitorStep, PollStep

\* Numbers of ticks, and what is left of them a tick later.
LEMMA Numbers ==
    /\ HandlerBudget \in Nat \ {0} /\ ProbeBudget \in Nat \ {0}
    /\ ProbeEvery \in Nat /\ ProbeEvery > ProbeBudget
    /\ PollEvery \in Nat \ {0} /\ \A d \in Drains : d \in Nat
    /\ \A n \in Nat : \A k \in 0..n : Less(k) \in 0..n
BY ServerAssumption DEF Less

-----------------------------------------------------------------------------
(* Types                                                                   *)

\* All timers are off when the process starts.
LEMMA TypesInit == Init => TypeOK
<1> SUFFICES ASSUME Init PROVE TypeOK
  OBVIOUS
<1>1. drain \in Drains /\ drainLeft \in 0..drain
  BY Numbers DEF Init
<1>2. handlerLeft \in [Requests -> 0..HandlerBudget]
  BY Numbers DEF Init
<1>3. probeIn \in 0..ProbeEvery /\ probeLeft \in 0..ProbeBudget /\ pollIn \in 0..PollEvery
  BY Numbers DEF Init
<1>4. QED
  BY <1>1, <1>2, <1>3 DEF Init, TypeOK

\* The drain's timer is set to the drain time.
LEMMA TypesShutdown == TypeOK /\ ShutdownStep => TypeOK'
<1> SUFFICES ASSUME TypeOK, ShutdownStep PROVE TypeOK'
  OBVIOUS
<1> USE DEF ShutdownStep, Signal, MarkNotReady, CloseListener, ServeReturns, Exit
<1>1. drain' \in Drains /\ drainLeft' \in 0..drain'
  BY Numbers DEF TypeOK
<1>2. /\ phase' \in Phases
      /\ shuttingDown' \in BOOLEAN
  BY DEF TypeOK, Phases
<1>3. UNCHANGED <<trafficVars, monitorVars, balancerVars>>
  OBVIOUS
<1>4. QED
  BY <1>1, <1>2, <1>3 DEF TypeOK, Phases, trafficVars, monitorVars, balancerVars

\* A handler's timer is set to its route's budget.
LEMMA TypesRequest ==
    ASSUME TypeOK, NEW r \in Requests, RequestStep(r)
    PROVE  TypeOK'
<1> USE DEF RequestStep, Route, Accept, Refuse, Respond, Written, JobStarts, JobEnds
<1>1. /\ conn' \in [Requests -> Connections]
      /\ handlerLeft' \in [Requests -> 0..HandlerBudget]
  BY Numbers DEF TypeOK, Connections
<1>2. job' \in [Requests -> Jobs]
  BY DEF TypeOK, Jobs
<1>3. UNCHANGED <<serverVars, monitorVars, balancerVars>>
  OBVIOUS
<1>4. QED
  BY <1>1, <1>2, <1>3 DEF TypeOK, serverVars, monitorVars, balancerVars, Connections, Jobs

\* The monitor's interval is longer than a probe.
LEMMA TypesMonitor == TypeOK /\ MonitorStep => TypeOK'
<1> SUFFICES ASSUME TypeOK, ProbeStarts \/ ProbeEnds \/ UpstreamChanges PROVE TypeOK'
  BY DEF MonitorStep
<1>1. probeIn' \in 0..ProbeEvery /\ probeLeft' \in 0..ProbeBudget
      /\ (probe' = "probing" => probeLeft' <= probeIn')
  BY Numbers DEF TypeOK, ProbeStarts, ProbeEnds, UpstreamChanges
<1>2. healthy' \in BOOLEAN
  BY DEF TypeOK, ProbeStarts, ProbeEnds, UpstreamChanges
<1>3. probe' \in {"waiting", "probing"} /\ upstream' \in {"up", "failing", "silent"}
  BY DEF TypeOK, ProbeStarts, ProbeEnds, UpstreamChanges
<1>4. UNCHANGED <<serverVars, trafficVars, balancerVars>>
  BY DEF ProbeStarts, ProbeEnds, UpstreamChanges
<1>5. QED
  BY <1>1, <1>2, <1>3, <1>4 DEF TypeOK, serverVars, trafficVars, balancerVars

\* The balancer's timer is set to its interval.
LEMMA TypesPoll == TypeOK /\ PollStep => TypeOK'
<1> SUFFICES ASSUME TypeOK, PollStep PROVE TypeOK'
  OBVIOUS
<1> USE DEF PollStep, PollReads, PollAnswers, PollReceived, PollRefused
<1>1. pollIn' \in 0..PollEvery /\ poll' \in Polls
  BY Numbers DEF TypeOK, Polls
<1>2. inRotation' \in BOOLEAN
  BY DEF TypeOK
<1>3. UNCHANGED <<serverVars, trafficVars, monitorVars>>
  OBVIOUS
<1>4. QED
  BY <1>1, <1>2, <1>3 DEF TypeOK, Polls, serverVars, trafficVars, monitorVars

\* A tick takes one from every timer that runs.
LEMMA TypesTick == TypeOK /\ Tick => TypeOK'
<1> SUFFICES ASSUME TypeOK, Tick PROVE TypeOK'
  OBVIOUS
<1>1. drain \in Nat /\ drainLeft' \in 0..drain
  BY Numbers DEF TypeOK, Tick
<1>2. handlerLeft' \in [Requests -> 0..HandlerBudget]
  BY Numbers DEF TypeOK, Tick
<1>3. probeIn' \in 0..ProbeEvery /\ probeLeft' \in 0..ProbeBudget /\ pollIn' \in 0..PollEvery
  BY Numbers DEF TypeOK, Tick
<1>4. probe' = "probing" => probeLeft' <= probeIn'
  BY Numbers DEF TypeOK, Tick, Less
<1>5. QED
  BY <1>1, <1>2, <1>3, <1>4 DEF TypeOK, Tick

\* Every step keeps the types.
LEMMA TypesNext == TypeOK /\ [Next]_vars => TypeOK'
<1> SUFFICES ASSUME TypeOK, [Next]_vars PROVE TypeOK'
  OBVIOUS
<1>1. CASE UNCHANGED vars
  BY <1>1 DEF vars, TypeOK, serverVars, trafficVars, monitorVars, balancerVars
<1>2. QED
  BY <1>1, Steps, TypesShutdown, TypesRequest, TypesMonitor, TypesPoll, TypesTick

\* No timer is overdrawn, and no probe outlives the monitor's interval.
THEOREM ServerTypes == Spec => []TypeOK
BY TypesInit, TypesNext, PTL DEF Spec

-----------------------------------------------------------------------------
(* The shutdown                                                            *)

Routed == \E r \in Requests : conn[r] = "routed"

\* How long the drain has lasted.
Elapsed == drain - drainLeft

\* The balancer is told within its interval: a 200 from before the flag is
\* received before the first tick of the drain, and what was routed before the
\* balancer was told has arrived when the listener closes.
DrainInv ==
    /\ phase \notin {"serving", "signalled"} => shuttingDown
    /\ phase = "draining" /\ poll = "ok" => Elapsed = 0
    /\ phase = "draining" /\ inRotation => Elapsed + pollIn <= PollEvery
    /\ phase = "draining" /\ Routed => Elapsed <= PollEvery
    /\ ~Listening => ~inRotation /\ ~Routed /\ poll # "ok"
    /\ \A r \in Requests : conn[r] # "refused"
    /\ ~Running => \A r \in Requests : conn[r] \in {"new", "served"}

\* At first nobody is routed.
LEMMA DrainInit == Init => DrainInv
BY DEF Init, DrainInv, Routed, Listening, Running

\* The listener closes when the drain is over, and nothing is on the wire;
\* serve returns when nothing is in flight.
LEMMA DrainShutdown ==
    ASSUME TypeOK, DrainInv, drain > PollEvery, ShutdownStep
    PROVE  DrainInv'
<1> USE DEF DrainInv, Routed, Elapsed, Listening, Running
<1>1. /\ drain \in Nat /\ pollIn \in 0..PollEvery /\ PollEvery \in Nat \ {0}
      /\ conn \in [Requests -> Connections]
  BY Numbers DEF TypeOK, Connections
<1>2. UNCHANGED <<drain, conn, inRotation, poll, pollIn>>
  BY DEF ShutdownStep, Signal, MarkNotReady, CloseListener, ServeReturns, Exit,
         trafficVars, balancerVars
<1>3. CASE Signal
  BY <1>2, <1>3 DEF Signal
<1>4. CASE MarkNotReady
  BY <1>1, <1>2, <1>4 DEF MarkNotReady
<1>5. CASE CloseListener
  <2>1. Elapsed = drain
    BY <1>1, <1>5 DEF CloseListener
  <2>2. ~inRotation /\ ~Routed /\ poll # "ok"
    BY <1>1, <1>5, <2>1 DEF CloseListener
  <2>3. QED
    BY <1>2, <1>5, <2>2 DEF CloseListener
<1>6. CASE ServeReturns
  <2>1. \A r \in Requests : conn[r] \in {"new", "served"}
    BY <1>1, <1>6 DEF ServeReturns, Connections
  <2>2. QED
    BY <1>2, <1>6, <2>1 DEF ServeReturns
<1>7. CASE Exit
  BY <1>2, <1>7 DEF Exit
<1>8. QED
  BY <1>3, <1>4, <1>5, <1>6, <1>7 DEF ShutdownStep

\* The balancer routes here only while it has not been told.
LEMMA DrainRequest ==
    ASSUME TypeOK, DrainInv, drain > PollEvery, NEW r \in Requests, RequestStep(r)
    PROVE  DrainInv'
<1>1. drain \in Nat /\ conn \in [Requests -> Connections] /\ phase \in Phases
  BY Numbers DEF TypeOK, Connections, Phases
<1>2. UNCHANGED <<drain, phase, shuttingDown, drainLeft, inRotation, poll, pollIn>>
  BY DEF RequestStep, Route, Accept, Refuse, Respond, Written, JobStarts, JobEnds,
         serverVars, balancerVars
<1>3. Elapsed' = Elapsed /\ Listening' = Listening /\ Running' = Running
  BY <1>2 DEF Elapsed, Listening, Running
<1>4. CASE Route(r)
  <2>1. inRotation /\ Listening /\ conn' = [conn EXCEPT ![r] = "routed"]
    BY <1>4 DEF Route, DrainInv
  <2>2. phase = "draining" => Elapsed <= PollEvery
    BY <1>1, <2>1, Numbers DEF DrainInv, TypeOK, Elapsed
  <2>3. Running
    BY <2>1 DEF Listening, Running
  <2>4. QED
    BY <1>1, <1>2, <1>3, <2>1, <2>2, <2>3 DEF DrainInv, Routed
<1>5. CASE Accept(r)
  <2>1. conn' = [conn EXCEPT ![r] = "open"] /\ Running /\ (Routed' => Routed)
    BY <1>1, <1>5 DEF Accept, Listening, Routed, Running
  <2>2. QED
    BY <1>1, <1>2, <1>3, <2>1 DEF DrainInv
<1>6. CASE Refuse(r)
  BY <1>6 DEF Refuse, DrainInv, Routed
<1>7. CASE Respond(r)
  <2>1. conn' = [conn EXCEPT ![r] = "answered"] /\ (Routed' => Routed) /\ Running
    BY <1>1, <1>7 DEF Respond, Routed, DrainInv
  <2>2. QED
    BY <1>1, <1>2, <1>3, <2>1 DEF DrainInv
<1>8. CASE Written(r)
  <2>1. conn' = [conn EXCEPT ![r] = "served"] /\ (Routed' => Routed)
    BY <1>1, <1>8 DEF Written, Routed
  <2>2. QED
    BY <1>1, <1>2, <1>3, <2>1 DEF DrainInv
<1>9. CASE JobStarts(r) \/ JobEnds(r)
  <2>1. conn' = conn
    BY <1>9 DEF JobStarts, JobEnds
  <2>2. QED
    BY <1>2, <1>3, <2>1 DEF DrainInv, Routed
<1>10. QED
  BY <1>4, <1>5, <1>6, <1>7, <1>8, <1>9 DEF RequestStep

\* A poll answered after the flag was set is answered with 503.
LEMMA DrainPoll ==
    ASSUME TypeOK, DrainInv, drain > PollEvery, PollStep
    PROVE  DrainInv'
<1>1. /\ UNCHANGED <<drain, phase, shuttingDown, drainLeft, conn>>
      /\ phase \in Phases /\ PollEvery \in Nat
  BY Numbers DEF PollStep, PollReads, PollAnswers, PollReceived, PollRefused,
         serverVars, trafficVars, TypeOK, Phases
<1>2. Elapsed' = Elapsed /\ Routed' = Routed /\ Listening' = Listening /\ Running' = Running
  BY <1>1 DEF Elapsed, Routed, Listening, Running
<1>3. CASE PollReads
  BY <1>1, <1>2, <1>3 DEF DrainInv, PollReads
<1>4. CASE PollAnswers
  <2>1. phase \notin {"serving", "signalled"} => poll' # "ok"
    BY <1>4 DEF DrainInv, PollAnswers
  <2>2. ~Listening => phase \notin {"serving", "signalled"}
    BY DEF Listening
  <2>3. QED
    BY <1>1, <1>2, <1>4, <2>1, <2>2 DEF DrainInv, PollAnswers
<1>5. CASE PollReceived
  <2>1. poll' = "none" /\ pollIn' = PollEvery /\ inRotation' = (poll = "ok")
    BY <1>5 DEF PollReceived
  <2>2. phase' = "draining" /\ inRotation' => Elapsed' + pollIn' <= PollEvery
    <3>1. phase' = "draining" /\ inRotation' => Elapsed' = 0
      BY <1>1, <1>2, <2>1 DEF DrainInv
    <3>2. QED
      BY <1>1, <2>1, <3>1
  <2>3. ~Listening' => ~inRotation'
    BY <1>2, <2>1 DEF DrainInv
  <2>4. QED
    BY <1>1, <1>2, <2>1, <2>2, <2>3 DEF DrainInv
<1>6. CASE PollRefused
  BY <1>1, <1>2, <1>6 DEF DrainInv, PollRefused
<1>7. QED
  BY <1>3, <1>4, <1>5, <1>6 DEF PollStep

\* The monitor has no part in it.
LEMMA DrainOther ==
    ASSUME DrainInv, MonitorStep \/ UNCHANGED vars
    PROVE  DrainInv'
<1>1. UNCHANGED <<serverVars, trafficVars, balancerVars>>
  BY DEF MonitorStep, ProbeStarts, ProbeEnds, UpstreamChanges, vars
<1>2. QED
  BY <1>1 DEF DrainInv, Routed, Elapsed, Listening, Running, serverVars, trafficVars,
              balancerVars

\* A tick of the drain is one of the balancer's timer, and finds nothing on
\* the wire.
LEMMA DrainTick == TypeOK /\ DrainInv /\ drain > PollEvery /\ Tick => DrainInv'
<1> SUFFICES ASSUME TypeOK, DrainInv, drain > PollEvery, Tick PROVE DrainInv'
  OBVIOUS
<1>1. drain \in Nat /\ drainLeft \in 0..drain /\ pollIn \in 0..PollEvery
  BY Numbers DEF TypeOK
<1>2. UNCHANGED <<drain, phase, shuttingDown, conn, inRotation>> /\ ~Routed
      /\ poll' # "ok"
      /\ pollIn' = pollIn - 1 /\ drainLeft' = Less(drainLeft)
      /\ (phase = "draining" => drainLeft > 0)
  BY <1>1 DEF Tick, Routed
<1>3. phase = "draining" => Elapsed' + pollIn' = Elapsed + pollIn
  BY <1>1, <1>2, Numbers DEF Elapsed, Less
<1>4. ~Routed'
  BY <1>2 DEF Routed
<1>5. QED
  BY <1>2, <1>3, <1>4 DEF DrainInv, Listening, Running

\* The drain time is set when the process starts.
LEMMA DrainFixed == [Next]_vars => drain' = drain
BY Steps DEF ShutdownStep, Signal, MarkNotReady, CloseListener, ServeReturns, Exit,
   RequestStep, Route, Accept, Refuse, Respond, Written, JobStarts, JobEnds,
   MonitorStep, ProbeStarts, ProbeEnds, UpstreamChanges,
   PollStep, PollReads, PollAnswers, PollReceived, PollRefused, Tick, vars, serverVars

Lossless == drain > PollEvery => DrainInv

\* Each step keeps it.
LEMMA LosslessNext == TypeOK /\ Lossless /\ [Next]_vars => Lossless'
<1> SUFFICES ASSUME TypeOK, Lossless, [Next]_vars, drain > PollEvery PROVE DrainInv'
  BY DrainFixed DEF Lossless
<1>1. DrainInv
  BY DEF Lossless
<1>2. QED
  BY <1>1, Steps, DrainShutdown, DrainRequest, DrainPoll, DrainOther, DrainTick

\* If the drain is longer than the balancer's polling interval, a shutdown
\* loses no request, whenever it comes and however many there are.
THEOREM ShutdownLosesNothing == Spec => []NoRequestLost
<1>1. Init => Lossless
  BY DrainInit DEF Lossless
<1>2. Lossless => NoRequestLost
  BY DEF Lossless, DrainInv, NoRequestLost
<1>3. QED
  BY <1>1, <1>2, ServerTypes, LosslessNext, PTL DEF Spec

\* One polling interval into the shutdown the balancer has the instance out,
\* and out it stays, though a 200 sent before the flag was set may have brought
\* it back once by then.
THEOREM OutOfRotationInTime == Spec => []OutInTime
<1>1. Init => Lossless
  BY DrainInit DEF Lossless
<1>2. TypeOK /\ Lossless => OutInTime
  <2> SUFFICES ASSUME TypeOK, Lossless PROVE OutInTime
    OBVIOUS
  <2>1. /\ drain \in Nat /\ drainLeft \in 0..drain
        /\ PollEvery \in Nat /\ pollIn \in 0..PollEvery
    BY Numbers DEF TypeOK
  <2>2. drain <= PollEvery => ~(drain - drainLeft > PollEvery)
    BY <2>1
  <2>3. CASE drain > PollEvery
    BY <2>1, <2>3 DEF Lossless, DrainInv, OutInTime, Elapsed
  <2>4. QED
    BY <2>1, <2>2, <2>3 DEF OutInTime
<1>3. QED
  BY <1>1, <1>2, ServerTypes, LosslessNext, PTL DEF Spec

-----------------------------------------------------------------------------
(* What ShutdownCompletes and ReadinessRecovers rest on                    *)

\* The last handler answers in at most n more ticks: the rest of the drain and
\* the slowest handler after it, or the slowest handler there is.
TimeLeft(n) ==
    /\ phase = "draining" => drainLeft + HandlerBudget <= n
    /\ phase = "closing" => \A r \in Requests : conn[r] = "open" => handlerLeft[r] <= n

Stage == CASE phase = "serving" -> 0
           [] phase = "signalled" -> 1
           [] phase = "draining" -> 2
           [] phase = "closing" -> 3
           [] phase = "returned" -> 4
           [] phase = "exited" -> 5

\* Those that keep the process: handlers, unread answers, running parses.
Holders == {r \in Requests : conn[r] \in {"open", "answered"} \/ job[r] = "running"}

\* A shutdown is never taken back.  Its last handler answers within the drain
\* and the longest route timeout, and no step puts that off, whatever still
\* arrives during the drain.  What may keep the process beyond, an answer its
\* client does not read or a parse that does not end, was there when the
\* listener closed, and nothing joins it after that (main.rs:43, 230-257).
ShutdownMovesOn ==
    /\ Stage' >= Stage
    /\ phase = "signalled" /\ phase' # phase => TimeLeft(drain + HandlerBudget)'
    /\ Stage > 1 => \A n \in Nat : TimeLeft(n) => TimeLeft(n)' /\ (Tick => TimeLeft(n - 1)')
    /\ ~Listening => Holders' \subseteq Holders

\* The poll under way will take the instance out.
Failing == poll \in {"unhealthy", "unavailable"}

\* While the upstream answers, only a shutdown takes an instance away from the
\* balancer that is healthy and was not polled as unhealthy; and the monitor's
\* next look at the upstream only comes nearer (duckduckgo.rs:561-570,
\* http.rs:547-561).
StaysReady ==
    /\ upstream = "up" =>
          /\ healthy => healthy'
          /\ healthy /\ ~Failing /\ phase = "serving" =>
                ~Failing' /\ (inRotation => inRotation')
    /\ probe = "waiting" /\ probe' = "waiting" => probeIn' <= probeIn
    /\ probe = "probing" /\ probe' = "probing" /\ Running =>
          probeLeft' <= probeLeft /\ (Tick => probeLeft' < probeLeft)

\* The moves of the shutdown itself.
LEMMA ShutdownSteps ==
    ASSUME TypeOK, ShutdownStep
    PROVE  ShutdownMovesOn
<1>1. drain \in Nat /\ HandlerBudget \in Nat /\ drainLeft \in 0..drain
      /\ handlerLeft \in [Requests -> 0..HandlerBudget] /\ ~Tick
  BY Numbers DEF TypeOK, Tick, ShutdownStep, Signal, MarkNotReady, CloseListener,
                 ServeReturns, Exit
<1>2. UNCHANGED <<conn, handlerLeft, job>> /\ Holders' = Holders
  BY DEF ShutdownStep, Signal, MarkNotReady, CloseListener, ServeReturns, Exit,
         trafficVars, Holders
<1>3. CASE Signal
  BY <1>1, <1>2, <1>3 DEF Signal, ShutdownMovesOn, Stage
<1>4. CASE MarkNotReady
  BY <1>1, <1>2, <1>4 DEF MarkNotReady, ShutdownMovesOn, Stage, TimeLeft
<1>5. CASE CloseListener
  <2>1. ASSUME NEW n \in Nat, TimeLeft(n) PROVE TimeLeft(n)'
    BY <1>1, <1>2, <1>5, <2>1 DEF CloseListener, TimeLeft
  <2>2. QED
    BY <1>1, <1>2, <1>5, <2>1 DEF CloseListener, ShutdownMovesOn, Stage
<1>6. CASE ServeReturns
  BY <1>1, <1>2, <1>6 DEF ServeReturns, ShutdownMovesOn, Stage, TimeLeft
<1>7. CASE Exit
  BY <1>1, <1>2, <1>7 DEF Exit, ShutdownMovesOn, Stage, TimeLeft
<1>8. QED
  BY <1>3, <1>4, <1>5, <1>6, <1>7 DEF ShutdownStep

\* Requests come and are answered while it lasts, and parses start and end.
LEMMA ShutdownRequests ==
    ASSUME TypeOK, NEW r \in Requests, RequestStep(r)
    PROVE  ShutdownMovesOn
<1> USE DEF RequestStep, Route, Accept, Refuse, Respond, Written, JobStarts, JobEnds
<1>1. UNCHANGED <<phase, drainLeft>> /\ ~Tick /\ phase \in Phases
  BY DEF TypeOK, Tick, serverVars, Phases
<1>2. phase = "closing" => \A q \in Requests :
         conn'[q] = "open" => conn[q] = "open" /\ handlerLeft'[q] = handlerLeft[q]
  BY DEF TypeOK, Listening
<1>3. ASSUME NEW n \in Nat, TimeLeft(n) PROVE TimeLeft(n)'
  BY <1>1, <1>2, <1>3 DEF TimeLeft
<1>4. ~Listening => Holders' \subseteq Holders
  BY DEF TypeOK, Holders
<1>5. QED
  BY <1>1, <1>3, <1>4 DEF ShutdownMovesOn, Stage, Phases

\* Each tick is one less.
LEMMA ShutdownTick ==
    ASSUME TypeOK, Tick
    PROVE  ShutdownMovesOn
<1>1. drain \in Nat /\ HandlerBudget \in Nat /\ drainLeft \in Nat /\ phase \in Phases
  BY Numbers DEF TypeOK, Phases
<1>2. /\ UNCHANGED <<phase, conn, job>>
      /\ phase = "draining" => drainLeft' = drainLeft - 1
      /\ \A r \in Requests : conn[r] = "open" =>
            handlerLeft[r] \in Nat \ {0} /\ handlerLeft'[r] = handlerLeft[r] - 1
  BY <1>1, Numbers DEF TypeOK, Tick, HandlerDue, Less
<1>3. ASSUME NEW n \in Nat, TimeLeft(n) PROVE TimeLeft(n)' /\ TimeLeft(n - 1)'
  BY <1>1, <1>2, <1>3 DEF TimeLeft
<1>4. Holders' = Holders
  BY <1>2 DEF Holders
<1>5. QED
  BY <1>1, <1>2, <1>3, <1>4 DEF ShutdownMovesOn, Stage, Phases

\* Whatever arrives during the drain, a shutdown only comes nearer to its end.
THEOREM ShutdownKeepsMoving == Spec => [][ShutdownMovesOn]_vars
<1>1. ASSUME TypeOK, Next PROVE ShutdownMovesOn
  <2>1. CASE MonitorStep \/ PollStep
    <3>1. UNCHANGED <<phase, drainLeft, conn, handlerLeft, job>> /\ ~Tick
      BY <1>1, <2>1, Numbers
      DEF MonitorStep, ProbeStarts, ProbeEnds, UpstreamChanges,
          PollStep, PollReads, PollAnswers, PollReceived, PollRefused, Tick,
          serverVars, trafficVars, TypeOK
    <3>2. Holders' = Holders /\ \A n \in Nat : TimeLeft(n)' <=> TimeLeft(n)
      BY <3>1 DEF TimeLeft, Holders
    <3>3. phase \in Phases
      BY <1>1 DEF TypeOK, Phases
    <3>4. QED
      BY <3>1, <3>2, <3>3 DEF ShutdownMovesOn, Stage, Phases
  <2>2. QED
    BY <1>1, <2>1, Steps, ShutdownSteps, ShutdownRequests, ShutdownTick
<1>2. TypeOK /\ [Next]_vars => [ShutdownMovesOn]_vars
  BY <1>1
<1>3. QED
  BY <1>2, ServerTypes, PTL DEF Spec

\* Nothing but a shutdown takes a healthy instance out of rotation while its
\* upstream answers, and the monitor's next probe is never put off.
THEOREM ReadyInstancesStay == Spec => [][StaysReady]_vars
<1> DEFINE Unmarked == phase = "serving" => ~shuttingDown
<1>1. ASSUME TypeOK, Unmarked, Next PROVE StaysReady
  <2>1. TypeOK /\ probeIn \in Nat /\ probeLeft \in Nat
    BY <1>1, Numbers DEF TypeOK
  <2>2. CASE MonitorStep
    BY <2>1, <2>2, Numbers DEF MonitorStep, ProbeStarts, ProbeEnds, UpstreamChanges,
       StaysReady, Failing, balancerVars, serverVars, Tick, TypeOK
  <2>3. CASE PollStep
    <3>1. UNCHANGED <<phase, healthy, probe, probeIn, probeLeft, upstream>> /\ ~Tick
      BY <2>1, <2>3, Numbers DEF PollStep, PollReads, PollAnswers, PollReceived,
         PollRefused, monitorVars, serverVars, Tick, TypeOK
    <3>2. healthy /\ ~Failing /\ phase = "serving" =>
              ~Failing' /\ (inRotation => inRotation')
      BY <1>1, <2>1, <2>3 DEF PollStep, PollReads, PollAnswers, PollReceived,
         PollRefused, Failing, Listening, TypeOK
    <3>3. QED
      BY <2>1, <3>1, <3>2 DEF StaysReady
  <2>4. CASE ShutdownStep \/ \E r \in Requests : RequestStep(r)
    <3>1. UNCHANGED <<healthy, probe, probeIn, probeLeft, upstream, poll, inRotation>> /\ ~Tick
      BY <2>1, <2>4, Numbers DEF ShutdownStep, Signal, MarkNotReady, CloseListener,
         ServeReturns, Exit, RequestStep, Route, Accept, Refuse, Respond, Written,
         JobStarts, JobEnds, monitorVars, balancerVars, Tick, TypeOK
    <3>2. QED
      BY <2>1, <3>1 DEF StaysReady, Failing
  <2>5. CASE Tick
    <3>1. /\ UNCHANGED <<healthy, probe, poll, inRotation>>
          /\ probeIn' = Less(probeIn) /\ probeLeft' = Less(probeLeft)
          /\ probe = "probing" /\ Running => probeLeft > 0
      BY <2>1, <2>5 DEF Tick
    <3>2. QED
      BY <2>1, <3>1 DEF StaysReady, Less, Failing
  <2>6. QED
    BY <1>1, <2>2, <2>3, <2>4, <2>5, Steps
<1>2. TypeOK /\ Unmarked /\ [Next]_vars => [StaysReady]_vars
  BY <1>1
<1>3. Init => Unmarked
  BY DEF Init
<1>4. Unmarked /\ [Next]_vars => Unmarked'
  BY Steps DEF ShutdownStep, Signal, MarkNotReady, CloseListener, ServeReturns, Exit,
     RequestStep, Route, Accept, Refuse, Respond, Written, JobStarts, JobEnds,
     MonitorStep, ProbeStarts, ProbeEnds, UpstreamChanges,
     PollStep, PollReads, PollAnswers, PollReceived, PollRefused, Tick, vars, serverVars
<1>5. QED
  BY <1>2, <1>3, <1>4, ServerTypes, PTL DEF Spec
=============================================================================
