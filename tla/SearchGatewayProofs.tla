------------------------ MODULE SearchGatewayProofs ------------------------
(***************************************************************************)
(* The counters of both gateways are exact and the shared cache never      *)
(* mixes two searches up, for any calls, parameters and budgets.           *)
(***************************************************************************)
EXTENDS SearchGateway, FiniteSetTheorems, TLAPS

-----------------------------------------------------------------------------
(* The inductive invariant                                                 *)

\* A call has no outcome before the engine returns, and only a success is
\* recorded and stored.
OutcomeShape ==
    \A r \in Requests :
        /\ pc[r] \in {"idle", "lookup", "asking", "parsing"} => outcome[r] = "none"
        /\ pc[r] \in Recording \cup {"storing"} => outcome[r] \in Successes

\* A caller is told nothing before the end, and a search that succeeded is
\* never told that it failed.
AnswerShape ==
    \A r \in Requests :
        /\ pc[r] \in Open \cup {"idle"} => answer[r] = NoAnswer
        /\ pc[r] \in {"cut", "dropped"} => answer[r].from = NoRequest
        /\ pc[r] = "answered" /\ outcome[r] \in Successes => answer[r] = Good(r)

\* What may be read from the cache later.
Stored(r) == outcome[r] \in Successes /\ pc[r] \in {"storing"} \cup Closed

\* Only complete successes are written, each under its own key.
CacheShape ==
    /\ \A r \in setting : Stored(r)
    /\ \A k \in Keys : cache[k] \in Requests =>
          Stored(cache[k]) /\ KeyFor(cache[k]) = k

Inv == TypeOK /\ OutcomeShape /\ AnswerShape /\ CacheShape /\ CountersExact

-----------------------------------------------------------------------------
(* Types                                                                   *)

\* The answers are of the declared shape.
LEMMA AnswerTypes ==
    LET Answers == [code : Codes, from : Requests \cup {NoRequest}] IN
    /\ NoAnswer \in Answers
    /\ Failure("InvalidQuery") \in Answers
    /\ Failure("ServiceUnavailable") \in Answers
    /\ \A o \in Failures : Failure(ErrorCode(o)) \in Answers
    /\ \A p \in Requests : Good(p) \in Answers
BY DEF NoAnswer, Failure, Good, Codes, ErrorCode, Failures, Errors

\* Every failure has a counter.
LEMMA CounterTypes == \A o \in Failures \cup {"ParseEmpty"} : CounterOf(o) \in Counters
BY DEF CounterOf, Counters, Failures, Errors

\* Adding one keeps the counters numbers.
LEMMA CountTypes ==
    ASSUME NEW c \in Counters, counters \in [Counters -> Nat], Count(c)
    PROVE  counters' \in [Counters -> Nat]
BY DEF Count

\* Ending a call keeps the types.
LEMMA CloseTypes ==
    ASSUME NEW r \in Requests, NEW how \in Closed,
           NEW a \in [code : Codes, from : Requests \cup {NoRequest}],
           TypeOK, Close(r, how, a)
    PROVE  /\ pc' \in [Requests -> Pc]
           /\ answer' \in [Requests -> [code : Codes, from : Requests \cup {NoRequest}]]
           /\ routeLeft' \in [Requests -> 0..RouteBudget]
           /\ engineLeft' \in [Requests -> 0..EngineBudget]
BY GatewayAssumption DEF Close, TypeOK, Pc

\* An engine failure keeps the types.
LEMMA FailTypes ==
    ASSUME NEW r \in Requests, NEW o \in Failures, TypeOK, EngineFails(r, o)
    PROVE  TypeOK'
<1>1. Close(r, "answered", Failure(ErrorCode(o)))
  BY DEF EngineFails
<1>2. /\ pc' \in [Requests -> Pc]
      /\ answer' \in [Requests -> [code : Codes, from : Requests \cup {NoRequest}]]
      /\ routeLeft' \in [Requests -> 0..RouteBudget]
      /\ engineLeft' \in [Requests -> 0..EngineBudget]
  <2>1. "answered" \in Closed
    BY DEF Closed
  <2>2. Failure(ErrorCode(o)) \in [code : Codes, from : Requests \cup {NoRequest}]
    BY AnswerTypes
  <2>3. QED
    BY <1>1, <2>1, <2>2, CloseTypes
<1>3. counters' \in [Counters -> Nat]
  BY CounterTypes, CountTypes DEF EngineFails, TypeOK
<1>4. QED
  BY <1>2, <1>3 DEF EngineFails, TypeOK

\* Every step keeps the types and overdraws no timeout.
LEMMA TypesNext == TypeOK /\ [Next]_vars => TypeOK'
<1> SUFFICES ASSUME TypeOK, [Next]_vars PROVE TypeOK'
  OBVIOUS
<1> USE GatewayAssumption
<1>1. ASSUME NEW r \in Requests, Step(r) PROVE TypeOK'
  <2>1. CASE RejectParams(r) \/ RouteTimeout(r) \/ Disconnect(r) \/ LookupHit(r) \/ Answer(r)
    <3>1. PICK how \in Closed,
               a \in [code : Codes, from : Requests \cup {NoRequest}] : Close(r, how, a)
      BY <2>1, AnswerTypes
         DEF RejectParams, RouteTimeout, Disconnect, LookupHit, Answer, Closed
    <3>2. UNCHANGED <<outcome, cache, setting, counters>>
      BY <2>1 DEF RejectParams, RouteTimeout, Disconnect, LookupHit, Answer
    <3>3. QED
      BY <3>1, <3>2, CloseTypes DEF TypeOK
  <2>2. CASE Arrive(r)
    BY <2>2 DEF Arrive, TypeOK, Pc, Open
  <2>3. CASE LookupMiss(r) \/ BodyArrives(r)
    BY <2>3 DEF LookupMiss, BodyArrives, GoTo, TypeOK, Pc, Open
  <2>4. CASE UpstreamFails(r) \/ EngineTimeout(r) \/ ParsePanics(r)
    <3>1. PICK o \in Failures : EngineFails(r, o)
      BY <2>4 DEF UpstreamFails, EngineTimeout, ParsePanics, Failures, Errors
    <3>2. QED
      BY <3>1, FailTypes
  <2>5. CASE ParseEnds(r)
    <3>1. counters' \in [Counters -> Nat]
      <4>1. CounterOf("ParseEmpty") = "emptyParses" /\ "emptyParses" \in Counters
        BY DEF CounterOf, Errors, Counters
      <4>2. QED
        BY <2>5, <4>1, CountTypes DEF ParseEnds, TypeOK
    <3>2. QED
      BY <2>5, <3>1 DEF ParseEnds, GoTo, TypeOK, Pc, Open, Recording
  <2>6. CASE RecordSearch(r)
    <3>1. counters' \in [Counters -> Nat]
      BY <2>6, CountTypes DEF RecordSearch, TypeOK, Counters
    <3>2. QED
      BY <2>6, <3>1 DEF RecordSearch, GoTo, TypeOK, Pc, Open, Recording
  <2>7. CASE RecordLatency(r)
    <3>1. counters' \in [Counters -> Nat]
      BY <2>7, CountTypes DEF RecordLatency, TypeOK, Counters
    <3>2. QED
      BY <2>7, <3>1 DEF RecordLatency, GoTo, TypeOK, Pc, Open
  <2>8. CASE SetEnds(r)
    BY <2>8 DEF SetEnds, TypeOK
  <2>9. QED
    BY <1>1, <2>1, <2>2, <2>3, <2>4, <2>5, <2>6, <2>7, <2>8 DEF Step
<1>2. ASSUME NEW k \in Keys, Expire(k) PROVE TypeOK'
  BY <1>2 DEF Expire, TypeOK
<1>3. CASE Tick
  <2>1. routeLeft' \in [Requests -> 0..RouteBudget]
    <3>1. \A r \in Requests : r \in HttpRequests /\ pc[r] \in Open => routeLeft[r] # 0
      BY <1>3 DEF Tick, RouteDue
    <3>2. \A r \in Requests : routeLeft[r] \in 0..RouteBudget
      BY DEF TypeOK
    <3>3. routeLeft' = [r \in Requests |->
             IF r \in HttpRequests /\ pc[r] \in Open THEN routeLeft[r] - 1 ELSE routeLeft[r]]
      BY <1>3 DEF Tick
    <3>4. QED
      BY <3>1, <3>2, <3>3
  <2>2. engineLeft' \in [Requests -> 0..EngineBudget]
    <3>1. \A r \in Requests : pc[r] = "asking" => engineLeft[r] # 0
      BY <1>3 DEF Tick, EngineDue
    <3>2. \A r \in Requests : engineLeft[r] \in 0..EngineBudget
      BY DEF TypeOK
    <3>3. engineLeft' = [r \in Requests |->
             IF pc[r] = "asking" THEN engineLeft[r] - 1 ELSE engineLeft[r]]
      BY <1>3 DEF Tick
    <3>4. QED
      BY <3>1, <3>2, <3>3
  <2>3. QED
    BY <1>3, <2>1, <2>2 DEF Tick, TypeOK
<1>4. CASE UNCHANGED vars
  BY <1>4 DEF vars, TypeOK
<1>5. QED
  BY <1>1, <1>2, <1>3, <1>4 DEF Next, Quiescent

-----------------------------------------------------------------------------
(* Outcomes, answers and the cache                                         *)

\* A call that ends touches nobody else's answer.
LEMMA CloseOne ==
    ASSUME NEW r \in Requests, NEW how, NEW a, TypeOK, Close(r, how, a)
    PROVE  /\ pc'[r] = how /\ answer'[r] = a
           /\ \A q \in Requests \ {r} : pc'[q] = pc[q] /\ answer'[q] = answer[q]
BY DEF Close, TypeOK

\* Outcomes appear when the engine returns, and only then.
LEMMA OutcomeNext == TypeOK /\ OutcomeShape /\ [Next]_vars => OutcomeShape'
<1> SUFFICES ASSUME TypeOK, OutcomeShape, [Next]_vars PROVE OutcomeShape'
  OBVIOUS
<1>1. ASSUME NEW r \in Requests, Step(r) PROVE OutcomeShape'
  <2>1. CASE RejectParams(r) \/ RouteTimeout(r) \/ Disconnect(r) \/ LookupHit(r) \/ Answer(r)
    <3>1. PICK how \in Closed : pc' = [pc EXCEPT ![r] = how]
      BY <2>1 DEF RejectParams, RouteTimeout, Disconnect, LookupHit, Answer, Close, Closed
    <3>2. outcome' = outcome
      BY <2>1 DEF RejectParams, RouteTimeout, Disconnect, LookupHit, Answer
    <3>3. QED
      BY <3>1, <3>2 DEF OutcomeShape, TypeOK, Closed, Recording
  <2>2. CASE Arrive(r) \/ LookupMiss(r) \/ BodyArrives(r)
    BY <2>2 DEF Arrive, LookupMiss, BodyArrives, GoTo, OutcomeShape, TypeOK, Recording
  <2>3. CASE UpstreamFails(r) \/ EngineTimeout(r) \/ ParsePanics(r)
    <3>1. PICK o \in Failures : EngineFails(r, o)
      BY <2>3 DEF UpstreamFails, EngineTimeout, ParsePanics, Failures, Errors
    <3>2. /\ pc' = [pc EXCEPT ![r] = "answered"]
          /\ outcome' = [outcome EXCEPT ![r] = o]
      BY <3>1 DEF EngineFails, Close
    <3>3. QED
      BY <3>2 DEF OutcomeShape, TypeOK, Recording
  <2>4. CASE ParseEnds(r) \/ RecordSearch(r) \/ RecordLatency(r)
    BY <2>4 DEF ParseEnds, RecordSearch, RecordLatency, GoTo, OutcomeShape, TypeOK,
                Recording, Successes
  <2>5. CASE SetEnds(r)
    BY <2>5 DEF SetEnds, OutcomeShape
  <2>6. QED
    BY <1>1, <2>1, <2>2, <2>3, <2>4, <2>5 DEF Step
<1>2. CASE (\E k \in Keys : Expire(k)) \/ Tick \/ UNCHANGED vars
  BY <1>2 DEF Expire, Tick, vars, OutcomeShape
<1>3. QED
  BY <1>1, <1>2 DEF Next, Quiescent

\* A caller hears nothing before the end, and of its own success if it had one.
LEMMA AnswerNext ==
    TypeOK /\ OutcomeShape /\ AnswerShape /\ [Next]_vars => AnswerShape'
<1> SUFFICES ASSUME TypeOK, OutcomeShape, AnswerShape, [Next]_vars PROVE AnswerShape'
  OBVIOUS
<1>1. ASSUME NEW r \in Requests, Step(r) PROVE AnswerShape'
  <2>1. CASE RejectParams(r) \/ LookupHit(r)
    <3>1. PICK a : Close(r, "answered", a)
      BY <2>1 DEF RejectParams, LookupHit
    <3>2. outcome' = outcome /\ outcome[r] \notin Successes
      BY <2>1 DEF RejectParams, LookupHit, OutcomeShape, Successes
    <3>3. QED
      BY <3>1, <3>2, CloseOne DEF AnswerShape, Open, Recording
  <2>2. CASE RouteTimeout(r) \/ Disconnect(r)
    <3>1. PICK how \in {"cut", "dropped"}, a \in {NoAnswer, Failure("ServiceUnavailable")} :
             Close(r, how, a)
      BY <2>2 DEF RouteTimeout, Disconnect
    <3>2. outcome' = outcome /\ a.from = NoRequest
      BY <2>2, <3>1 DEF RouteTimeout, Disconnect, NoAnswer, Failure
    <3>3. QED
      BY <3>1, <3>2, CloseOne DEF AnswerShape, Open, Recording
  <2>3. CASE Answer(r)
    <3>1. Close(r, "answered", Good(r)) /\ outcome' = outcome
      BY <2>3 DEF Answer
    <3>2. QED
      BY <3>1, CloseOne DEF AnswerShape, Open, Recording
  <2>4. CASE UpstreamFails(r) \/ EngineTimeout(r) \/ ParsePanics(r)
    <3>1. PICK o \in Failures : EngineFails(r, o)
      BY <2>4 DEF UpstreamFails, EngineTimeout, ParsePanics, Failures, Errors
    <3>2. /\ Close(r, "answered", Failure(ErrorCode(o)))
          /\ outcome' = [outcome EXCEPT ![r] = o]
      BY <3>1 DEF EngineFails
    <3>3. outcome'[r] \notin Successes
          /\ \A q \in Requests \ {r} : outcome'[q] = outcome[q]
      BY <3>2 DEF TypeOK, Failures, Errors, Successes
    <3>4. QED
      BY <3>2, <3>3, CloseOne DEF AnswerShape, Open, Recording
  <2>5. CASE Arrive(r) \/ LookupMiss(r) \/ BodyArrives(r) \/ ParseEnds(r)
             \/ RecordSearch(r) \/ RecordLatency(r)
    <3>1. /\ pc[r] \in Open \cup {"idle"} /\ answer' = answer
          /\ \E where \in Open : pc' = [pc EXCEPT ![r] = where]
      BY <2>5 DEF Arrive, LookupMiss, BodyArrives, ParseEnds, RecordSearch, RecordLatency,
                  GoTo, Open, Recording
    <3>2. \A q \in Requests \ {r} : outcome'[q] = outcome[q] /\ pc'[q] = pc[q]
      BY <2>5 DEF Arrive, LookupMiss, BodyArrives, ParseEnds, RecordSearch, RecordLatency,
                  GoTo, TypeOK
    <3>3. pc'[r] \in Open
      BY <3>1 DEF TypeOK
    <3>4. QED
      BY <3>1, <3>2, <3>3 DEF AnswerShape, Open, Recording
  <2>6. CASE SetEnds(r)
    BY <2>6 DEF SetEnds, AnswerShape
  <2>7. QED
    BY <1>1, <2>1, <2>2, <2>3, <2>4, <2>5, <2>6 DEF Step
<1>2. CASE (\E k \in Keys : Expire(k)) \/ Tick \/ UNCHANGED vars
  BY <1>2 DEF Expire, Tick, vars, AnswerShape
<1>3. QED
  BY <1>1, <1>2 DEF Next, Quiescent

\* What is stored stays fit to be read.
LEMMA StoredNext ==
    ASSUME TypeOK, [Next]_vars, NEW p \in Requests, Stored(p)
    PROVE  Stored(p)'
<1>1. ASSUME NEW r \in Requests, Step(r) PROVE Stored(p)'
  <2>1. CASE r = p
    BY <1>1, <2>1
       DEF Step, RejectParams, Arrive, LookupHit, LookupMiss, UpstreamFails, EngineTimeout,
           EngineDue, BodyArrives, ParsePanics, ParseEnds, RecordSearch, RecordLatency,
           Answer, RouteTimeout, RouteDue, Disconnect, SetEnds, Close, Stored, TypeOK,
           Closed, Open, Recording
  <2>2. CASE r # p
    <3>1. pc'[p] = pc[p]
      BY <1>1, <2>2
         DEF Step, RejectParams, Arrive, LookupHit, LookupMiss, UpstreamFails,
             EngineTimeout, BodyArrives, ParsePanics, ParseEnds, RecordSearch,
             RecordLatency, Answer, RouteTimeout, Disconnect, SetEnds, EngineFails, Close,
             GoTo, TypeOK
    <3>2. outcome'[p] = outcome[p]
      BY <1>1, <2>2
         DEF Step, RejectParams, Arrive, LookupHit, LookupMiss, UpstreamFails,
             EngineTimeout, BodyArrives, ParsePanics, ParseEnds, RecordSearch,
             RecordLatency, Answer, RouteTimeout, Disconnect, SetEnds, EngineFails, TypeOK
    <3>3. QED
      BY <3>1, <3>2 DEF Stored
  <2>3. QED
    BY <2>1, <2>2
<1>2. CASE (\E k \in Keys : Expire(k)) \/ Tick \/ UNCHANGED vars
  BY <1>2 DEF Expire, Tick, vars, Stored
<1>3. QED
  BY <1>1, <1>2 DEF Next, Quiescent

\* Only complete successes are written, each under its own key.
LEMMA CacheNext ==
    TypeOK /\ OutcomeShape /\ CacheShape /\ [Next]_vars => CacheShape'
<1> SUFFICES ASSUME TypeOK, OutcomeShape, CacheShape, [Next]_vars PROVE CacheShape'
  OBVIOUS
<1>1. \A p \in Requests : Stored(p) => Stored(p)'
  BY StoredNext
<1>2. ASSUME NEW r \in Requests, RecordLatency(r) PROVE CacheShape'
  <2>1. Stored(r)'
    BY <1>2 DEF RecordLatency, GoTo, Stored, OutcomeShape, Recording, TypeOK
  <2>2. QED
    BY <1>1, <1>2, <2>1 DEF RecordLatency, CacheShape, TypeOK
<1>3. ASSUME NEW r \in Requests, SetEnds(r) PROVE CacheShape'
  <2>1. KeyFor(r) \in Keys /\ Stored(r)
    BY <1>3 DEF Keys, SetEnds, CacheShape
  <2>2. QED
    BY <1>1, <1>3, <2>1 DEF SetEnds, CacheShape, TypeOK
<1>4. ASSUME NEW k \in Keys, Expire(k) PROVE CacheShape'
  <2>1. "absent" \notin Requests
    BY GatewayAssumption
  <2>2. QED
    BY <1>1, <1>4, <2>1 DEF Expire, CacheShape, TypeOK
<1>5. CASE UNCHANGED <<cache, setting>>
  BY <1>1, <1>5 DEF CacheShape, TypeOK
<1>6. CASE Tick \/ UNCHANGED vars
  BY <1>5, <1>6 DEF Tick, vars
<1>7. ASSUME NEW r \in Requests, Step(r) PROVE CacheShape'
  BY <1>2, <1>3, <1>5, <1>7
     DEF Step, RejectParams, Arrive, LookupHit, LookupMiss, UpstreamFails, EngineTimeout,
         BodyArrives, ParsePanics, ParseEnds, RecordSearch, Answer, RouteTimeout,
         Disconnect, EngineFails
<1>8. QED
  BY <1>4, <1>6, <1>7 DEF Next, Quiescent

-----------------------------------------------------------------------------
(* The counters                                                            *)

\* A new member makes a set of calls one larger.
LEMMA OneMore ==
    ASSUME NEW S \in SUBSET Requests, NEW r \in Requests, r \notin S
    PROVE  Cardinality(S \cup {r}) = Cardinality(S) + 1
<1>1. IsFiniteSet(S)
  BY FS_Subset, GatewayAssumption
<1>2. QED
  BY <1>1, FS_AddElement

\* Nothing is counted where no outcome appears and nobody enters or leaves
\* record_search.
LEMMA NothingCounted ==
    ASSUME TypeOK, CountersExact, outcome' = outcome, counters' = counters,
           \A q \in Requests : pc'[q] # pc[q] => {pc[q], pc'[q]} \cap Recording = {}
    PROVE  CountersExact'
<1>1. Searched' = Searched /\ Timed' = Timed
  BY DEF Searched, Timed, WithOutcome, Recording
<1>2. \A os : WithOutcome(os)' = WithOutcome(os)
  BY DEF WithOutcome
<1>3. QED
  BY <1>1, <1>2 DEF CountersExact, WithOutcome

\* An outcome joins its own kind and no other.
LEMMA NewOutcome ==
    ASSUME NEW r \in Requests, NEW o, TypeOK, outcome[r] = "none",
           outcome' = [outcome EXCEPT ![r] = o], NEW os, "none" \notin os
    PROVE  /\ r \notin WithOutcome(os)
           /\ o \in os => {q \in Requests : outcome'[q] \in os} = WithOutcome(os) \cup {r}
           /\ o \notin os => {q \in Requests : outcome'[q] \in os} = WithOutcome(os)
BY DEF WithOutcome, TypeOK

\* A failure of the engine is counted once, by its kind.
LEMMA FailureCounted ==
    ASSUME NEW r \in Requests, NEW o \in Failures, TypeOK, OutcomeShape, CountersExact,
           pc[r] \in {"asking", "parsing"}, EngineFails(r, o)
    PROVE  CountersExact'
<1>1. outcome[r] = "none"
  BY DEF OutcomeShape
<1>2. /\ outcome' = [outcome EXCEPT ![r] = o]
      /\ counters' = [counters EXCEPT ![CounterOf(o)] = @ + 1]
      /\ pc' = [pc EXCEPT ![r] = "answered"]
  BY DEF EngineFails, Count, Close
<1>3. \A os : WithOutcome(os) \in SUBSET Requests
  BY DEF WithOutcome
<1>4. Searched' = Searched /\ Timed' = Timed
  BY <1>1, <1>2
     DEF Searched, Timed, WithOutcome, Successes, TypeOK, Failures, Errors, Recording
<1>5. counters'["searches"] = counters["searches"] /\ counters'["latency"] = counters["latency"]
      /\ counters'["emptyParses"] = counters["emptyParses"]
  BY <1>2 DEF CounterOf, Failures, Errors, TypeOK, Counters
<1>6. counters'["emptyParses"] = Cardinality(WithOutcome({"ParseEmpty"}))'
  <2>1. o \notin {"ParseEmpty"}
    BY DEF Failures, Errors
  <2>2. {q \in Requests : outcome'[q] \in {"ParseEmpty"}} = WithOutcome({"ParseEmpty"})
    BY <1>1, <1>2, <2>1, NewOutcome
  <2>3. QED
    BY <1>5, <2>2 DEF CountersExact, WithOutcome
<1>7. counters'["errors"] = Cardinality(WithOutcome(Errors))'
  <2>1. "none" \notin Errors
    BY DEF Errors
  <2>2. CASE o \in Errors
    <3>1. counters'["errors"] = counters["errors"] + 1
      BY <1>2, <2>2 DEF CounterOf, TypeOK, Counters, Errors
    <3>2. {q \in Requests : outcome'[q] \in Errors} = WithOutcome(Errors) \cup {r}
          /\ r \notin WithOutcome(Errors)
      BY <1>1, <1>2, <2>1, <2>2, NewOutcome
    <3>3. QED
      BY <1>3, <3>1, <3>2, OneMore DEF CountersExact, WithOutcome
  <2>3. CASE o \notin Errors
    <3>1. counters'["errors"] = counters["errors"]
      BY <1>2, <2>3 DEF CounterOf, TypeOK, Counters, Failures
    <3>2. {q \in Requests : outcome'[q] \in Errors} = WithOutcome(Errors)
      BY <1>1, <1>2, <2>1, <2>3, NewOutcome
    <3>3. QED
      BY <3>1, <3>2 DEF CountersExact, WithOutcome
  <2>4. QED
    BY <2>2, <2>3
<1>8. counters'["blocked"] = Cardinality(WithOutcome({"Blocked"}))'
  <2>1. CASE o = "Blocked"
    <3>1. counters'["blocked"] = counters["blocked"] + 1
      BY <1>2, <2>1 DEF CounterOf, TypeOK, Counters, Errors
    <3>2. {q \in Requests : outcome'[q] \in {"Blocked"}} = WithOutcome({"Blocked"}) \cup {r}
          /\ r \notin WithOutcome({"Blocked"})
      BY <1>1, <1>2, <2>1, NewOutcome
    <3>3. QED
      BY <1>3, <3>1, <3>2, OneMore DEF CountersExact, WithOutcome
  <2>2. CASE o # "Blocked"
    <3>1. counters'["blocked"] = counters["blocked"]
      BY <1>2, <2>2 DEF CounterOf, TypeOK, Counters, Failures, Errors
    <3>2. {q \in Requests : outcome'[q] \in {"Blocked"}} = WithOutcome({"Blocked"})
      BY <1>1, <1>2, <2>2, NewOutcome
    <3>3. QED
      BY <3>1, <3>2 DEF CountersExact, WithOutcome
  <2>3. QED
    BY <2>1, <2>2
<1>9. counters'["challenged"] = Cardinality(WithOutcome({"Challenged"}))'
  <2>1. CASE o = "Challenged"
    <3>1. counters'["challenged"] = counters["challenged"] + 1
      BY <1>2, <2>1 DEF CounterOf, TypeOK, Counters, Errors
    <3>2. {q \in Requests : outcome'[q] \in {"Challenged"}} = WithOutcome({"Challenged"}) \cup {r}
          /\ r \notin WithOutcome({"Challenged"})
      BY <1>1, <1>2, <2>1, NewOutcome
    <3>3. QED
      BY <1>3, <3>1, <3>2, OneMore DEF CountersExact, WithOutcome
  <2>2. CASE o # "Challenged"
    <3>1. counters'["challenged"] = counters["challenged"]
      BY <1>2, <2>2 DEF CounterOf, TypeOK, Counters, Failures, Errors
    <3>2. {q \in Requests : outcome'[q] \in {"Challenged"}} = WithOutcome({"Challenged"})
      BY <1>1, <1>2, <2>2, NewOutcome
    <3>3. QED
      BY <3>1, <3>2 DEF CountersExact, WithOutcome
  <2>3. QED
    BY <2>1, <2>2
<1>10. QED
  BY <1>4, <1>5, <1>6, <1>7, <1>8, <1>9 DEF CountersExact

\* A parse that ends is counted if it is empty; its search and its cost are
\* added up later.
LEMMA ParseCounted ==
    ASSUME NEW r \in Requests, TypeOK, OutcomeShape, CountersExact, ParseEnds(r)
    PROVE  CountersExact'
<1>1. PICK o \in Successes :
         /\ outcome' = [outcome EXCEPT ![r] = o]
         /\ IF o = "ParseEmpty" THEN Count("emptyParses") ELSE counters' = counters
  BY DEF ParseEnds
<1>2. outcome[r] = "none" /\ pc' = [pc EXCEPT ![r] = "recording"]
  BY DEF ParseEnds, OutcomeShape, GoTo
<1>3. Searched' = Searched /\ Timed' = Timed
  BY <1>1, <1>2 DEF Searched, Timed, WithOutcome, Successes, TypeOK, Recording
<1>4. \A c \in Counters \ {"emptyParses"} : counters'[c] = counters[c]
  BY <1>1 DEF Count, TypeOK
<1>5. \A os \in {Errors, {"Blocked"}, {"Challenged"}} :
         {q \in Requests : outcome'[q] \in os} = WithOutcome(os)
  BY <1>1, <1>2 DEF WithOutcome, TypeOK, Errors, Successes
<1>6. counters'["emptyParses"] = Cardinality(WithOutcome({"ParseEmpty"}))'
  <2>1. CASE o = "ParseEmpty"
    <3>1. counters'["emptyParses"] = counters["emptyParses"] + 1
      BY <1>1, <2>1 DEF Count, TypeOK, Counters
    <3>2. {q \in Requests : outcome'[q] \in {"ParseEmpty"}} = WithOutcome({"ParseEmpty"}) \cup {r}
          /\ r \notin WithOutcome({"ParseEmpty"})
      BY <1>1, <1>2, <2>1, NewOutcome
    <3>3. WithOutcome({"ParseEmpty"}) \in SUBSET Requests
      BY DEF WithOutcome
    <3>4. QED
      BY <3>1, <3>2, <3>3, OneMore DEF CountersExact, WithOutcome
  <2>2. CASE o # "ParseEmpty"
    <3>1. counters' = counters
      BY <1>1, <2>2
    <3>2. {q \in Requests : outcome'[q] \in {"ParseEmpty"}} = WithOutcome({"ParseEmpty"})
      BY <1>1, <1>2, <2>2, NewOutcome
    <3>3. QED
      BY <3>1, <3>2 DEF CountersExact, WithOutcome
  <2>3. QED
    BY <2>1, <2>2
<1>7. QED
  BY <1>3, <1>4, <1>5, <1>6 DEF CountersExact, WithOutcome, Counters

\* Each half of record_search adds its caller to one count.
LEMMA SearchCounted ==
    ASSUME NEW r \in Requests, TypeOK, OutcomeShape, CountersExact,
           RecordSearch(r) \/ RecordLatency(r)
    PROVE  CountersExact'
<1>1. outcome' = outcome /\ outcome[r] \in Successes
  BY DEF RecordSearch, RecordLatency, OutcomeShape, Recording
<1>2. \A os : {q \in Requests : outcome'[q] \in os} = WithOutcome(os)
  BY <1>1 DEF WithOutcome
<1>3. Searched \in SUBSET Requests /\ Timed \in SUBSET Requests
  BY DEF Searched, Timed, WithOutcome
<1>4. CASE RecordSearch(r)
  <2>1. /\ counters'["searches"] = counters["searches"] + 1
        /\ \A c \in Counters \ {"searches"} : counters'[c] = counters[c]
    BY <1>4 DEF RecordSearch, Count, TypeOK, Counters
  <2>2. Searched' = Searched \cup {r} /\ r \notin Searched /\ Timed' = Timed
    BY <1>1, <1>4 DEF RecordSearch, GoTo, Searched, Timed, WithOutcome, TypeOK, Recording
  <2>3. QED
    BY <1>2, <1>3, <2>1, <2>2, OneMore DEF CountersExact, WithOutcome, Counters
<1>5. CASE RecordLatency(r)
  <2>1. /\ counters'["latency"] = counters["latency"] + 1
        /\ \A c \in Counters \ {"latency"} : counters'[c] = counters[c]
    BY <1>5 DEF RecordLatency, Count, TypeOK, Counters
  <2>2. Timed' = Timed \cup {r} /\ r \notin Timed /\ Searched' = Searched
    BY <1>1, <1>5 DEF RecordLatency, GoTo, Searched, Timed, WithOutcome, TypeOK, Recording
  <2>3. QED
    BY <1>2, <1>3, <2>1, <2>2, OneMore DEF CountersExact, WithOutcome, Counters
<1>6. QED
  BY <1>4, <1>5

\* Every step keeps the counters exact.
LEMMA CountersNext ==
    TypeOK /\ OutcomeShape /\ CountersExact /\ [Next]_vars => CountersExact'
<1> SUFFICES ASSUME TypeOK, OutcomeShape, CountersExact, [Next]_vars PROVE CountersExact'
  OBVIOUS
<1>1. ASSUME NEW r \in Requests, Step(r) PROVE CountersExact'
  <2>1. CASE RejectParams(r) \/ RouteTimeout(r) \/ Disconnect(r) \/ LookupHit(r) \/ Answer(r)
    <3>1. PICK how \in Closed : pc' = [pc EXCEPT ![r] = how]
      BY <2>1 DEF RejectParams, RouteTimeout, Disconnect, LookupHit, Answer, Close, Closed
    <3>2. outcome' = outcome /\ counters' = counters /\ pc[r] \notin Recording
      BY <2>1 DEF RejectParams, RouteTimeout, Disconnect, LookupHit, Answer, Recording
    <3>3. \A q \in Requests : pc'[q] # pc[q] => {pc[q], pc'[q]} \cap Recording = {}
      BY <3>1, <3>2 DEF TypeOK, Closed, Recording
    <3>4. QED
      BY <3>2, <3>3, NothingCounted
  <2>2. CASE Arrive(r) \/ LookupMiss(r) \/ BodyArrives(r) \/ SetEnds(r)
    <3>1. outcome' = outcome /\ counters' = counters
      BY <2>2 DEF Arrive, LookupMiss, BodyArrives, SetEnds
    <3>2. \A q \in Requests : pc'[q] # pc[q] => {pc[q], pc'[q]} \cap Recording = {}
      BY <2>2 DEF Arrive, LookupMiss, BodyArrives, SetEnds, GoTo, TypeOK, Recording
    <3>3. QED
      BY <3>1, <3>2, NothingCounted
  <2>3. CASE UpstreamFails(r) \/ EngineTimeout(r) \/ ParsePanics(r)
    <3>1. PICK o \in Failures : EngineFails(r, o)
      BY <2>3 DEF UpstreamFails, EngineTimeout, ParsePanics, Failures, Errors
    <3>2. pc[r] \in {"asking", "parsing"}
      BY <2>3 DEF UpstreamFails, EngineTimeout, EngineDue, ParsePanics
    <3>3. QED
      BY <3>1, <3>2, FailureCounted
  <2>4. QED
    BY <1>1, <2>1, <2>2, <2>3, ParseCounted, SearchCounted DEF Step
<1>2. CASE (\E k \in Keys : Expire(k)) \/ Tick \/ UNCHANGED vars
  BY <1>2, NothingCounted DEF Expire, Tick, vars
<1>3. QED
  BY <1>1, <1>2 DEF Next, Quiescent

-----------------------------------------------------------------------------
(* The invariant                                                           *)

\* The server starts with nothing counted and no entry of its own.
LEMMA InvInit == Init => Inv
<1> SUFFICES ASSUME Init PROVE Inv
  OBVIOUS
<1> USE GatewayAssumption
<1>1. TypeOK
  BY AnswerTypes DEF Init, TypeOK, Pc
<1>2. OutcomeShape /\ AnswerShape /\ CacheShape
  BY DEF Init, OutcomeShape, AnswerShape, CacheShape, Recording, Open, NoAnswer
<1>3. CountersExact
  <2>1. Searched = {} /\ Timed = {} /\ WithOutcome(Errors) = {}
        /\ WithOutcome({"Blocked"}) = {} /\ WithOutcome({"Challenged"}) = {}
        /\ WithOutcome({"ParseEmpty"}) = {}
    BY DEF Init, Searched, Timed, WithOutcome, Successes, Errors
  <2>2. QED
    BY <2>1, FS_EmptySet DEF Init, CountersExact, Counters
<1>4. QED
  BY <1>1, <1>2, <1>3 DEF Inv

\* The invariant holds for ever.
LEMMA Invariance == Spec => []Inv
<1>1. Inv /\ [Next]_vars => Inv'
  BY TypesNext, OutcomeNext, AnswerNext, CacheNext, CountersNext DEF Inv
<1>2. QED
  BY InvInit, <1>1, PTL DEF Spec

\* No timeout is overdrawn and every state is one the declarations allow.
THEOREM SearchTypes == Spec => []TypeOK
<1>1. Inv => TypeOK
  BY DEF Inv
<1>2. QED
  BY Invariance, <1>1, PTL

\* Whatever becomes of the callers, each outcome of the engine is counted
\* once and by its kind (metrics.rs:51-76).
THEOREM EveryOutcomeCounted == Spec => []CountersExact
<1>1. Inv => CountersExact
  BY DEF Inv
<1>2. QED
  BY Invariance, <1>1, PTL

-----------------------------------------------------------------------------
(* Refinement of CachedService                                             *)

\* The three variables of the service.
AbsState == [r \in Requests |-> CallState(r)]
AbsSource == [r \in Requests |-> answer[r].from]
AbsProduced == WithOutcome(Successes)

\* A step of r moves only r's state.
LEMMA AbsMove ==
    ASSUME NEW r \in Requests, NEW how, TypeOK,
           pc' = [pc EXCEPT ![r] = how],
           \A q \in Requests \ {r} : answer'[q] = answer[q]
    PROVE  AbsState' = [AbsState EXCEPT ![r] = CallState(r)']
<1>1. \A q \in Requests \ {r} : CallState(q)' = CallState(q)
  BY DEF CallState, TypeOK
<1>2. QED
  BY <1>1 DEF AbsState

\* An answer changes only r's source.
LEMMA AbsAnswer ==
    ASSUME NEW r \in Requests, NEW a, TypeOK, answer' = [answer EXCEPT ![r] = a]
    PROVE  /\ AbsSource' = [AbsSource EXCEPT ![r] = a.from]
           /\ \A q \in Requests \ {r} : answer'[q] = answer[q]
           /\ answer'[r] = a
BY DEF AbsSource, TypeOK

\* Going on with a call shows only in what has been produced.
LEMMA AbsGoOn ==
    ASSUME NEW r \in Requests, NEW how \in Open, TypeOK, pc[r] \in Open,
           pc' = [pc EXCEPT ![r] = how], answer' = answer
    PROVE  AbsState' = AbsState /\ AbsSource' = AbsSource
<1>1. AbsState' = [AbsState EXCEPT ![r] = CallState(r)']
  BY AbsMove
<1>2. CallState(r) = "pending" /\ CallState(r)' = "pending"
  BY DEF CallState, TypeOK, Open, Recording
<1>3. QED
  BY <1>1, <1>2 DEF AbsState, AbsSource

\* A call that is told of a failure is refused.
LEMMA AbsRefuse ==
    ASSUME NEW r \in Requests, NEW e \in Codes \ {"ok"}, TypeOK, AnswerShape,
           pc[r] \in Open \cup {"idle"}, outcome[r] \notin Successes,
           Close(r, "answered", Failure(e)), AbsProduced' = AbsProduced
    PROVE  Service!Refuse(r)
<1>1. Failure(e).from = NoRequest /\ Failure(e).code # "ok"
  BY DEF Failure
<1>2. /\ pc' = [pc EXCEPT ![r] = "answered"]
      /\ answer' = [answer EXCEPT ![r] = Failure(e)]
  BY DEF Close
<1>3. /\ AbsSource' = [AbsSource EXCEPT ![r] = NoRequest]
      /\ \A q \in Requests \ {r} : answer'[q] = answer[q]
      /\ answer'[r] = Failure(e)
  BY <1>1, <1>2, AbsAnswer
<1>4. AbsSource[r] = NoRequest
  BY DEF AbsSource, AnswerShape, NoAnswer
<1>5. AbsSource' = AbsSource
  BY <1>3, <1>4 DEF AbsSource
<1>6. AbsState' = [AbsState EXCEPT ![r] = CallState(r)']
  BY <1>2, <1>3, AbsMove
<1>7. CallState(r) \in {"new", "pending"} /\ CallState(r)' = "failed"
  <2>1. pc'[r] = "answered" /\ answer'[r].code # "ok"
    BY <1>1, <1>2, <1>3 DEF TypeOK
  <2>2. QED
    BY <2>1 DEF CallState, Open, Recording
<1>8. r \notin AbsProduced
  BY DEF AbsProduced, WithOutcome
<1>9. QED
  BY <1>5, <1>6, <1>7, <1>8 DEF Service!Refuse, AbsState, AbsSource, AbsProduced

\* A call answered with the results of p.
LEMMA AbsAnswerWith ==
    ASSUME NEW r \in Requests, NEW p \in Requests, TypeOK,
           pc[r] \in Open, Params[p] = Params[r], outcome[p] \in Successes,
           CallState(p) # "failed", Close(r, "answered", Good(p)), outcome' = outcome
    PROVE  Service!AnswerWith(r, p)
<1>1. Good(p).code = "ok" /\ Good(p).from = p
  BY DEF Good
<1>2. /\ pc' = [pc EXCEPT ![r] = "answered"]
      /\ answer' = [answer EXCEPT ![r] = Good(p)]
  BY DEF Close
<1>3. /\ AbsSource' = [AbsSource EXCEPT ![r] = p]
      /\ \A q \in Requests \ {r} : answer'[q] = answer[q]
      /\ answer'[r] = Good(p)
  <2>1. PICK a : a = Good(p)
    OBVIOUS
  <2>2. answer' = [answer EXCEPT ![r] = a] /\ a.from = p
    BY <1>1, <1>2, <2>1
  <2>3. /\ AbsSource' = [AbsSource EXCEPT ![r] = a.from]
        /\ \A q \in Requests \ {r} : answer'[q] = answer[q]
        /\ answer'[r] = a
    BY <2>2, AbsAnswer
  <2>4. QED
    BY <2>1, <2>2, <2>3
<1>4. AbsState' = [AbsState EXCEPT ![r] = CallState(r)']
  BY <1>2, <1>3, AbsMove
<1>5. CallState(r) = "pending" /\ CallState(r)' = "ok"
  <2>1. pc'[r] = "answered" /\ answer'[r].code = "ok"
    BY <1>1, <1>2, <1>3 DEF TypeOK
  <2>2. QED
    BY <2>1 DEF CallState, Open, Recording
<1>6. p \in AbsProduced /\ AbsProduced' = AbsProduced
  BY DEF AbsProduced, WithOutcome
<1>7. QED
  BY <1>3, <1>4, <1>5, <1>6 DEF Service!AnswerWith, AbsState, AbsSource, AbsProduced

\* The route's timeout and a departure give the call up.
LEMMA AbsGiveUp ==
    ASSUME NEW r \in Requests, TypeOK, AnswerShape, RouteTimeout(r) \/ Disconnect(r)
    PROVE  Service!GiveUp(r)
<1>1. PICK how \in {"cut", "dropped"}, a \in {NoAnswer, Failure("ServiceUnavailable")} :
         Close(r, how, a)
  BY DEF RouteTimeout, Disconnect
<1>2. pc[r] \in Open /\ outcome' = outcome /\ a.from = NoRequest
  BY DEF RouteTimeout, RouteDue, Disconnect, NoAnswer, Failure
<1>3. pc' = [pc EXCEPT ![r] = how] /\ answer' = [answer EXCEPT ![r] = a]
  BY <1>1 DEF Close
<1>4. /\ AbsSource' = [AbsSource EXCEPT ![r] = NoRequest]
      /\ \A q \in Requests \ {r} : answer'[q] = answer[q]
  BY <1>2, <1>3, AbsAnswer
<1>5. AbsSource' = AbsSource
  <2>1. AbsSource[r] = NoRequest
    BY <1>2 DEF AbsSource, AnswerShape, NoAnswer
  <2>2. QED
    BY <1>4, <2>1 DEF AbsSource
<1>6. AbsState' = [AbsState EXCEPT ![r] = CallState(r)']
  BY <1>3, <1>4, AbsMove
<1>7. CallState(r) = "pending" /\ CallState(r)' = "gone"
  BY <1>2, <1>3 DEF CallState, TypeOK, Open, Recording
<1>8. AbsProduced' = AbsProduced
  BY <1>2 DEF AbsProduced, WithOutcome
<1>9. QED
  BY <1>5, <1>6, <1>7, <1>8 DEF Service!GiveUp, AbsState, AbsSource, AbsProduced

\* One key, one set of parameters.
LEMMA KeyTellsParams ==
    ASSUME NEW p \in Requests, NEW r \in Requests, KeyFor(p) = KeyFor(r)
    PROVE  Params[p] = Params[r]
<1>1. /\ Params[p].query = Params[r].query /\ Params[p].page = Params[r].page
      /\ Params[p].safe = Params[r].safe /\ Params[p].lang = Params[r].lang
  BY DEF KeyFor, CacheKey
<1>2. /\ Params[p] = [query |-> Params[p].query, page |-> Params[p].page,
                      safe |-> Params[p].safe, lang |-> Params[p].lang]
      /\ Params[r] = [query |-> Params[r].query, page |-> Params[r].page,
                      safe |-> Params[r].safe, lang |-> Params[r].lang]
  BY GatewayAssumption
<1>3. QED
  BY <1>1, <1>2

\* Every step of a call is a step of the service, or invisible to it.
LEMMA AbsStep ==
    ASSUME NEW r \in Requests, TypeOK, OutcomeShape, AnswerShape, CacheShape, Step(r)
    PROVE  [Service!ServiceNext]_(Service!serviceVars)
<1> USE DEF Service!ServiceNext
<1>1. CASE RejectParams(r)
  <2>1. AbsProduced' = AbsProduced /\ outcome[r] \notin Successes
    BY <1>1 DEF RejectParams, AbsProduced, WithOutcome, OutcomeShape, Successes
  <2>2. Service!Refuse(r)
    BY <1>1, <2>1, AbsRefuse DEF RejectParams, Codes
  <2>3. QED
    BY <2>2
<1>2. CASE Arrive(r)
  <2>1. AbsState' = [AbsState EXCEPT ![r] = CallState(r)']
    BY <1>2, AbsMove DEF Arrive
  <2>2. CallState(r) = "new" /\ CallState(r)' = "pending"
    BY <1>2 DEF Arrive, CallState, TypeOK, Open, Recording
  <2>3. AbsSource' = AbsSource /\ AbsProduced' = AbsProduced
    BY <1>2 DEF Arrive, AbsSource, AbsProduced, WithOutcome
  <2>4. Service!Submit(r)
    BY <2>1, <2>2, <2>3 DEF Service!Submit, AbsState, AbsSource, AbsProduced
  <2>5. QED
    BY <2>4
<1>3. CASE LookupHit(r)
  <2>1. PICK p \in Requests : p = cache[KeyFor(r)]
    BY <1>3 DEF LookupHit
  <2>2. KeyFor(p) = KeyFor(r) /\ Stored(p)
    BY <2>1 DEF CacheShape, Keys
  <2>3. Params[p] = Params[r]
    BY <2>2, KeyTellsParams
  <2>4. CallState(p) # "failed"
    <3>1. pc[p] = "answered" => answer[p].code = "ok"
      <4>1. pc[p] = "answered" => answer[p] = Good(p)
        BY <2>2 DEF Stored, AnswerShape
      <4>2. Good(p).code = "ok"
        BY DEF Good
      <4>3. QED
        BY <4>1, <4>2
    <3>2. pc[p] \in {"storing", "answered", "cut", "dropped"}
      BY <2>2 DEF Stored, Closed
    <3>3. QED
      BY <3>1, <3>2 DEF CallState, Open, Recording
  <2>5. pc[r] \in Open /\ Close(r, "answered", Good(p)) /\ outcome' = outcome
    BY <1>3, <2>1 DEF LookupHit, Open
  <2>6. Service!AnswerWith(r, p)
    BY <2>2, <2>3, <2>4, <2>5, AbsAnswerWith DEF Stored
  <2>7. QED
    BY <2>6
<1>4. CASE Answer(r)
  <2>1. /\ pc[r] \in Open /\ outcome[r] \in Successes /\ CallState(r) # "failed"
        /\ Close(r, "answered", Good(r)) /\ outcome' = outcome
    BY <1>4 DEF Answer, OutcomeShape, CallState, Open, Recording
  <2>2. Service!AnswerWith(r, r)
    BY <2>1, AbsAnswerWith
  <2>3. QED
    BY <2>2
<1>5. CASE UpstreamFails(r) \/ EngineTimeout(r) \/ ParsePanics(r)
  <2>1. PICK o \in Failures : EngineFails(r, o)
    BY <1>5 DEF UpstreamFails, EngineTimeout, ParsePanics, Failures, Errors
  <2>2. pc[r] \in Open /\ outcome[r] = "none"
    BY <1>5 DEF UpstreamFails, EngineTimeout, EngineDue, ParsePanics, OutcomeShape, Open
  <2>3. AbsProduced' = AbsProduced
    BY <2>1, <2>2
       DEF EngineFails, AbsProduced, WithOutcome, TypeOK, Successes, Failures, Errors
  <2>4. ErrorCode(o) \in Codes \ {"ok"}
    BY DEF ErrorCode, Codes
  <2>5. Close(r, "answered", Failure(ErrorCode(o)))
    BY <2>1 DEF EngineFails
  <2>6. Service!Refuse(r)
    BY <2>2, <2>3, <2>4, <2>5, AbsRefuse DEF Successes
  <2>7. QED
    BY <2>6
<1>6. CASE LookupMiss(r) \/ BodyArrives(r) \/ RecordSearch(r) \/ RecordLatency(r)
  <2>1. PICK how \in Open : pc' = [pc EXCEPT ![r] = how]
    BY <1>6 DEF LookupMiss, BodyArrives, RecordSearch, RecordLatency, GoTo, Open, Recording
  <2>2. pc[r] \in Open /\ answer' = answer /\ outcome' = outcome
    BY <1>6 DEF LookupMiss, BodyArrives, RecordSearch, RecordLatency, GoTo, Open, Recording
  <2>3. AbsState' = AbsState /\ AbsSource' = AbsSource /\ AbsProduced' = AbsProduced
    BY <2>1, <2>2, AbsGoOn DEF AbsProduced, WithOutcome
  <2>4. QED
    BY <2>3 DEF Service!serviceVars, AbsState, AbsSource, AbsProduced
<1>7. CASE ParseEnds(r)
  <2>1. PICK o \in Successes : outcome' = [outcome EXCEPT ![r] = o]
    BY <1>7 DEF ParseEnds
  <2>2. pc[r] \in Open /\ answer' = answer /\ pc' = [pc EXCEPT ![r] = "recording"]
    BY <1>7 DEF ParseEnds, GoTo, Open
  <2>3. AbsState' = AbsState /\ AbsSource' = AbsSource
    BY <2>2, AbsGoOn DEF Open, Recording
  <2>4. AbsProduced' = AbsProduced \cup {r} /\ CallState(r) # "new"
    BY <2>1, <2>2 DEF AbsProduced, WithOutcome, TypeOK, CallState, Open, Recording
  <2>5. Service!Produce(r)
    BY <2>3, <2>4 DEF Service!Produce, AbsState, AbsSource, AbsProduced
  <2>6. QED
    BY <2>5
<1>8. CASE RouteTimeout(r) \/ Disconnect(r)
  BY <1>8, AbsGiveUp
<1>9. CASE SetEnds(r)
  BY <1>9 DEF SetEnds, Service!serviceVars, CallState, WithOutcome
<1>10. QED
  BY <1>1, <1>2, <1>3, <1>4, <1>5, <1>6, <1>7, <1>8, <1>9 DEF Step

\* Both gateways share a cache and yet never answer one search with another
\* one's results, nor with a failure's, nor twice (gateway/mod.rs:28-35).
THEOREM SearchImplementsService == Spec => ImplementsService
<1>1. ASSUME Init PROVE Service!ServiceInit
  <2>1. AbsState = [r \in Requests |-> "new"]
    <3>1. \A r \in Requests : CallState(r) = "new"
      BY <1>1 DEF Init, CallState, Open, Recording
    <3>2. QED
      BY <3>1 DEF AbsState
  <2>2. AbsSource = [r \in Requests |-> NoRequest]
    BY <1>1 DEF Init, AbsSource, NoAnswer
  <2>3. AbsProduced = {}
    BY <1>1 DEF Init, AbsProduced, WithOutcome, Successes
  <2>4. QED
    BY <2>1, <2>2, <2>3 DEF Service!ServiceInit, AbsState, AbsSource, AbsProduced
<1>2. Inv /\ [Next]_vars => [Service!ServiceNext]_(Service!serviceVars)
  <2> SUFFICES ASSUME Inv, [Next]_vars PROVE [Service!ServiceNext]_(Service!serviceVars)
    OBVIOUS
  <2>1. CASE \E r \in Requests : Step(r)
    BY <2>1, AbsStep DEF Inv
  <2>2. CASE (\E k \in Keys : Expire(k)) \/ Tick \/ UNCHANGED vars
    <3>1. pc' = pc /\ answer' = answer /\ outcome' = outcome
      BY <2>2 DEF Expire, Tick, vars
    <3>2. QED
      BY <3>1 DEF Service!serviceVars, CallState, WithOutcome
  <2>3. QED
    BY <2>1, <2>2 DEF Next, Quiescent
<1>3. QED
  BY Invariance, <1>1, <1>2, PTL DEF Spec, ImplementsService, Service!ServiceSpec

-----------------------------------------------------------------------------
(* Searches run down                                                       *)

\* How far a search has come.
Rank ==
    [p \in Pc |->
        CASE p = "idle" -> 0
          [] p = "lookup" -> 1
          [] p = "asking" -> 2
          [] p = "parsing" -> 3
          [] p = "recording" -> 4
          [] p = "recorded" -> 5
          [] p = "storing" -> 6
          [] p \in Closed -> 7]

\* The search has a clock that runs: the engine's, the route's.
EngineRuns(r) == pc[r] = "asking"
RouteRuns(r) == r \in HttpRequests /\ pc[r] \in Open

\* No step moves a search back, or takes back what it came to.
GoesOn(r) ==
    /\ pc'[r] # pc[r] => Rank[pc[r]] < Rank[pc'[r]]
    /\ pc[r] \in Closed => answer'[r] = answer[r]
    /\ pc[r] \in Closed \/ outcome[r] # "none" => outcome'[r] = outcome[r]

\* What EverySearchReturns rests on, step by step (http.rs:236-239,
\* duckduckgo.rs:266): no search goes back, what it came to is never taken
\* back, and time passes for all searches or for none, one tick of every
\* timeout at a time; nothing starts a timeout again.
RunsDown ==
    \A r \in Requests :
        /\ GoesOn(r)
        /\ (\E q \in Requests :
               \/ EngineRuns(q) /\ EngineRuns(q)' /\ engineLeft'[q] # engineLeft[q]
               \/ RouteRuns(q) /\ RouteRuns(q)' /\ routeLeft'[q] # routeLeft[q])
           => /\ pc' = pc
              /\ EngineRuns(r) => engineLeft'[r] = engineLeft[r] - 1
              /\ RouteRuns(r) => routeLeft'[r] = routeLeft[r] - 1

\* A failure of the engine ends the search.
LEMMA FailureEnds ==
    ASSUME NEW r \in Requests, TypeOK, UpstreamFails(r) \/ EngineTimeout(r) \/ ParsePanics(r)
    PROVE  /\ pc[r] \in {"asking", "parsing"}
           /\ \E o \in Failures : /\ Close(r, "answered", Failure(ErrorCode(o)))
                                  /\ outcome' = [outcome EXCEPT ![r] = o]
BY DEF UpstreamFails, EngineTimeout, EngineDue, ParsePanics, EngineFails, Failures, Errors

\* A step of one search leaves the clocks of those that go on alone.
LEMMA ClocksOfOthers ==
    ASSUME NEW r \in Requests, NEW q \in Requests, TypeOK, Step(r)
    PROVE  /\ EngineRuns(q) /\ EngineRuns(q)' => engineLeft'[q] = engineLeft[q]
           /\ RouteRuns(q) /\ RouteRuns(q)' => routeLeft'[q] = routeLeft[q]
<1> USE DEF EngineRuns, RouteRuns, TypeOK, Open, Recording
<1>1. CASE UpstreamFails(r) \/ EngineTimeout(r) \/ ParsePanics(r)
  BY <1>1, FailureEnds DEF Close
<1>2. CASE RejectParams(r) \/ LookupHit(r) \/ Answer(r) \/ RouteTimeout(r) \/ Disconnect(r)
  BY <1>2 DEF RejectParams, LookupHit, Answer, RouteTimeout, Disconnect, Close
<1>3. CASE Arrive(r) \/ LookupMiss(r) \/ BodyArrives(r)
  BY <1>3 DEF Arrive, LookupMiss, BodyArrives, GoTo
<1>4. CASE ParseEnds(r) \/ RecordSearch(r) \/ RecordLatency(r) \/ SetEnds(r)
  BY <1>4 DEF ParseEnds, RecordSearch, RecordLatency, SetEnds, GoTo
<1>5. QED
  BY <1>1, <1>2, <1>3, <1>4 DEF Step

\* Every step of a search takes it, if anywhere, further.
LEMMA StepGoesOn ==
    ASSUME NEW r \in Requests, NEW q \in Requests, TypeOK, OutcomeShape, Step(r)
    PROVE  GoesOn(q)
<1> USE DEF GoesOn, Rank, TypeOK, Pc, Open, Closed, Recording
<1>1. CASE UpstreamFails(r) \/ EngineTimeout(r) \/ ParsePanics(r)
  <2>1. outcome[r] = "none"
    BY <1>1, FailureEnds DEF OutcomeShape
  <2>2. QED
    BY <1>1, <2>1, FailureEnds DEF Close
<1>2. CASE RejectParams(r) \/ LookupHit(r) \/ Answer(r) \/ RouteTimeout(r) \/ Disconnect(r)
  BY <1>2 DEF RejectParams, LookupHit, Answer, RouteTimeout, RouteDue, Disconnect, Close
<1>3. CASE Arrive(r) \/ LookupMiss(r) \/ BodyArrives(r)
  BY <1>3 DEF Arrive, LookupMiss, BodyArrives, GoTo
<1>4. CASE ParseEnds(r)
  BY <1>4 DEF ParseEnds, GoTo, OutcomeShape
<1>5. CASE RecordSearch(r) \/ RecordLatency(r) \/ SetEnds(r)
  BY <1>5 DEF RecordSearch, RecordLatency, SetEnds, GoTo
<1>6. QED
  BY <1>1, <1>2, <1>3, <1>4, <1>5 DEF Step

\* Whatever hangs (DuckDuckGo, the parser, Redis), each search can only run
\* down: that it returns is then a matter of time passing.
THEOREM SearchesRunDown == Spec => [][RunsDown]_vars
<1>1. Inv /\ [Next]_vars => [RunsDown]_vars
  <2> SUFFICES ASSUME Inv, Next PROVE RunsDown \/ UNCHANGED vars
    OBVIOUS
  <2>1. CASE \E r \in Requests : Step(r)
    BY <2>1, ClocksOfOthers, StepGoesOn DEF Inv, RunsDown
  <2>2. CASE \E k \in Keys : Expire(k)
    BY <2>2 DEF Expire, RunsDown, GoesOn
  <2>3. CASE Tick
    BY <2>3 DEF Tick, RunsDown, GoesOn, Inv, TypeOK, EngineRuns, RouteRuns
  <2>4. QED
    BY <2>1, <2>2, <2>3 DEF Next, Quiescent
<1>2. QED
  BY Invariance, <1>1, PTL DEF Spec

-----------------------------------------------------------------------------
(* Answers                                                                 *)

\* Who is answered "ok" is answered with the results of a search for the very
\* same words, page, level and language, which DuckDuckGo answered: its own if
\* it asked the engine, and another one's if it did not (gateway/mod.rs:28-35,
\* http.rs:629-690); and the one who found them was not told of a failure.
AnswersTrue ==
    \A r \in Requests :
        answer[r].code = "ok" =>
            \E p \in Requests :
                /\ answer[r].from = p /\ Params[p] = Params[r]
                /\ outcome[r] # "none" <=> p = r
                /\ Stored(p)
                /\ pc[p] = "answered" => answer[p] = Good(p)

\* The answers stay true, and new ones are.
LEMMA AnswersTrueNext == Inv /\ AnswersTrue /\ [Next]_vars => AnswersTrue'
<1> SUFFICES ASSUME Inv, AnswersTrue, [Next]_vars,
                    NEW q \in Requests, answer'[q].code = "ok"
             PROVE  \E p \in Requests :
                        /\ answer'[q].from = p /\ Params[p] = Params[q]
                        /\ outcome'[q] # "none" <=> p = q
                        /\ Stored(p)'
                        /\ pc'[p] = "answered" => answer'[p] = Good(p)'
  BY DEF AnswersTrue
<1>0. \A p \in Requests : Good(p)' = Good(p)
  BY DEF Good
<1>1. AnswerShape'
  BY AnswerNext DEF Inv
<1>2. ASSUME NEW p \in Requests, Stored(p)
      PROVE  Stored(p)' /\ (pc'[p] = "answered" => answer'[p] = Good(p)')
  <2>1. Stored(p)'
    BY <1>2, StoredNext DEF Inv
  <2>2. QED
    BY <2>1, <1>1 DEF Stored, AnswerShape
<1>3. CASE answer'[q] = answer[q] /\ outcome'[q] = outcome[q]
  BY <1>2, <1>3 DEF AnswersTrue
<1>4. CASE answer'[q] = answer[q] /\ outcome'[q] # outcome[q]
  <2>1. PICK r \in Requests : Step(r)
    BY <1>4 DEF Next, Expire, Tick, Quiescent, vars
  <2>2. pc[q] \notin Closed
    BY <1>4, <2>1, StepGoesOn DEF Inv, GoesOn
  <2>3. answer[q] = NoAnswer
    BY <2>2 DEF Inv, AnswerShape, TypeOK, Pc
  <2>4. QED
    BY <1>4, <2>3 DEF NoAnswer
<1>5. CASE answer'[q] # answer[q]
  <2>1. PICK r \in Requests : Step(r)
    BY <1>5 DEF Next, Expire, Tick, Quiescent, vars
  <2>2. CASE LookupHit(r)
    <3>1. PICK p \in Requests : p = cache[KeyFor(r)]
      BY <2>2 DEF LookupHit
    <3>2. q = r /\ answer'[q] = Good(p) /\ pc[r] = "lookup" /\ outcome' = outcome
      BY <1>5, <2>2, <3>1 DEF LookupHit, Close, Inv, TypeOK
    <3>3. KeyFor(p) = KeyFor(r) /\ Stored(p)
      BY <3>1 DEF Inv, CacheShape, Keys
    <3>4. Params[p] = Params[r] /\ p # r
      BY <3>2, <3>3, KeyTellsParams DEF Stored, Closed
    <3>5. outcome'[q] = "none"
      BY <3>2 DEF Inv, OutcomeShape
    <3>6. QED
      BY <1>2, <3>2, <3>3, <3>4, <3>5 DEF Good
  <2>3. CASE Answer(r)
    <3>1. q = r /\ answer'[q] = Good(r) /\ pc[r] = "storing" /\ outcome' = outcome
      BY <1>5, <2>3 DEF Answer, Close, Inv, TypeOK
    <3>2. outcome[r] \in Successes /\ Stored(r)
      BY <3>1 DEF Inv, OutcomeShape, Stored
    <3>3. outcome[r] # "none"
      BY <3>2 DEF Successes
    <3>4. QED
      BY <1>2, <3>1, <3>2, <3>3 DEF Good
  <2>4. CASE UpstreamFails(r) \/ EngineTimeout(r) \/ ParsePanics(r)
    <3>1. \E o \in Failures : answer'[q] = Failure(ErrorCode(o))
      BY <1>5, <2>4, FailureEnds DEF Close, Inv, TypeOK
    <3>2. QED
      BY <3>1 DEF Failure, ErrorCode
  <2>5. CASE RejectParams(r) \/ RouteTimeout(r) \/ Disconnect(r)
    BY <1>5, <2>5
       DEF RejectParams, RouteTimeout, Disconnect, Close, Failure, NoAnswer, Inv, TypeOK
  <2>6. QED
    BY <1>5, <2>1, <2>2, <2>3, <2>4, <2>5
       DEF Step, Arrive, LookupMiss, BodyArrives, ParseEnds, RecordSearch, RecordLatency,
           SetEnds, GoTo
<1>6. QED
  BY <1>3, <1>4, <1>5

\* Every page of results of either gateway is true, for ever.
THEOREM OkAnswersTrue == Spec => []AnswersTrue
<1>1. Init => AnswersTrue
  BY DEF Init, AnswersTrue, NoAnswer
<1>2. QED
  BY Invariance, AnswersTrueNext, <1>1, PTL DEF Spec

-----------------------------------------------------------------------------
(* Outages                                                                 *)

\* The counters of failures.
FailureCounters == {"errors", "blocked", "challenged"}

\* What is true of the promise that OutageShowsUp states (metrics.rs:10-13):
\* a failure that the engine reports, its own timeout included, moves exactly
\* one counter, by one; and a search that the route's timeout cuts, or whose
\* client goes, moves none, however long DuckDuckGo had been silent.
FailuresShowUp ==
    \A r \in Requests :
        pc[r] \in {"asking", "parsing"} =>
            /\ pc'[r] = "answered" =>
                  \E c \in FailureCounters : counters' = [counters EXCEPT ![c] = @ + 1]
            /\ pc'[r] \in {"cut", "dropped"} => counters' = counters

\* A failure that the engine itself reports shows up in the counters, for any
\* calls and timeouts.
THEOREM EngineFailuresShowUp == Spec => [][FailuresShowUp]_vars
<1>1. Inv /\ [Next]_vars => [FailuresShowUp]_vars
  <2> SUFFICES ASSUME Inv, Next, NEW r \in Requests, pc[r] \in {"asking", "parsing"},
                      pc'[r] \in Closed
               PROVE  /\ pc'[r] = "answered" =>
                            \E c \in FailureCounters :
                                counters' = [counters EXCEPT ![c] = @ + 1]
                      /\ pc'[r] \in {"cut", "dropped"} => counters' = counters
    BY DEF FailuresShowUp, Closed
  <2>1. pc'[r] # pc[r]
    BY DEF Closed
  <2>2. PICK q \in Requests : Step(q)
    BY <2>1 DEF Next, Expire, Tick, Quiescent, vars
  <2>3. CASE UpstreamFails(q) \/ EngineTimeout(q) \/ ParsePanics(q)
    <3>1. PICK o \in Failures : EngineFails(q, o)
      BY <2>3 DEF UpstreamFails, EngineTimeout, ParsePanics, Failures, Errors
    <3>2. q = r /\ pc'[r] = "answered"
      BY <2>1, <3>1 DEF EngineFails, Close, Inv, TypeOK
    <3>3. CounterOf(o) \in FailureCounters
      BY DEF CounterOf, FailureCounters, Failures, Errors
    <3>4. counters' = [counters EXCEPT ![CounterOf(o)] = @ + 1]
      BY <3>1 DEF EngineFails, Count
    <3>5. QED
      BY <3>2, <3>3, <3>4
  <2>4. CASE RouteTimeout(q) \/ Disconnect(q)
    BY <2>1, <2>4 DEF RouteTimeout, Disconnect, Close, Inv, TypeOK
  <2>5. CASE RejectParams(q) \/ LookupHit(q) \/ Answer(q)
    BY <2>1, <2>5 DEF RejectParams, LookupHit, Answer, Close, Inv, TypeOK
  <2>6. CASE \/ Arrive(q) \/ LookupMiss(q) \/ BodyArrives(q) \/ ParseEnds(q)
             \/ RecordSearch(q) \/ RecordLatency(q) \/ SetEnds(q)
    BY <2>1, <2>6
       DEF Arrive, LookupMiss, BodyArrives, ParseEnds, RecordSearch, RecordLatency,
           SetEnds, GoTo, Inv, TypeOK, Closed
  <2>7. QED
    BY <2>2, <2>3, <2>4, <2>5, <2>6 DEF Step
<1>2. QED
  BY Invariance, <1>1, PTL DEF Spec
=============================================================================
