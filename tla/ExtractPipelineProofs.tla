----------------------- MODULE ExtractPipelineProofs -----------------------
(***************************************************************************)
(* What holds of ExtractPipeline for every set of calls, every key and     *)
(* every value of the limits and budgets.                                  *)
(***************************************************************************)
EXTENDS ExtractPipeline, FiniteSetTheorems, WellFoundedInduction, TLAPS

\* The part of TypeOK that is inductive by itself: the bound on permits
\* needs the accounting below.
Typed ==
    /\ pc \in [Requests -> Pc]
    /\ ahead \in [Requests -> SUBSET Requests]
    /\ permits \in Nat
    /\ job \in [Requests -> Jobs]
    /\ cache \in [Keys -> CacheEntries]
    /\ setting \subseteq Requests
    /\ result \in [Requests -> Results]
    /\ innerLeft \in [Requests -> 0..InnerBudget]
    /\ outerLeft \in [Requests -> 0..OuterBudget]

-----------------------------------------------------------------------------
(* Types                                                                   *)

\* Every answer the model builds is a well-formed result.
LEMMA ResultTypes ==
    /\ \A e \in Errors : Failure(e) \in Results
    /\ \A r \in Requests : Fresh(r) \in Results /\ Hit(r) \in Results
    /\ NoResult \in Results
BY DEF Failure, Fresh, Hit, NoResult, Results, Errors

\* Init establishes the types.
LEMMA TypedInit == Init => Typed
BY PipelineAssumption, ResultTypes
   DEF Init, Typed, Pc, Open, Closed, Span, Holding, Jobs, CacheEntries

\* Leaving the timed span keeps the types of what it changes.
LEMMA DropSpanTypes ==
    ASSUME NEW r \in Requests, Typed, DropSpan(r)
    PROVE  /\ permits' \in Nat
           /\ ahead' \in [Requests -> SUBSET Requests]
           /\ innerLeft' \in [Requests -> 0..InnerBudget]
BY PipelineAssumption DEF Typed, DropSpan, Release, LeaveQueue

\* So does a failure inside the span.
LEMMA FailTypes ==
    ASSUME NEW r \in Requests, NEW e \in Errors, Typed, Fail(r, e)
    PROVE  Typed'
<1>1. /\ permits' \in Nat
      /\ ahead' \in [Requests -> SUBSET Requests]
      /\ innerLeft' \in [Requests -> 0..InnerBudget]
  BY DropSpanTypes DEF Fail
<1>2. Failure(e) \in Results
  BY ResultTypes
<1>3. /\ pc' \in [Requests -> Pc]
      /\ outerLeft' \in [Requests -> 0..OuterBudget]
  BY PipelineAssumption DEF Fail, Close, Typed, Pc, Closed
<1>4. /\ result' \in [Requests -> Results]
      /\ job' \in [Requests -> Jobs]
      /\ cache' \in [Keys -> CacheEntries]
      /\ setting' \subseteq Requests
  BY <1>2 DEF Fail, Typed
<1>5. QED
  BY <1>1, <1>3, <1>4 DEF Typed

\* Every step of a call keeps the types.
LEMMA TypedStep ==
    ASSUME NEW r \in Requests, Typed, Step(r)
    PROVE  Typed'
<1> USE PipelineAssumption
<1>1. CASE RejectUrl(r)
  BY <1>1, ResultTypes
     DEF RejectUrl, Close, Typed, Pc, Open, Closed, Span, Holding, Errors, FetchErrors
<1>2. CASE Arrive(r)
  BY <1>2 DEF Arrive, Typed, Pc, Open, Closed, Span, Holding
<1>3. CASE LookupHit(r)
  BY <1>3, ResultTypes
     DEF LookupHit, Close, Typed, Pc, Open, Closed, Span, Holding
<1>4. CASE LookupMiss(r)
  BY <1>4 DEF LookupMiss, Waiting, Typed, Pc, Open, Closed, Span, Holding
<1>5. CASE Acquire(r)
  BY <1>5 DEF Acquire, CanAcquire, LeaveQueue, Typed, Pc, Open, Closed, Span, Holding
<1>6. CASE FetchFail(r)
  BY <1>6, FailTypes DEF FetchFail, Errors
<1>7. CASE FetchOk(r)
  BY <1>7 DEF FetchOk, Typed, Pc, Open, Closed, Span, Holding
<1>8. CASE ReadFail(r)
  BY <1>8, FailTypes DEF ReadFail, Errors
<1>9. CASE SpawnParse(r)
  BY <1>9 DEF SpawnParse, Typed, Jobs, Pc, Open, Closed, Span, Holding
<1>10. CASE JoinPanicked(r)
  BY <1>10, FailTypes DEF JoinPanicked, Errors, ReadErrors
<1>11. CASE JoinFinished(r)
  BY <1>11, DropSpanTypes DEF JoinFinished, Typed, Pc, Open, Closed, Span, Holding
<1>12. CASE SetEnds(r)
  BY <1>12 DEF SetEnds, Typed, CacheEntries
<1>13. CASE InnerTimeout(r)
  BY <1>13, FailTypes DEF InnerTimeout, Errors
<1>14. CASE OuterTimeout(r)
  BY <1>14, DropSpanTypes, ResultTypes
     DEF OuterTimeout, Close, Typed, CacheEntries, Pc, Open, Closed, Span, Holding,
         Errors, FetchErrors
<1>15. CASE Disconnect(r)
  BY <1>15, DropSpanTypes
     DEF Disconnect, Close, Typed, CacheEntries, Pc, Open, Closed, Span, Holding
<1>16. CASE JobEnds(r)
  BY <1>16 DEF JobEnds, Typed, Jobs
<1>17. CASE Answer(r)
  BY <1>17, ResultTypes
     DEF Answer, Close, Typed, Pc, Open, Closed, Span, Holding
<1>18. QED
  BY <1>1, <1>2, <1>3, <1>4, <1>5, <1>6, <1>7, <1>8, <1>9, <1>10, <1>11, <1>12,
     <1>13, <1>14, <1>15, <1>16, <1>17 DEF Step

\* No budget is overdrawn: a tick waits for the timers that are due.
LEMMA TypedTick ==
    ASSUME Typed, Tick
    PROVE  Typed'
BY PipelineAssumption DEF Tick, Typed, InnerDue, OuterDue

\* Types are kept by every step of the specification.
LEMMA TypedNext == Typed /\ [Next]_vars => Typed'
<1> SUFFICES ASSUME Typed, [Next]_vars PROVE Typed'
  OBVIOUS
<1>1. CASE \E r \in Requests : Step(r)
  BY <1>1, TypedStep
<1>2. CASE \E k \in Keys : Expire(k)
  BY <1>2 DEF Expire, Typed, CacheEntries
<1>3. CASE Tick
  BY <1>3, TypedTick
<1>4. CASE UNCHANGED vars
  BY <1>4 DEF vars, Typed
<1>5. QED
  BY <1>1, <1>2, <1>3, <1>4 DEF Next, Quiescent

-----------------------------------------------------------------------------
(* Permits                                                                 *)

\* Only finitely many calls hold a permit.
LEMMA HoldersFinite ==
    /\ IsFiniteSet(Holders)
    /\ Cardinality(Holders) \in Nat
BY PipelineAssumption, FS_Subset, FS_CardinalityType DEF Holders

\* A step that changes neither the permits nor who holds one.
LEMMA AccountingUntouched ==
    ASSUME PermitAccounting, permits' = permits,
           \A q \in Requests : pc'[q] \in Holding <=> pc[q] \in Holding
    PROVE  PermitAccounting'
<1>1. Holders' = Holders
  BY DEF Holders
<1>2. QED
  BY <1>1 DEF PermitAccounting

\* Leaving the span gives back the permit, and only if there was one.
LEMMA AccountingDrop ==
    ASSUME NEW r \in Requests, NEW how \in Pc \ Holding, Typed, PermitAccounting,
           DropSpan(r), pc' = [pc EXCEPT ![r] = how]
    PROVE  PermitAccounting'
<1>1. CASE pc[r] \in Holding
  <2>1. r \in Holders /\ Holders' = Holders \ {r}
    BY <1>1 DEF Holders, Typed
  <2>2. Cardinality(Holders') = Cardinality(Holders) - 1
    BY <2>1, HoldersFinite, FS_RemoveElement
  <2>3. permits' = permits + 1
    BY <1>1 DEF DropSpan, Release
  <2>4. QED
    BY <2>2, <2>3, HoldersFinite, PipelineAssumption DEF PermitAccounting, Typed
<1>2. CASE pc[r] \notin Holding
  <2>1. permits' = permits
    BY <1>2 DEF DropSpan, Release
  <2>2. \A q \in Requests : pc'[q] \in Holding <=> pc[q] \in Holding
    BY <1>2 DEF Typed
  <2>3. QED
    BY <2>1, <2>2, AccountingUntouched
<1>3. QED
  BY <1>1, <1>2

\* A waiter that gets a permit becomes a holder.
LEMMA AccountingAcquire ==
    ASSUME NEW r \in Requests, Typed, PermitAccounting, Acquire(r)
    PROVE  PermitAccounting'
<1>1. r \notin Holders /\ Holders' = Holders \cup {r}
  BY DEF Acquire, CanAcquire, Holders, Holding, Typed
<1>2. Cardinality(Holders') = Cardinality(Holders) + 1
  BY <1>1, HoldersFinite, FS_AddElement
<1>3. permits' = permits - 1
  BY DEF Acquire
<1>4. QED
  BY <1>2, <1>3, HoldersFinite, PipelineAssumption DEF PermitAccounting, Typed

\* A failure is a departure from the span.
LEMMA AccountingFail ==
    ASSUME NEW r \in Requests, NEW e, Typed, PermitAccounting, Fail(r, e)
    PROVE  PermitAccounting'
<1>1. "answered" \in Pc \ Holding
  BY DEF Pc, Closed, Holding
<1>2. DropSpan(r) /\ pc' = [pc EXCEPT ![r] = "answered"]
  BY DEF Fail, Close
<1>3. QED
  BY <1>1, <1>2, AccountingDrop

\* Every step of a call keeps the account.
LEMMA AccountingStep ==
    ASSUME NEW r \in Requests, Typed, PermitAccounting, Step(r)
    PROVE  PermitAccounting'
<1> DEFINE SameHolders ==
      \A q \in Requests : pc'[q] \in Holding <=> pc[q] \in Holding
<1>1. CASE RejectUrl(r) \/ LookupHit(r) \/ Answer(r)
  <2>1. SameHolders
    BY <1>1 DEF RejectUrl, LookupHit, Answer, Close, Holding, Typed
  <2>2. permits' = permits
    BY <1>1 DEF RejectUrl, LookupHit, Answer
  <2>3. QED
    BY <2>1, <2>2, AccountingUntouched
<1>2. CASE Arrive(r) \/ LookupMiss(r) \/ FetchOk(r) \/ SpawnParse(r)
  <2>1. SameHolders
    BY <1>2 DEF Arrive, LookupMiss, FetchOk, SpawnParse, Holding, Typed
  <2>2. permits' = permits
    BY <1>2 DEF Arrive, LookupMiss, FetchOk, SpawnParse
  <2>3. QED
    BY <2>1, <2>2, AccountingUntouched
<1>3. CASE Acquire(r)
  BY <1>3, AccountingAcquire
<1>4. CASE FetchFail(r) \/ ReadFail(r) \/ JoinPanicked(r) \/ InnerTimeout(r)
  BY <1>4, AccountingFail DEF FetchFail, ReadFail, JoinPanicked, InnerTimeout
<1>5. CASE JoinFinished(r) \/ OuterTimeout(r) \/ Disconnect(r)
  <2>1. {"storing", "cut", "dropped"} \subseteq Pc \ Holding
    BY DEF Pc, Open, Closed, Holding
  <2>2. /\ DropSpan(r)
        /\ \E how \in {"storing", "cut", "dropped"} : pc' = [pc EXCEPT ![r] = how]
    BY <1>5 DEF JoinFinished, OuterTimeout, Disconnect, Close
  <2>3. QED
    BY <2>1, <2>2, AccountingDrop
<1>6. CASE JobEnds(r) \/ SetEnds(r)
  BY <1>6, AccountingUntouched DEF JobEnds, SetEnds
<1>7. QED
  BY <1>1, <1>2, <1>3, <1>4, <1>5, <1>6 DEF Step

\* Initially nobody holds a permit and all of them are in the semaphore.
LEMMA AccountingInit == Init => PermitAccounting
<1> SUFFICES ASSUME Init PROVE PermitAccounting
  OBVIOUS
<1>1. Holders = {}
  BY DEF Init, Holders, Holding
<1>2. QED
  BY <1>1, FS_EmptySet, PipelineAssumption DEF Init, PermitAccounting

\* The account is kept by every step of the specification.
LEMMA AccountingNext == Typed /\ PermitAccounting /\ [Next]_vars => PermitAccounting'
<1> SUFFICES ASSUME Typed, PermitAccounting, [Next]_vars PROVE PermitAccounting'
  OBVIOUS
<1>1. CASE \E r \in Requests : Step(r)
  BY <1>1, AccountingStep
<1>2. CASE (\E k \in Keys : Expire(k)) \/ Tick \/ UNCHANGED vars
  BY <1>2, AccountingUntouched DEF Expire, Tick, vars
<1>3. QED
  BY <1>1, <1>2 DEF Next, Quiescent

\* With the account the permit count is bounded, so the types are all right.
LEMMA TypesFollow == Typed /\ PermitAccounting => TypeOK
BY HoldersFinite, PipelineAssumption DEF Typed, PermitAccounting, TypeOK

\* Type correctness, for any number of calls and permits.
THEOREM TypeCorrect == Spec => []TypeOK
<1>1. Init => Typed /\ PermitAccounting
  BY TypedInit, AccountingInit
<1>2. Typed /\ PermitAccounting /\ [Next]_vars => Typed' /\ PermitAccounting'
  BY TypedNext, AccountingNext
<1>3. QED
  BY <1>1, <1>2, TypesFollow, PTL DEF Spec

\* No path out of the span (error, panic, either timeout, hang-up) loses or
\* duplicates a permit of the ExtractLimiter.
THEOREM PermitsAccounted == Spec => []PermitAccounting
<1>1. Init => Typed /\ PermitAccounting
  BY TypedInit, AccountingInit
<1>2. Typed /\ PermitAccounting /\ [Next]_vars => Typed' /\ PermitAccounting'
  BY TypedNext, AccountingNext
<1>3. QED
  BY <1>1, <1>2, PTL DEF Spec

-----------------------------------------------------------------------------
(* The semaphore's queue                                                   *)

\* A step that moves nobody into or out of the queue.
LEMMA QueueUntouched ==
    ASSUME QueueOrder, ahead' = ahead,
           \A q \in Requests : pc'[q] = "queued" <=> pc[q] = "queued"
    PROVE  QueueOrder'
BY DEF QueueOrder, Waiting

\* Whoever leaves is taken out of everybody's way, wherever it stood.
LEMMA QueueLeave ==
    ASSUME NEW r \in Requests, NEW how \in Pc \ {"queued"}, Typed, QueueOrder,
           LeaveQueue(r), pc' = [pc EXCEPT ![r] = how]
    PROVE  QueueOrder'
<1>1. Waiting' = Waiting \ {r}
  BY DEF Waiting, Typed
<1>2. \A q \in Requests : ahead'[q] = IF q = r THEN {} ELSE ahead[q] \ {r}
  BY DEF LeaveQueue
<1>3. SUFFICES ASSUME NEW q \in Requests
               PROVE  /\ ahead'[q] \subseteq Waiting' \ {q}
                      /\ pc'[q] # "queued" => ahead'[q] = {}
                      /\ \A p \in ahead'[q] : ahead'[p] \subseteq ahead'[q]
                      /\ \A p \in Waiting' \ {q} :
                            pc'[q] = "queued" => p \in ahead'[q] \/ q \in ahead'[p]
  BY DEF QueueOrder
<1>4. ahead'[q] \subseteq Waiting' \ {q} /\ (pc'[q] # "queued" => ahead'[q] = {})
  <2>1. ahead[q] \subseteq Waiting \ {q} /\ (pc[q] # "queued" => ahead[q] = {})
    BY DEF QueueOrder
  <2>2. q # r => pc'[q] = pc[q]
    BY DEF Typed
  <2>3. QED
    BY <1>1, <1>2, <2>1, <2>2
<1>5. \A p \in ahead'[q] : ahead'[p] \subseteq ahead'[q]
  <2>1. SUFFICES ASSUME NEW p \in ahead'[q]
                 PROVE  ahead'[p] \subseteq ahead'[q]
    OBVIOUS
  <2>2. p \in Requests /\ p # r /\ q # r /\ p \in ahead[q]
    BY <1>2, <1>4, <1>1 DEF Waiting
  <2>3. ahead[p] \subseteq ahead[q]
    BY <2>2 DEF QueueOrder
  <2>4. QED
    BY <1>2, <2>2, <2>3
<1>6. \A p \in Waiting' \ {q} :
         pc'[q] = "queued" => p \in ahead'[q] \/ q \in ahead'[p]
  <2>1. SUFFICES ASSUME NEW p \in Waiting' \ {q}, pc'[q] = "queued"
                 PROVE  p \in ahead'[q] \/ q \in ahead'[p]
    OBVIOUS
  <2>2. p \in Waiting \ {q} /\ p # r /\ p \in Requests
    BY <1>1 DEF Waiting
  <2>3. q # r /\ pc[q] = "queued"
    BY <2>1 DEF Typed
  <2>4. p \in ahead[q] \/ q \in ahead[p]
    BY <2>2, <2>3 DEF QueueOrder
  <2>5. QED
    BY <1>2, <2>2, <2>3, <2>4
<1>7. QED
  BY <1>4, <1>5, <1>6

\* A newcomer joins behind everybody who waits.
LEMMA QueueJoin ==
    ASSUME NEW r \in Requests, Typed, QueueOrder, LookupMiss(r)
    PROVE  QueueOrder'
<1>1. /\ pc[r] = "lookup"
      /\ pc' = [pc EXCEPT ![r] = "queued"]
      /\ ahead' = [ahead EXCEPT ![r] = Waiting]
  BY DEF LookupMiss
<1>2. Waiting' = Waiting \cup {r} /\ r \notin Waiting
  BY <1>1 DEF Waiting, Typed
<1>3. \A q \in Requests : ahead'[q] = IF q = r THEN Waiting ELSE ahead[q]
  BY <1>1 DEF Typed
<1>4. \A q \in Requests : r \notin ahead[q]
  BY <1>2 DEF QueueOrder
<1>5. Waiting \subseteq Requests
  BY DEF Waiting
<1>6. SUFFICES ASSUME NEW q \in Requests
               PROVE  /\ ahead'[q] \subseteq Waiting' \ {q}
                      /\ pc'[q] # "queued" => ahead'[q] = {}
                      /\ \A p \in ahead'[q] : ahead'[p] \subseteq ahead'[q]
                      /\ \A p \in Waiting' \ {q} :
                            pc'[q] = "queued" => p \in ahead'[q] \/ q \in ahead'[p]
  BY DEF QueueOrder
<1>7. ahead'[q] \subseteq Waiting' \ {q} /\ (pc'[q] # "queued" => ahead'[q] = {})
  BY <1>1, <1>2, <1>3 DEF QueueOrder, Typed
<1>8. \A p \in ahead'[q] : ahead'[p] \subseteq ahead'[q]
  <2>1. CASE q = r
    BY <2>1, <1>2, <1>3, <1>5 DEF QueueOrder
  <2>2. CASE q # r
    BY <2>2, <1>3, <1>4, <1>5 DEF QueueOrder
  <2>3. QED
    BY <2>1, <2>2
<1>9. \A p \in Waiting' \ {q} :
         pc'[q] = "queued" => p \in ahead'[q] \/ q \in ahead'[p]
  <2>1. SUFFICES ASSUME NEW p \in Waiting' \ {q}, pc'[q] = "queued"
                 PROVE  p \in ahead'[q] \/ q \in ahead'[p]
    OBVIOUS
  <2>2. CASE q = r
    BY <2>2, <1>2, <1>3
  <2>3. CASE q # r
    <3>1. pc[q] = "queued" /\ q \in Waiting
      BY <2>1, <2>3, <1>1 DEF Typed, Waiting
    <3>2. CASE p = r
      BY <3>1, <3>2, <1>3
    <3>3. CASE p # r
      BY <3>1, <3>3, <2>3, <1>2, <1>3, <1>5 DEF QueueOrder
    <3>4. QED
      BY <3>2, <3>3
  <2>4. QED
    BY <2>2, <2>3
<1>10. QED
  BY <1>7, <1>8, <1>9

\* Every step of a call keeps the queue in order.
LEMMA QueueStep ==
    ASSUME NEW r \in Requests, Typed, QueueOrder, Step(r)
    PROVE  QueueOrder'
<1> DEFINE SameWaiters ==
      \A q \in Requests : pc'[q] = "queued" <=> pc[q] = "queued"
<1>1. CASE RejectUrl(r) \/ LookupHit(r) \/ Answer(r) \/ Arrive(r) \/ FetchOk(r)
           \/ SpawnParse(r)
  <2>1. SameWaiters
    BY <1>1 DEF RejectUrl, LookupHit, Answer, Close, Arrive, FetchOk, SpawnParse, Typed
  <2>2. ahead' = ahead
    BY <1>1 DEF RejectUrl, LookupHit, Answer, Arrive, FetchOk, SpawnParse
  <2>3. QED
    BY <2>1, <2>2, QueueUntouched
<1>2. CASE LookupMiss(r)
  BY <1>2, QueueJoin
<1>3. CASE \/ FetchFail(r) \/ ReadFail(r) \/ JoinPanicked(r) \/ InnerTimeout(r)
           \/ Acquire(r) \/ JoinFinished(r) \/ OuterTimeout(r) \/ Disconnect(r)
  <2> DEFINE Ends == {"answered", "fetching", "storing", "cut", "dropped"}
  <2>1. Ends \subseteq Pc \ {"queued"}
    BY DEF Pc, Open, Closed, Span, Holding
  <2>2. LeaveQueue(r) /\ \E how \in Ends : pc' = [pc EXCEPT ![r] = how]
    BY <1>3 DEF FetchFail, ReadFail, JoinPanicked, InnerTimeout, Fail, Acquire,
                JoinFinished, OuterTimeout, Disconnect, DropSpan, Close
  <2>3. QED
    BY <2>1, <2>2, QueueLeave
<1>4. CASE JobEnds(r) \/ SetEnds(r)
  BY <1>4, QueueUntouched DEF JobEnds, SetEnds
<1>5. QED
  BY <1>1, <1>2, <1>3, <1>4 DEF Step

\* Timed out or abandoned waiters leave no trace in the semaphore's queue,
\* so nobody is ever blocked by a request that no longer exists.
THEOREM QueueStaysOrdered == Spec => []QueueOrder
<1>1. Init => Typed /\ QueueOrder
  <2>1. Init => QueueOrder
    BY DEF Init, QueueOrder, Waiting
  <2>2. QED
    BY <2>1, TypedInit
<1>2. Typed /\ QueueOrder /\ [Next]_vars => Typed' /\ QueueOrder'
  <2> SUFFICES ASSUME Typed, QueueOrder, [Next]_vars PROVE QueueOrder'
    BY TypedNext
  <2>1. CASE \E r \in Requests : Step(r)
    BY <2>1, QueueStep
  <2>2. CASE (\E k \in Keys : Expire(k)) \/ Tick \/ UNCHANGED vars
    BY <2>2, QueueUntouched DEF Expire, Tick, vars
  <2>3. QED
    BY <2>1, <2>2 DEF Next, Quiescent
<1>3. QED
  BY <1>1, <1>2, PTL DEF Spec

-----------------------------------------------------------------------------
(* Closures, answers and the cache                                         *)

\* A call that fails inside the span had no answer and has that one now.
LEMMA ShapeFail ==
    ASSUME NEW r \in Requests, NEW e \in Errors, Typed, CallShape, pc[r] \in Span,
           Fail(r, e)
    PROVE  CallShape'
BY DEF Fail, Close, CallShape, Typed, Span, Holding

\* Every step of a call keeps its closure and its answer in step with it.
LEMMA ShapeStep ==
    ASSUME NEW r \in Requests, Typed, CallShape, Step(r)
    PROVE  CallShape'
<1>1. CASE RejectUrl(r)
  BY <1>1 DEF RejectUrl, Close, CallShape, Typed
<1>2. CASE Arrive(r)
  BY <1>2 DEF Arrive, CallShape, Typed
<1>3. CASE LookupHit(r)
  BY <1>3 DEF LookupHit, Close, CallShape, Typed
<1>4. CASE LookupMiss(r)
  BY <1>4 DEF LookupMiss, CallShape, Typed
<1>5. CASE Acquire(r)
  BY <1>5 DEF Acquire, CanAcquire, CallShape, Typed
<1>6. CASE FetchOk(r)
  BY <1>6 DEF FetchOk, CallShape, Typed
<1>7. CASE SpawnParse(r)
  BY <1>7 DEF SpawnParse, CallShape, Typed
<1>8. CASE FetchFail(r) \/ ReadFail(r) \/ JoinPanicked(r) \/ InnerTimeout(r)
  BY <1>8, ShapeFail
     DEF FetchFail, ReadFail, JoinPanicked, InnerTimeout, InnerDue, Span, Holding,
         Errors, ReadErrors
<1>9. CASE JoinFinished(r)
  BY <1>9 DEF JoinFinished, CallShape, Typed
<1>10. CASE Answer(r)
  BY <1>10 DEF Answer, Close, CallShape, Typed
<1>11. CASE OuterTimeout(r)
  BY <1>11 DEF OuterTimeout, Close, CallShape, Typed
<1>12. CASE Disconnect(r)
  BY <1>12 DEF Disconnect, Close, Open, Span, Holding, CallShape, Typed
<1>13. CASE JobEnds(r)
  BY <1>13 DEF JobEnds, CallShape, Typed
<1>14. CASE SetEnds(r)
  BY <1>14 DEF SetEnds, CallShape, Typed
<1>15. QED
  BY <1>1, <1>2, <1>3, <1>4, <1>5, <1>6, <1>7, <1>8, <1>9, <1>10, <1>11, <1>12,
     <1>13, <1>14 DEF Step

\* The shape of calls is kept by every step of the specification.
LEMMA ShapeNext == Typed /\ CallShape /\ [Next]_vars => CallShape'
<1> SUFFICES ASSUME Typed, CallShape, [Next]_vars PROVE CallShape'
  OBVIOUS
<1>1. CASE \E r \in Requests : Step(r)
  BY <1>1, ShapeStep
<1>2. CASE (\E k \in Keys : Expire(k)) \/ Tick \/ UNCHANGED vars
  BY <1>2 DEF Expire, Tick, vars, CallShape
<1>3. QED
  BY <1>1, <1>2 DEF Next, Quiescent

\* Its extraction is finished, and its answer is not, nor will be, a failure.
Sound(p) ==
    /\ job[p] = "finished"
    /\ pc[p] \in Closed \cup {"storing"}
    /\ pc[p] = "answered" => result[p] = Fresh(p)

\* Once a call may be quoted from the cache, it may be for ever.
LEMMA SoundStays ==
    ASSUME NEW r \in Requests, NEW p \in Requests, Typed, CallShape, Step(r), Sound(p)
    PROVE  Sound(p)'
<1>0. Fresh(p)' = Fresh(p)
  BY DEF Fresh
<1> USE DEF Closed, Open, Span, Holding, Typed, Sound
<1>1. CASE FetchFail(r) \/ ReadFail(r) \/ JoinPanicked(r) \/ InnerTimeout(r)
  BY <1>0, <1>1
     DEF FetchFail, ReadFail, JoinPanicked, InnerTimeout, InnerDue, Fail, Close
<1>2. CASE RejectUrl(r) \/ LookupHit(r) \/ Answer(r) \/ OuterTimeout(r) \/ Disconnect(r)
  BY <1>0, <1>2
     DEF RejectUrl, LookupHit, Answer, OuterTimeout, OuterDue, Disconnect, Close
<1>3. CASE Arrive(r) \/ LookupMiss(r) \/ Acquire(r) \/ FetchOk(r) \/ JoinFinished(r)
  BY <1>0, <1>3 DEF Arrive, LookupMiss, Acquire, CanAcquire, FetchOk, JoinFinished
<1>4. CASE SpawnParse(r) \/ JobEnds(r) \/ SetEnds(r)
  BY <1>0, <1>4 DEF SpawnParse, JobEnds, SetEnds
<1>5. QED
  BY <1>1, <1>2, <1>3, <1>4 DEF Step

\* Only a SETEX that is under way writes the cache, under its call's key.
LEMMA CacheWrites ==
    ASSUME NEW r \in Requests, NEW k \in Keys, Typed, Step(r), cache'[k] # cache[k]
    PROVE  SetEnds(r) /\ r \in setting /\ k = KeyOf[r] /\ cache'[k] = r
<1>1. CASE SetEnds(r)
  BY <1>1, PipelineAssumption DEF SetEnds, Typed
<1>2. CASE FetchFail(r) \/ ReadFail(r) \/ JoinPanicked(r) \/ InnerTimeout(r)
  BY <1>2 DEF FetchFail, ReadFail, JoinPanicked, InnerTimeout, Fail
<1>3. CASE \/ RejectUrl(r) \/ Arrive(r) \/ LookupHit(r) \/ LookupMiss(r) \/ Acquire(r)
           \/ FetchOk(r) \/ SpawnParse(r) \/ JoinFinished(r) \/ Answer(r)
           \/ OuterTimeout(r) \/ Disconnect(r) \/ JobEnds(r)
  BY <1>3 DEF RejectUrl, Arrive, LookupHit, LookupMiss, Acquire, FetchOk,
              SpawnParse, JoinFinished, Answer, OuterTimeout, Disconnect, JobEnds
<1>4. QED
  BY <1>1, <1>2, <1>3 DEF Step

\* The cache invariant, one step of a call at a time.
LEMMA CachedStep ==
    ASSUME NEW r \in Requests, Typed, CallShape, OnlySuccessesCached, Step(r)
    PROVE  OnlySuccessesCached'
<1>1. SUFFICES ASSUME NEW k \in Keys, NEW p \in Requests, cache'[k] = p
               PROVE  KeyOf[p] = k /\ Sound(p)'
  BY DEF OnlySuccessesCached, Sound, Fresh
<1>2. CASE cache'[k] = cache[k]
  <2>1. KeyOf[p] = k /\ Sound(p)
    BY <1>1, <1>2 DEF OnlySuccessesCached, Sound
  <2>2. QED
    BY <2>1, SoundStays
<1>3. CASE cache'[k] # cache[k]
  <2>1. p = r /\ KeyOf[p] = k /\ r \in setting
    BY <1>1, <1>3, CacheWrites
  <2>2. Sound(p)
    BY <2>1 DEF CallShape, Sound, Closed
  <2>3. QED
    BY <2>1, <2>2, SoundStays
<1>4. QED
  BY <1>2, <1>3

\* The cache invariant is kept by every step of the specification.
LEMMA CachedNext ==
    ASSUME Typed, CallShape, OnlySuccessesCached, [Next]_vars
    PROVE  OnlySuccessesCached'
<1>1. CASE \E r \in Requests : Step(r)
  BY <1>1, CachedStep
<1>2. CASE \E k \in Keys : Expire(k)
  BY <1>2, PipelineAssumption DEF Expire, OnlySuccessesCached, Typed, Fresh
<1>3. CASE Tick \/ UNCHANGED vars
  BY <1>3 DEF Tick, vars, OnlySuccessesCached
<1>4. QED
  BY <1>1, <1>2, <1>3 DEF Next, Quiescent

\* The strengthened invariant of the cache: its three parts hold at first.
LEMMA CachedInit == Init => Typed /\ CallShape /\ OnlySuccessesCached
<1> SUFFICES ASSUME Init PROVE CallShape /\ OnlySuccessesCached
  BY TypedInit
<1>1. CallShape
  BY DEF Init, CallShape
<1>2. OnlySuccessesCached
  BY PipelineAssumption DEF Init, OnlySuccessesCached
<1>3. QED
  BY <1>1, <1>2

\* Only an extraction that succeeded, of the page asked for, is ever served
\* from the cache, whoever is gone by the time it lands there.
THEOREM CacheStaysSound == Spec => []OnlySuccessesCached
<1>1. Typed /\ CallShape /\ OnlySuccessesCached /\ [Next]_vars
      => Typed' /\ CallShape' /\ OnlySuccessesCached'
  BY TypedNext, ShapeNext, CachedNext
<1>2. QED
  BY CachedInit, <1>1, PTL DEF Spec

-----------------------------------------------------------------------------
(* Parses that outlive their permit                                        *)

\* Every step of a call that leaves a closure running behind it is a
\* timeout or a hang-up.
LEMMA AbandonedStep ==
    ASSUME NEW r \in Requests, Typed, CallShape, OnlyAbandonedParsesOutlive, Step(r)
    PROVE  OnlyAbandonedParsesOutlive'
<1> USE DEF OnlyAbandonedParsesOutlive, CallShape, Typed
<1>1. CASE RejectUrl(r) \/ Arrive(r) \/ LookupHit(r) \/ LookupMiss(r) \/ Answer(r)
  BY <1>1 DEF RejectUrl, Arrive, LookupHit, LookupMiss, Answer, Close
<1>2. CASE Acquire(r) \/ FetchOk(r) \/ SpawnParse(r) \/ JoinFinished(r)
  BY <1>2 DEF Acquire, CanAcquire, FetchOk, SpawnParse, JoinFinished
<1>3. CASE FetchFail(r) \/ ReadFail(r) \/ JoinPanicked(r)
  BY <1>3 DEF FetchFail, ReadFail, JoinPanicked, Fail, Close
<1>4. CASE InnerTimeout(r)
  BY <1>4 DEF InnerTimeout, Fail, Close
<1>5. CASE OuterTimeout(r) \/ Disconnect(r)
  BY <1>5 DEF OuterTimeout, Disconnect, Close
<1>6. CASE JobEnds(r) \/ SetEnds(r)
  BY <1>6 DEF JobEnds, SetEnds
<1>7. QED
  BY <1>1, <1>2, <1>3, <1>4, <1>5, <1>6 DEF Step

\* The limiter is only ever exceeded by the parses of calls that were given
\* up on.
THEOREM OverrunIsAbandoned == Spec => []OnlyAbandonedParsesOutlive
<1>1. Init => Typed /\ CallShape /\ OnlyAbandonedParsesOutlive
  BY TypedInit DEF Init, CallShape, OnlyAbandonedParsesOutlive
<1>2. Typed /\ CallShape /\ OnlyAbandonedParsesOutlive /\ [Next]_vars
      => Typed' /\ CallShape' /\ OnlyAbandonedParsesOutlive'
  <2> SUFFICES ASSUME Typed, CallShape, OnlyAbandonedParsesOutlive, [Next]_vars
               PROVE  OnlyAbandonedParsesOutlive'
    BY TypedNext, ShapeNext
  <2>1. CASE \E r \in Requests : Step(r)
    BY <2>1, AbandonedStep
  <2>2. CASE (\E k \in Keys : Expire(k)) \/ Tick \/ UNCHANGED vars
    BY <2>2 DEF Expire, Tick, vars, OnlyAbandonedParsesOutlive
  <2>3. QED
    BY <2>1, <2>2 DEF Next, Quiescent
<1>3. QED
  BY <1>1, <1>2, PTL DEF Spec

-----------------------------------------------------------------------------
(* Refinement of CachedService                                            *)

\* The three abstract variables.
AbsState == [r \in Requests |-> CallState(r)]
AbsSource == [r \in Requests |-> result[r].from]
AbsProduced == {r \in Requests : job[r] = "finished"}

\* A step of r moves only r's abstract state.
LEMMA AbsMove ==
    ASSUME NEW r \in Requests, NEW how, Typed,
           pc' = [pc EXCEPT ![r] = how],
           \A q \in Requests \ {r} : result'[q] = result[q]
    PROVE  AbsState' = [AbsState EXCEPT ![r] = CallState(r)']
<1>1. \A q \in Requests \ {r} : CallState(q)' = CallState(q)
  BY DEF CallState, Typed
<1>2. QED
  BY <1>1 DEF AbsState

\* An answer changes only r's source.
LEMMA AbsAnswer ==
    ASSUME NEW r \in Requests, NEW a \in Results, Typed,
           result' = [result EXCEPT ![r] = a]
    PROVE  /\ AbsSource' = [AbsSource EXCEPT ![r] = a.from]
           /\ \A q \in Requests \ {r} : result'[q] = result[q]
           /\ result'[r] = a
BY DEF AbsSource, Typed

\* The abstract view of a call that changes nothing abstract.
LEMMA AbsStutter ==
    ASSUME NEW r \in Requests, NEW how, Typed,
           pc' = [pc EXCEPT ![r] = how], result' = result,
           pc[r] \in Open, how \in Open, AbsProduced' = AbsProduced
    PROVE  UNCHANGED Service!serviceVars
<1>1. AbsState' = [AbsState EXCEPT ![r] = CallState(r)']
  BY AbsMove
<1>2. CallState(r) = "pending" /\ CallState(r)' = "pending"
  BY DEF CallState, Typed, Open, Span, Holding
<1>3. AbsState' = AbsState
  BY <1>1, <1>2 DEF AbsState
<1>4. AbsSource' = AbsSource
  BY DEF AbsSource
<1>5. QED
  BY <1>3, <1>4 DEF Service!serviceVars, AbsState, AbsSource, AbsProduced

\* Failing, inside the span or before it, refuses the call.
LEMMA AbsRefuse ==
    ASSUME NEW r \in Requests, NEW e \in Errors, Typed, CallShape,
           pc[r] \in Open \cup {"idle"}, job[r] # "finished",
           pc' = [pc EXCEPT ![r] = "answered"],
           result' = [result EXCEPT ![r] = Failure(e)],
           job' = job
    PROVE  Service!Refuse(r)
<1>1. Failure(e) \in Results /\ Failure(e).from = NoRequest /\ Failure(e).code # "ok"
  BY ResultTypes DEF Failure, Errors, FetchErrors, ReadErrors
<1>2. /\ AbsSource' = [AbsSource EXCEPT ![r] = NoRequest]
      /\ \A q \in Requests \ {r} : result'[q] = result[q]
      /\ result'[r] = Failure(e)
  BY <1>1, AbsAnswer
<1>3. AbsSource[r] = NoRequest
  BY DEF AbsSource, CallShape, NoResult, Open, Span, Holding
<1>4. AbsSource' = AbsSource
  BY <1>2, <1>3 DEF AbsSource
<1>5. AbsState' = [AbsState EXCEPT ![r] = CallState(r)']
  BY <1>2, AbsMove
<1>6. CallState(r) \in {"new", "pending"} /\ CallState(r)' = "failed"
  BY <1>1, <1>2 DEF CallState, Typed, Open, Span, Holding
<1>7. QED
  BY <1>4, <1>5, <1>6 DEF Service!Refuse, AbsState, AbsSource, AbsProduced

\* An answer built from the extraction of p.
LEMMA AbsAnswerWith ==
    ASSUME NEW r \in Requests, NEW p \in Requests, NEW a \in Results, Typed,
           a.code = "ok", a.from = p, pc[r] \in Open,
           KeyOf[p] = KeyOf[r], job[p] = "finished", CallState(p) # "failed",
           pc' = [pc EXCEPT ![r] = "answered"],
           result' = [result EXCEPT ![r] = a],
           job' = job
    PROVE  Service!AnswerWith(r, p)
<1>1. /\ AbsSource' = [AbsSource EXCEPT ![r] = p]
      /\ \A q \in Requests \ {r} : result'[q] = result[q]
      /\ result'[r] = a
  BY AbsAnswer
<1>2. AbsState' = [AbsState EXCEPT ![r] = CallState(r)']
  BY <1>1, AbsMove
<1>3. CallState(r) = "pending" /\ CallState(r)' = "ok"
  BY <1>1 DEF CallState, Typed, Open, Span, Holding
<1>4. p \in AbsProduced
  BY DEF AbsProduced
<1>5. QED
  BY <1>1, <1>2, <1>3, <1>4
     DEF Service!AnswerWith, AbsState, AbsSource, AbsProduced

\* The route's timeout and a hang-up give the call up.
LEMMA AbsGiveUp ==
    ASSUME NEW r \in Requests, Typed, CallShape, OuterTimeout(r) \/ Disconnect(r)
    PROVE  Service!GiveUp(r)
<1>1. PICK how \in {"cut", "dropped"} : pc' = [pc EXCEPT ![r] = how]
  BY DEF OuterTimeout, Disconnect, Close
<1>2. pc[r] \in Open /\ job' = job
  BY DEF OuterTimeout, OuterDue, Disconnect
<1>3. result[r].from = NoRequest
  BY <1>2 DEF CallShape, NoResult, Open, Span, Holding
<1>4. /\ \A q \in Requests \ {r} : result'[q] = result[q]
      /\ result'[r].from = NoRequest
  <2>1. CASE OuterTimeout(r)
    BY <2>1 DEF OuterTimeout, Failure, Typed
  <2>2. CASE Disconnect(r)
    BY <2>2, <1>3 DEF Disconnect
  <2>3. QED
    BY <2>1, <2>2
<1>5. AbsSource' = AbsSource
  BY <1>3, <1>4 DEF AbsSource
<1>6. AbsState' = [AbsState EXCEPT ![r] = CallState(r)']
  BY <1>1, <1>4, AbsMove
<1>7. CallState(r) = "pending" /\ CallState(r)' = "gone"
  BY <1>1, <1>2 DEF CallState, Typed, Open, Span, Holding
<1>8. QED
  BY <1>2, <1>5, <1>6, <1>7 DEF Service!GiveUp, AbsState, AbsSource, AbsProduced

\* Every step of a call is a step of the service, or invisible to it.
LEMMA AbsStep ==
    ASSUME NEW r \in Requests, Typed, CallShape, OnlySuccessesCached, Step(r)
    PROVE  [Service!ServiceNext]_(Service!serviceVars)
<1> USE DEF Service!ServiceNext
<1>1. CASE RejectUrl(r)
  <2>1. "InvalidQuery" \in Errors
    BY DEF Errors, FetchErrors
  <2>2. Service!Refuse(r)
    BY <1>1, <2>1, AbsRefuse DEF RejectUrl, Close, CallShape
  <2>3. QED
    BY <2>2
<1>2. CASE Arrive(r)
  <2>1. AbsState' = [AbsState EXCEPT ![r] = CallState(r)']
    BY <1>2, AbsMove DEF Arrive
  <2>2. CallState(r) = "new" /\ CallState(r)' = "pending"
    BY <1>2 DEF Arrive, CallState, Typed, Open, Span, Holding
  <2>3. Service!Submit(r)
    BY <1>2, <2>1, <2>2
       DEF Arrive, Service!Submit, AbsState, AbsSource, AbsProduced
  <2>4. QED
    BY <2>3
<1>3. CASE LookupHit(r)
  <2>1. PICK p \in Requests : p = cache[KeyOf[r]]
    BY <1>3 DEF LookupHit
  <2>2. /\ KeyOf[p] = KeyOf[r] /\ job[p] = "finished"
        /\ pc[p] \in Closed \cup {"storing"}
        /\ pc[p] = "answered" => result[p] = Fresh(p)
    BY <2>1, PipelineAssumption DEF OnlySuccessesCached
  <2>3. CallState(p) \in {"pending", "ok", "gone"}
    BY <2>2 DEF CallState, Closed, Fresh, Open, Span, Holding
  <2>4. Hit(p) \in Results /\ Hit(p).code = "ok" /\ Hit(p).from = p
    BY ResultTypes DEF Hit
  <2>5. /\ pc' = [pc EXCEPT ![r] = "answered"] /\ job' = job /\ pc[r] \in Open
        /\ result' = [result EXCEPT ![r] = Hit(p)]
    BY <1>3, <2>1 DEF LookupHit, Close, Open
  <2>6. Service!AnswerWith(r, p)
    BY <2>2, <2>3, <2>4, <2>5, AbsAnswerWith
  <2>7. QED
    BY <2>6
<1>4. CASE Answer(r)
  <2>1. job[r] = "finished" /\ pc[r] \in Open /\ CallState(r) = "pending"
    BY <1>4 DEF Answer, CallShape, CallState, Open, Span, Holding
  <2>2. Fresh(r) \in Results /\ Fresh(r).code = "ok" /\ Fresh(r).from = r
    BY ResultTypes DEF Fresh
  <2>3. /\ pc' = [pc EXCEPT ![r] = "answered"] /\ job' = job
        /\ result' = [result EXCEPT ![r] = Fresh(r)]
    BY <1>4 DEF Answer, Close
  <2>4. Service!AnswerWith(r, r)
    BY <2>1, <2>2, <2>3, AbsAnswerWith
  <2>5. QED
    BY <2>4
<1>5. CASE LookupMiss(r) \/ Acquire(r) \/ FetchOk(r) \/ SpawnParse(r) \/ JoinFinished(r)
  <2>1. /\ pc[r] \in Open /\ result' = result
        /\ \E how \in Open : pc' = [pc EXCEPT ![r] = how]
    BY <1>5 DEF LookupMiss, Acquire, CanAcquire, FetchOk, SpawnParse, JoinFinished,
                Open, Span, Holding
  <2>2. AbsProduced' = AbsProduced
    BY <1>5 DEF LookupMiss, Acquire, FetchOk, SpawnParse, JoinFinished, AbsProduced,
                CallShape, Typed
  <2>3. QED
    BY <2>1, <2>2, AbsStutter
<1>6. CASE FetchFail(r) \/ ReadFail(r) \/ JoinPanicked(r) \/ InnerTimeout(r)
  <2>1. PICK e \in Errors : Fail(r, e)
    BY <1>6 DEF FetchFail, ReadFail, JoinPanicked, InnerTimeout, Errors, ReadErrors
  <2>2. pc[r] \in Open /\ job[r] # "finished"
    BY <1>6 DEF FetchFail, ReadFail, JoinPanicked, InnerTimeout, InnerDue, Ready,
                CallShape, Open, Span, Holding
  <2>3. /\ pc' = [pc EXCEPT ![r] = "answered"] /\ job' = job
        /\ result' = [result EXCEPT ![r] = Failure(e)]
    BY <2>1 DEF Fail, Close
  <2>4. Service!Refuse(r)
    BY <2>2, <2>3, AbsRefuse
  <2>5. QED
    BY <2>4
<1>7. CASE OuterTimeout(r) \/ Disconnect(r)
  BY <1>7, AbsGiveUp
<1>8. CASE JobEnds(r)
  <2>1. AbsState' = AbsState /\ AbsSource' = AbsSource
    BY <1>8 DEF JobEnds, AbsState, AbsSource, CallState
  <2>2. AbsProduced' \in {AbsProduced, AbsProduced \cup {r}}
    BY <1>8 DEF JobEnds, AbsProduced, Typed
  <2>3. CallState(r) # "new"
    BY <1>8 DEF JobEnds, CallShape, CallState, Typed, Pc, Open, Closed, Span, Holding
  <2>4. CASE AbsProduced' = AbsProduced
    BY <2>1, <2>4 DEF Service!serviceVars, AbsState, AbsSource, AbsProduced
  <2>5. CASE AbsProduced' = AbsProduced \cup {r}
    <3>1. Service!Produce(r)
      BY <2>1, <2>3, <2>5 DEF Service!Produce, AbsState, AbsSource, AbsProduced
    <3>2. QED
      BY <3>1
  <2>6. QED
    BY <2>2, <2>4, <2>5
<1>9. CASE SetEnds(r)
  BY <1>9 DEF SetEnds, Service!serviceVars, CallState
<1>10. QED
  BY <1>1, <1>2, <1>3, <1>4, <1>5, <1>6, <1>7, <1>8, <1>9 DEF Step

\* run_extract implements the service it promises: one final answer per call,
\* fresh answers from the call's own extraction, cached answers only from a
\* completed extraction of the same page that was not reported as a failure.
THEOREM PipelineImplementsService == Spec => ImplementsService
<1>1. ASSUME Init PROVE Service!ServiceInit
  <2>1. AbsState = [r \in Requests |-> "new"]
    <3>1. \A r \in Requests : CallState(r) = "new"
      BY <1>1 DEF Init, CallState, Open, Span, Holding
    <3>2. QED
      BY <3>1 DEF AbsState
  <2>2. AbsSource = [r \in Requests |-> NoRequest]
    BY <1>1 DEF Init, AbsSource, NoResult
  <2>3. AbsProduced = {}
    BY <1>1 DEF Init, AbsProduced
  <2>4. QED
    BY <2>1, <2>2, <2>3 DEF Service!ServiceInit, AbsState, AbsSource, AbsProduced
<1>2. Typed /\ CallShape /\ OnlySuccessesCached /\ [Next]_vars
      => Typed' /\ CallShape' /\ OnlySuccessesCached'
  BY TypedNext, ShapeNext, CachedNext
<1>3. Typed /\ CallShape /\ OnlySuccessesCached /\ [Next]_vars
      => [Service!ServiceNext]_(Service!serviceVars)
  <2> SUFFICES ASSUME Typed, CallShape, OnlySuccessesCached, [Next]_vars
               PROVE  [Service!ServiceNext]_(Service!serviceVars)
    OBVIOUS
  <2>1. CASE \E r \in Requests : Step(r)
    BY <2>1, AbsStep
  <2>2. CASE (\E k \in Keys : Expire(k)) \/ Tick \/ UNCHANGED vars
    <3>1. pc' = pc /\ result' = result /\ job' = job
      BY <2>2 DEF Expire, Tick, vars
    <3>2. \A r \in Requests : CallState(r)' = CallState(r)
      BY <3>1 DEF CallState
    <3>3. AbsState' = AbsState /\ AbsSource' = AbsSource /\ AbsProduced' = AbsProduced
      BY <3>1, <3>2 DEF AbsState, AbsSource, AbsProduced
    <3>4. QED
      BY <3>3 DEF Service!serviceVars, AbsState, AbsSource, AbsProduced
  <2>3. QED
    BY <2>1, <2>2 DEF Next, Quiescent
<1>4. QED
  BY CachedInit, <1>1, <1>2, <1>3, PTL DEF Spec, ImplementsService, Service!ServiceSpec

-----------------------------------------------------------------------------
(* No permit lies idle                                                     *)

\* Numbers have a least one.
LEMMA LeastOne ==
    ASSUME NEW T \in SUBSET Nat, T # {}
    PROVE  \E n \in T : \A m \in T : n <= m
<1> DEFINE R == OpToRel(<, Nat)
<1>1. IsWellFoundedOn(R, Nat)
  BY NatLessThanWellFounded
<1>2. \A x, y \in Nat : x < y => <<x, y>> \in R
  BY DEF OpToRel
<1> HIDE DEF R
<1>3. T \subseteq Nat
  OBVIOUS
<1>4. PICK n \in T : \A m \in T : ~(<<m, n>> \in R)
  BY <1>1, <1>3, WFMin
<1>5. ASSUME NEW m \in T PROVE n <= m
  <2>1. m \in Nat /\ n \in Nat /\ ~(m < n)
    BY <1>2, <1>3, <1>4
  <2>2. QED
    BY <2>1
<1>6. QED
  BY <1>5

\* Somebody is first in the queue.
LEMMA SomebodyFirst ==
    ASSUME Typed, QueueOrder, Waiting # {}
    PROVE  \E r \in Waiting : ahead[r] = {}
<1> DEFINE T == {Cardinality(ahead[r]) : r \in Waiting}
<1>1. \A r \in Waiting : IsFiniteSet(ahead[r]) /\ Cardinality(ahead[r]) \in Nat
  <2>1. ASSUME NEW r \in Waiting PROVE IsFiniteSet(ahead[r]) /\ Cardinality(ahead[r]) \in Nat
    <3>1. ahead[r] \subseteq Requests
      BY DEF QueueOrder, Waiting
    <3>2. QED
      BY <3>1, PipelineAssumption, FS_Subset, FS_CardinalityType
  <2>2. QED
    BY <2>1
<1>2. T \in SUBSET Nat /\ T # {}
  BY <1>1
<1>3. PICK n \in T : \A m \in T : n <= m
  <2> HIDE DEF T
  <2>1. QED
    BY <1>2, LeastOne
<1>4. PICK r \in Waiting : \A q \in Waiting : Cardinality(ahead[r]) <= Cardinality(ahead[q])
  BY <1>3
<1>5. ASSUME NEW q \in ahead[r] PROVE FALSE
  <2>1. q \in Waiting /\ ahead[q] \subseteq ahead[r] \ {q}
    BY <1>5 DEF QueueOrder, Waiting
  <2>2. Cardinality(ahead[r] \ {q}) = Cardinality(ahead[r]) - 1 /\ IsFiniteSet(ahead[r] \ {q})
    BY <1>1, <1>5, FS_RemoveElement
  <2>3. Cardinality(ahead[q]) <= Cardinality(ahead[r] \ {q})
    BY <2>1, <2>2, FS_Subset
  <2>4. QED
    BY <1>1, <1>4, <2>1, <2>2, <2>3
<1>6. QED
  BY <1>5

\* While a call waits for a permit, either all of them are held by calls in
\* their span, each with its timeout running, or one of the waiters may have
\* one now: a permit is never lost, nor a wake-up (extract.rs:464-469).
PermitsInUse ==
    Waiting # {} =>
        \/ Cardinality(Holders) = MaxConcurrent
        \/ \E r \in Waiting : CanAcquire(r)

\* No call waits for a permit that lies idle, for any number of either.
THEOREM PermitsNeverIdle == Spec => []PermitsInUse
<1>1. Spec => [](Typed /\ PermitAccounting)
  <2>1. Init => Typed /\ PermitAccounting
    BY TypedInit, AccountingInit
  <2>2. QED
    BY <2>1, TypedNext, AccountingNext, PTL DEF Spec
<1>2. Typed /\ PermitAccounting /\ QueueOrder => PermitsInUse
  <2> SUFFICES ASSUME Typed, PermitAccounting, QueueOrder, Waiting # {},
                      Cardinality(Holders) # MaxConcurrent
               PROVE  \E r \in Waiting : CanAcquire(r)
    BY DEF PermitsInUse
  <2>1. permits > 0
    BY HoldersFinite, PipelineAssumption DEF Typed, PermitAccounting
  <2>2. PICK r \in Waiting : ahead[r] = {}
    BY SomebodyFirst
  <2>3. QED
    BY <2>1, <2>2 DEF CanAcquire, Waiting
<1>3. QED
  BY <1>1, <1>2, QueueStaysOrdered, PTL

\* Who waits longer is served earlier: nobody is let in before a call ahead
\* of it that still waits, nobody gets in ahead of a waiter, and nobody loses
\* its place (tokio's Semaphore is fair; extract.rs:465).
InTurn ==
    \A r \in Waiting :
        /\ pc'[r] = "queued" => ahead'[r] \subseteq ahead[r]
        /\ \A q \in ahead[r] :
              pc'[q] = "queued" =>
                  /\ pc'[r] # "fetching"
                  /\ pc'[r] = "queued" => q \in ahead'[r]

\* The permits are handed out in the order in which they were asked for.
THEOREM PermitsInTurn == Spec => [][InTurn]_vars
<1>1. Typed /\ QueueOrder /\ [Next]_vars => [InTurn]_vars
  <2> SUFFICES ASSUME Typed, QueueOrder, Next PROVE InTurn \/ UNCHANGED vars
    OBVIOUS
  <2>1. ASSUME NEW r \in Requests, Step(r) PROVE InTurn
    <3> USE DEF InTurn, Waiting, Typed, Open, Span, Holding
    <3>1. CASE FetchFail(r) \/ ReadFail(r) \/ JoinPanicked(r) \/ InnerTimeout(r)
      <4>1. LeaveQueue(r) /\ pc' = [pc EXCEPT ![r] = "answered"]
        BY <3>1 DEF FetchFail, ReadFail, JoinPanicked, InnerTimeout, Fail, Close, DropSpan
      <4>2. QED
        BY <4>1 DEF LeaveQueue, QueueOrder
    <3>2. CASE RejectUrl(r) \/ LookupHit(r) \/ Answer(r) \/ Arrive(r)
      BY <3>2 DEF RejectUrl, LookupHit, Answer, Arrive, Close
    <3>3. CASE FetchOk(r) \/ SpawnParse(r) \/ JobEnds(r) \/ SetEnds(r)
      BY <3>3 DEF FetchOk, SpawnParse, JobEnds, SetEnds
    <3>4. CASE LookupMiss(r)
      BY <3>4 DEF LookupMiss
    <3>5. CASE Acquire(r)
      BY <3>5 DEF Acquire, CanAcquire, LeaveQueue, QueueOrder
    <3>6. CASE JoinFinished(r) \/ OuterTimeout(r) \/ Disconnect(r)
      <4>1. /\ LeaveQueue(r)
            /\ \E how \in {"storing", "cut", "dropped"} : pc' = [pc EXCEPT ![r] = how]
        BY <3>6 DEF JoinFinished, OuterTimeout, Disconnect, Close, DropSpan
      <4>2. QED
        BY <4>1 DEF LeaveQueue, QueueOrder
    <3>7. QED
      BY <2>1, <3>1, <3>2, <3>3, <3>4, <3>5, <3>6 DEF Step
  <2>2. CASE (\E k \in Keys : Expire(k)) \/ Tick
    BY <2>2 DEF Expire, Tick, InTurn, Waiting
  <2>3. QED
    BY <2>1, <2>2 DEF Next, Quiescent
<1>2. QED
  BY TypedInit, TypedNext, QueueStaysOrdered, <1>1, PTL DEF Spec

-----------------------------------------------------------------------------
(* Calls run down                                                          *)

\* How far a call has come.
Rank ==
    [p \in Pc |->
        CASE p = "idle" -> 0
          [] p = "lookup" -> 1
          [] p = "queued" -> 2
          [] p = "fetching" -> 3
          [] p = "reading" -> 4
          [] p = "parsing" -> 5
          [] p = "storing" -> 6
          [] p \in Closed -> 7]

\* The call has a clock that runs: of run_extract's timeout, of the route's.
InnerRuns(r) == pc[r] \in Span
OuterRuns(r) == r \in HttpRequests /\ pc[r] \in Open

\* No step moves a call back.
GoesOn(r) == pc'[r] # pc[r] => Rank[pc[r]] < Rank[pc'[r]]

\* What EveryCallReturns rests on, step by step (extract.rs:464-561,
\* http.rs:257-260): no call goes back, a call that is over stays as it was
\* answered, and time passes for all calls or for none, one tick of every
\* budget at a time; nothing gives a call a budget again.
RunsDown ==
    \A r \in Requests :
        /\ GoesOn(r)
        /\ pc[r] \in Closed => result'[r] = result[r]
        /\ (\E q \in Requests :
               \/ InnerRuns(q) /\ InnerRuns(q)' /\ innerLeft'[q] # innerLeft[q]
               \/ OuterRuns(q) /\ OuterRuns(q)' /\ outerLeft'[q] # outerLeft[q])
           => /\ pc' = pc
              /\ InnerRuns(r) => innerLeft'[r] = innerLeft[r] - 1
              /\ OuterRuns(r) => outerLeft'[r] = outerLeft[r] - 1

\* A step of one call leaves the clocks of those that go on alone.
LEMMA ClocksOfOthers ==
    ASSUME NEW r \in Requests, NEW q \in Requests, Typed, Step(r)
    PROVE  /\ InnerRuns(q) /\ InnerRuns(q)' => innerLeft'[q] = innerLeft[q]
           /\ OuterRuns(q) /\ OuterRuns(q)' => outerLeft'[q] = outerLeft[q]
<1> USE DEF InnerRuns, OuterRuns, Typed, Open, Span, Holding
<1>1. CASE FetchFail(r) \/ ReadFail(r) \/ JoinPanicked(r) \/ InnerTimeout(r)
  BY <1>1 DEF FetchFail, ReadFail, JoinPanicked, InnerTimeout, Fail, Close, DropSpan
<1>2. CASE RejectUrl(r) \/ LookupHit(r) \/ Answer(r)
  BY <1>2 DEF RejectUrl, LookupHit, Answer, Close
<1>3. CASE Arrive(r) \/ LookupMiss(r)
  BY <1>3 DEF Arrive, LookupMiss
<1>4. CASE Acquire(r) \/ FetchOk(r) \/ SpawnParse(r) \/ JobEnds(r) \/ SetEnds(r)
  BY <1>4 DEF Acquire, FetchOk, SpawnParse, JobEnds, SetEnds
<1>5. CASE JoinFinished(r)
  BY <1>5 DEF JoinFinished, DropSpan
<1>6. CASE OuterTimeout(r) \/ Disconnect(r)
  BY <1>6 DEF OuterTimeout, Disconnect, Close, DropSpan
<1>7. QED
  BY <1>1, <1>2, <1>3, <1>4, <1>5, <1>6 DEF Step

\* Every step of a call takes it, if anywhere, further.
LEMMA StepGoesOn ==
    ASSUME NEW r \in Requests, NEW q \in Requests, Typed, CallShape, Step(r)
    PROVE  GoesOn(q) /\ (pc[q] \in Closed => result'[q] = result[q])
<1> USE DEF GoesOn, Rank, Typed, Pc, Open, Closed, Span, Holding
<1>1. CASE FetchFail(r) \/ ReadFail(r) \/ JoinPanicked(r) \/ InnerTimeout(r)
  BY <1>1 DEF FetchFail, ReadFail, JoinPanicked, InnerTimeout, InnerDue, Fail, Close
<1>2. CASE RejectUrl(r) \/ LookupHit(r) \/ Answer(r)
  BY <1>2 DEF RejectUrl, LookupHit, Answer, Close
<1>3. CASE Arrive(r) \/ LookupMiss(r)
  BY <1>3 DEF Arrive, LookupMiss
<1>4. CASE Acquire(r) \/ FetchOk(r)
  BY <1>4 DEF Acquire, CanAcquire, FetchOk
<1>5. CASE SpawnParse(r) \/ JobEnds(r) \/ SetEnds(r)
  BY <1>5 DEF SpawnParse, JobEnds, SetEnds
<1>6. CASE JoinFinished(r)
  BY <1>6 DEF JoinFinished
<1>7. CASE OuterTimeout(r) \/ Disconnect(r)
  BY <1>7 DEF OuterTimeout, OuterDue, Disconnect, Close
<1>8. QED
  BY <1>1, <1>2, <1>3, <1>4, <1>5, <1>6, <1>7 DEF Step

\* Whatever hangs (the upstream, the parser, Redis), each call can only run
\* down: that it returns is then a matter of time passing.
THEOREM CallsRunDown == Spec => [][RunsDown]_vars
<1>1. Typed /\ CallShape /\ [Next]_vars => [RunsDown]_vars
  <2> SUFFICES ASSUME Typed, CallShape, Next PROVE RunsDown \/ UNCHANGED vars
    OBVIOUS
  <2>1. CASE \E r \in Requests : Step(r)
    BY <2>1, ClocksOfOthers, StepGoesOn DEF RunsDown
  <2>2. CASE \E k \in Keys : Expire(k)
    BY <2>2 DEF Expire, RunsDown, GoesOn
  <2>3. CASE Tick
    BY <2>3 DEF Tick, RunsDown, GoesOn, Typed, InnerRuns, OuterRuns
  <2>4. QED
    BY <2>1, <2>2, <2>3 DEF Next, Quiescent
<1>2. QED
  BY CachedInit, TypedNext, ShapeNext, <1>1, PTL DEF Spec

-----------------------------------------------------------------------------
(* Answers                                                                 *)

\* Who is answered "ok" is answered with a finished extraction of the page it
\* asked for, its own unless it is told that it is a cached one, and never
\* with one that its own caller was told had failed, or with a copy of a copy
\* (extract.rs:452-462, 548-561).
AnswersTrue ==
    \A r \in Requests :
        result[r].code = "ok" =>
            \E p \in Requests :
                /\ result[r].from = p /\ KeyOf[p] = KeyOf[r]
                /\ result[r].cached <=> p # r
                /\ Sound(p)

\* The answers stay true, and new ones are.
LEMMA AnswersStep ==
    ASSUME NEW r \in Requests, Typed, CallShape, OnlySuccessesCached, AnswersTrue, Step(r)
    PROVE  AnswersTrue'
<1>1. SUFFICES ASSUME NEW q \in Requests, result'[q].code = "ok"
               PROVE  \E p \in Requests : /\ result'[q].from = p /\ KeyOf[p] = KeyOf[q]
                                          /\ result'[q].cached <=> p # q
                                          /\ Sound(p)'
  BY DEF AnswersTrue
<1>2. CASE result'[q] = result[q]
  <2>1. PICK p \in Requests : /\ result[q].from = p /\ KeyOf[p] = KeyOf[q]
                              /\ result[q].cached <=> p # q
                              /\ Sound(p)
    BY <1>1, <1>2 DEF AnswersTrue
  <2>2. Sound(p)'
    BY <2>1, SoundStays
  <2>3. QED
    BY <1>2, <2>1, <2>2
<1>3. CASE result'[q] # result[q]
  <2>1. CASE LookupHit(r)
    <3>1. PICK p \in Requests : p = cache[KeyOf[r]]
      BY <2>1 DEF LookupHit
    <3>2. q = r /\ result'[q] = Hit(p) /\ pc[r] = "lookup"
      BY <1>3, <2>1, <3>1 DEF LookupHit, Typed
    <3>3. KeyOf[p] = KeyOf[r] /\ Sound(p)
      BY <3>1, PipelineAssumption DEF OnlySuccessesCached, Sound
    <3>4. p # r
      BY <3>2, <3>3 DEF Sound, Closed
    <3>5. Sound(p)'
      BY <3>3, SoundStays
    <3>6. QED
      BY <3>2, <3>3, <3>4, <3>5 DEF Hit
  <2>2. CASE Answer(r)
    <3>1. q = r /\ result'[q] = Fresh(r)
      BY <1>3, <2>2 DEF Answer, Typed
    <3>2. Sound(r)
      BY <2>2 DEF Answer, CallShape, Sound
    <3>3. Sound(r)'
      BY <3>2, SoundStays
    <3>4. QED
      BY <3>1, <3>3 DEF Fresh
  <2>3. CASE FetchFail(r) \/ ReadFail(r) \/ JoinPanicked(r) \/ InnerTimeout(r)
    <3>1. PICK e \in Errors : Fail(r, e)
      BY <2>3 DEF FetchFail, ReadFail, JoinPanicked, InnerTimeout, Errors, ReadErrors
    <3>2. result'[q] = Failure(e)
      BY <1>3, <3>1 DEF Fail, Typed
    <3>3. QED
      BY <1>1, <3>2 DEF Failure, Errors, FetchErrors, ReadErrors
  <2>4. CASE RejectUrl(r) \/ OuterTimeout(r)
    <3>1. \E e \in Errors : result'[q] = Failure(e)
      BY <1>3, <2>4 DEF RejectUrl, OuterTimeout, Typed, Errors, FetchErrors
    <3>2. QED
      BY <1>1, <3>1 DEF Failure, Errors, FetchErrors, ReadErrors
  <2>5. QED
    BY <1>3, <2>1, <2>2, <2>3, <2>4
       DEF Step, Arrive, LookupMiss, Acquire, FetchOk, SpawnParse, JoinFinished, SetEnds,
           Disconnect, JobEnds
<1>4. QED
  BY <1>2, <1>3

\* Every "ok" of /extract and of serica_extract is true, for ever.
THEOREM OkAnswersTrue == Spec => []AnswersTrue
<1> DEFINE AnswersInv == Typed /\ CallShape /\ OnlySuccessesCached /\ AnswersTrue
<1>1. Init => AnswersInv
  <2>1. Init => AnswersTrue
    BY DEF Init, AnswersTrue, NoResult
  <2>2. QED
    BY <2>1, CachedInit
<1>2. AnswersInv /\ [Next]_vars => AnswersInv'
  <2> SUFFICES ASSUME AnswersInv, [Next]_vars PROVE AnswersTrue'
    BY TypedNext, ShapeNext, CachedNext
  <2>1. CASE \E r \in Requests : Step(r)
    BY <2>1, AnswersStep
  <2>2. CASE (\E k \in Keys : Expire(k)) \/ Tick \/ UNCHANGED vars
    <3>1. pc' = pc /\ job' = job /\ result' = result
      BY <2>2 DEF Expire, Tick, vars
    <3>2. \A p \in Requests : Sound(p)' <=> Sound(p)
      BY <3>1 DEF Sound, Fresh
    <3>3. QED
      BY <3>1, <3>2 DEF AnswersTrue
  <2>3. QED
    BY <2>1, <2>2 DEF Next, Quiescent
<1>3. QED
  BY <1>1, <1>2, PTL DEF Spec

\* The parses of calls that nobody has given up on.
AwaitedParses ==
    {r \in Requests : /\ job[r] = "running"
                      /\ pc[r] \notin {"cut", "dropped"}
                      /\ result[r] # Failure("ExtractTimeout")}

\* What is true of the bound that config.rs:33-35 states of all parses: it
\* holds of those whose callers still wait for them, and the permits that are
\* left say how many more of them there may be.
AwaitedParsesBounded ==
    /\ Cardinality(AwaitedParses) <= MaxConcurrent
    /\ Cardinality(AwaitedParses) <= MaxConcurrent - permits

\* So many pages are parsed at a time, those of abandoned calls apart.
THEOREM AwaitedParsesStayBounded == Spec => []AwaitedParsesBounded
<1>1. Spec => [](Typed /\ PermitAccounting)
  <2>1. Init => Typed /\ PermitAccounting
    BY TypedInit, AccountingInit
  <2>2. QED
    BY <2>1, TypedNext, AccountingNext, PTL DEF Spec
<1>2. Typed /\ PermitAccounting /\ OnlyAbandonedParsesOutlive => AwaitedParsesBounded
  <2> SUFFICES ASSUME Typed, PermitAccounting, OnlyAbandonedParsesOutlive
               PROVE  AwaitedParsesBounded
    OBVIOUS
  <2>1. AwaitedParses \subseteq Holders
    BY DEF AwaitedParses, Holders, Holding, OnlyAbandonedParsesOutlive
  <2>2. /\ Cardinality(AwaitedParses) <= Cardinality(Holders)
        /\ Cardinality(AwaitedParses) \in Nat
    BY <2>1, HoldersFinite, FS_Subset, FS_CardinalityType
  <2>3. QED
    BY <2>2, HoldersFinite, PipelineAssumption
       DEF AwaitedParsesBounded, PermitAccounting, Typed
<1>3. QED
  BY <1>1, <1>2, OverrunIsAbandoned, PTL
=============================================================================
