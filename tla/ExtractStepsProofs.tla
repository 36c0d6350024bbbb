------------------------- MODULE ExtractStepsProofs -------------------------
(***************************************************************************)
(* What holds of ExtractFetch for any names and addresses, whatever names  *)
(* resolve to and servers answer, and any value of the limits; and of      *)
(* ExtractCascade for any page, any answer of the library within the cap,  *)
(* and any floors and ratios.                                              *)
(***************************************************************************)
EXTENDS ExtractFetch, ExtractCascade, FiniteSetTheorems, TLAPS

-----------------------------------------------------------------------------
(* Fetch: types                                                              *)

\* What normalize_extract_url returns is a URL that carries nothing more.
LEMMA Normalized ==
    ASSUME NEW u \in Urls
    PROVE  normalize_extract_url(u) \in Urls /\ ~normalize_extract_url(u).tracked
BY DEF normalize_extract_url, Urls

\* The start is well typed.
LEMMA TypesInit == Init => TypeOK
<1> SUFFICES ASSUME Init PROVE TypeOK
  OBVIOUS
<1>1. url \in Urls /\ ~url.tracked
  BY Normalized DEF Init
<1>2. /\ pc = "validate" /\ redirects = 0 /\ pinned = NoAddress
      /\ dns \in [Hosts -> SUBSET Addresses]
      /\ dialled = {} /\ size = 0 /\ hopLeft = 0 /\ result = "none"
  BY DEF Init
<1>3. 0 \in 0..MaxRedirectHops /\ 0 \in 0..HopBudget
  BY FetchAssumption
<1>4. QED
  BY <1>1, <1>2, <1>3 DEF TypeOK, Pcs, Sent

\* A check that succeeds pins an address of the host.
LEMMA TypesValidate == TypeOK /\ Validate => TypeOK'
<1> SUFFICES ASSUME TypeOK, Validate PROVE TypeOK'
  OBVIOUS
<1>1. url.host \in Hosts
  BY DEF TypeOK, Validate, Validates, Urls
<1>2. pinned' \in Addresses
  BY <1>1 DEF Validate, TypeOK
<1>3. QED
  BY <1>2, FetchAssumption DEF Validate, TypeOK, Pcs, Sent

\* Failing keeps the types, if the error is one of run_extract's.
LEMMA TypesFail ==
    ASSUME TypeOK,
           NEW e \in {"InvalidQuery", "ServiceUnavailable", "ContentTooLarge", "Internal"},
           Fail(e)
    PROVE  TypeOK'
BY FetchAssumption DEF TypeOK, Fail, Pcs, Sent

\* A connection is made to the address pinned, for the hop under way.
LEMMA TypesConnect == TypeOK /\ Connect => TypeOK'
<1> SUFFICES ASSUME TypeOK, Connect PROVE TypeOK'
  OBVIOUS
<1>1. <<pinned, url, redirects>> \in Addresses \X Urls \X (0..MaxRedirectHops)
  BY DEF TypeOK, Connect, Sent
<1>2. dialled' \subseteq Addresses \X Urls \X (0..MaxRedirectHops)
  BY <1>1 DEF TypeOK, Connect
<1>3. QED
  BY <1>2, FetchAssumption DEF TypeOK, Connect, Pcs, Sent

\* A redirect is followed within the limit, to a normalized URL.
LEMMA TypesRedirect == TypeOK /\ Redirect => TypeOK'
<1> SUFFICES ASSUME TypeOK, Redirect PROVE TypeOK'
  OBVIOUS
<1>1. url' \in Urls /\ ~url'.tracked
  BY Normalized DEF Redirect
<1>2. redirects' \in 0..MaxRedirectHops
  BY FetchAssumption DEF Redirect, TypeOK
<1>3. QED
  BY <1>1, <1>2, FetchAssumption DEF Redirect, TypeOK, Pcs, Sent

\* The buffer grows by chunks.
LEMMA TypesChunk == TypeOK /\ Chunk => TypeOK'
<1> SUFFICES ASSUME TypeOK, Chunk PROVE TypeOK'
  OBVIOUS
<1>1. size' \in Nat
  BY FetchAssumption DEF Chunk, TypeOK
<1>2. QED
  BY <1>1, FetchAssumption DEF Chunk, TypeOK, Pcs, Sent

\* Every step keeps the types.
LEMMA TypesNext == TypeOK /\ [Next]_vars => TypeOK'
<1> SUFFICES ASSUME TypeOK, [Next]_vars PROVE TypeOK'
  OBVIOUS
<1>1. CASE Validate
  BY <1>1, TypesValidate
<1>2. CASE Invalid
  BY <1>2, TypesFail DEF Invalid
<1>3. CASE Connect
  BY <1>3, TypesConnect
<1>4. CASE BuildFails \/ SendFails
  BY <1>4, TypesFail DEF BuildFails, SendFails
<1>5. CASE Redirect
  BY <1>5, TypesRedirect
<1>6. CASE BadResponse
  BY <1>6, TypesFail DEF BadResponse
<1>7. CASE BadStatus
  BY <1>7, TypesFail DEF BadStatus
<1>8. CASE DeclaredTooLarge
  BY <1>8, TypesFail DEF DeclaredTooLarge
<1>9. CASE StartReading
  BY <1>9 DEF StartReading, TypeOK, Pcs, Sent
<1>10. CASE Chunk
  BY <1>10, TypesChunk
<1>11. CASE BodyEnds
  BY <1>11, FetchAssumption DEF BodyEnds, TypeOK, Pcs, Sent
<1>12. CASE BodyFails
  BY <1>12, TypesFail DEF BodyFails
<1>13. CASE Tick
  BY <1>13, FetchAssumption DEF Tick, TypeOK, Pcs, Sent
<1>14. ASSUME NEW h \in Hosts, DnsChanges(h)
       PROVE  TypeOK'
  BY <1>14 DEF DnsChanges, TypeOK
<1>15. CASE UNCHANGED vars
  BY <1>15 DEF vars, TypeOK
<1>16. QED
  BY <1>1, <1>2, <1>3, <1>4, <1>5, <1>6, <1>7, <1>8, <1>9, <1>10, <1>11, <1>12,
     <1>13, <1>14, <1>15 DEF Next

\* No variable of the fetch leaves its type: no redirect is counted beyond the
\* limit, no timer is overdrawn, and a hop under way has an address
\* (ssrf.rs:264-333).
THEOREM FetchTypeCorrect == Spec => []TypeOK
<1>1. Init => TypeOK
  BY TypesInit
<1>2. TypeOK /\ [Next]_vars => TypeOK'
  BY TypesNext
<1>3. QED
  BY <1>1, <1>2, PTL DEF Spec

-----------------------------------------------------------------------------
(* Fetch: only checked addresses are connected to                            *)

\* The strengthening: what is pinned for a hop under way was checked, and its
\* URL is https.  It says nothing of what the name resolves to by then.
HopChecked ==
    pc \in {"connect"} \cup Sent => pinned \notin Forbidden /\ url.https

\* The step that connects takes a checked hop; all others leave both the
\* record of connections and the hop alone, or leave the hop.
LEMMA CheckedNext ==
    HopChecked /\ DialsOnlyValidated /\ [Next]_vars
        => HopChecked' /\ DialsOnlyValidated'
<1> SUFFICES ASSUME HopChecked, DialsOnlyValidated, [Next]_vars
             PROVE  HopChecked' /\ DialsOnlyValidated'
  OBVIOUS
<1>1. CASE Validate
  <2>1. pinned' \notin Forbidden /\ url'.https
    BY <1>1 DEF Validate, Validates
  <2>2. QED
    BY <1>1, <2>1 DEF Validate, HopChecked, DialsOnlyValidated
<1>2. CASE Connect
  <2>1. pinned \notin Forbidden /\ url.https
    BY <1>2 DEF Connect, HopChecked
  <2>2. UNCHANGED <<pinned, url>> /\ dialled' = dialled \cup {<<pinned, url, redirects>>}
    BY <1>2 DEF Connect
  <2>3. QED
    BY <2>1, <2>2 DEF HopChecked, DialsOnlyValidated
<1>3. ASSUME NEW e, Fail(e)
      PROVE  HopChecked' /\ DialsOnlyValidated'
  BY <1>3 DEF Fail, HopChecked, DialsOnlyValidated, Sent
<1>4. CASE Redirect
  BY <1>4 DEF Redirect, HopChecked, DialsOnlyValidated, Sent
<1>5. CASE StartReading \/ Chunk \/ BodyEnds \/ Tick
  BY <1>5 DEF StartReading, Chunk, BodyEnds, Tick, HopChecked, DialsOnlyValidated, Sent
<1>6. ASSUME NEW h \in Hosts, DnsChanges(h)
      PROVE  HopChecked' /\ DialsOnlyValidated'
  BY <1>6 DEF DnsChanges, HopChecked, DialsOnlyValidated
<1>7. CASE UNCHANGED vars
  BY <1>7 DEF vars, HopChecked, DialsOnlyValidated
<1>8. QED
  BY <1>1, <1>2, <1>3, <1>4, <1>5, <1>6, <1>7
     DEF Next, Invalid, BuildFails, SendFails, BadResponse, BadStatus,
         DeclaredTooLarge, BodyFails

\* Whatever the names resolve to and however the chain of redirects runs, no
\* connection goes to an address the check refuses, nor for a URL that is not
\* https (ssrf.rs:66-102, 246-256).
THEOREM OnlyValidatedDialled == Spec => []DialsOnlyValidated
<1>1. Init => HopChecked /\ DialsOnlyValidated
  BY DEF Init, HopChecked, DialsOnlyValidated, Sent
<1>2. QED
  BY <1>1, CheckedNext, PTL DEF Spec

-----------------------------------------------------------------------------
(* Fetch: the chain is bounded                                               *)

\* The strengthening: each hop under way or behind us has connected at most
\* once, and the one that got an answer has.
HopsCounted ==
    /\ IsFiniteSet(dialled)
    /\ Cardinality(dialled) <=
          IF pc \in {"validate", "connect"} THEN redirects ELSE redirects + 1
    /\ pc \in Sent \cup {"done"} => <<pinned, url, redirects>> \in dialled

\* Nothing is connected to at the start.
LEMMA CountedInit == Init => HopsCounted
BY FS_EmptySet DEF Init, HopsCounted, Sent

\* A connection adds one to the count of its hop, a redirect starts the next.
LEMMA CountedNext == TypeOK /\ HopsCounted /\ [Next]_vars => HopsCounted'
<1> SUFFICES ASSUME TypeOK, HopsCounted, [Next]_vars PROVE HopsCounted'
  OBVIOUS
<1>0. redirects \in Nat /\ Cardinality(dialled) \in Nat
  BY FetchAssumption, FS_CardinalityType DEF TypeOK, HopsCounted
<1>1. CASE Connect
  <2> DEFINE hop == <<pinned, url, redirects>>
  <2>a. dialled' = dialled \cup {hop} /\ IsFiniteSet(dialled)
    BY <1>1 DEF Connect, HopsCounted
  <2>b. /\ IsFiniteSet(dialled \cup {hop})
        /\ Cardinality(dialled \cup {hop}) =
              IF hop \in dialled THEN Cardinality(dialled) ELSE Cardinality(dialled) + 1
    <3> HIDE DEF hop
    <3> QED BY <2>a, FS_AddElement
  <2>1. /\ IsFiniteSet(dialled')
        /\ Cardinality(dialled') <= Cardinality(dialled) + 1
    <3> HIDE DEF hop
    <3> QED BY <1>0, <2>a, <2>b
  <2>2. Cardinality(dialled) <= redirects
    BY <1>1 DEF Connect, HopsCounted
  <2>3. Cardinality(dialled') \in Nat
    BY <2>1, FS_CardinalityType
  <2>4. Cardinality(dialled') <= redirects + 1
    BY <1>0, <2>1, <2>2, <2>3
  <2>5. pc' = "respond" /\ <<pinned', url', redirects'>> \in dialled' /\ redirects' = redirects
    BY <1>1 DEF Connect
  <2>6. QED
    BY <2>1, <2>4, <2>5 DEF HopsCounted
<1>2. CASE Redirect
  BY <1>0, <1>2 DEF Redirect, HopsCounted, Sent
<1>3. ASSUME NEW e, Fail(e)
      PROVE  HopsCounted'
  BY <1>0, <1>3 DEF Fail, HopsCounted, Sent
<1>4. CASE Validate
  BY <1>4 DEF Validate, HopsCounted, Sent
<1>5. CASE StartReading \/ Chunk \/ BodyEnds \/ Tick
  BY <1>0, <1>5 DEF StartReading, Chunk, BodyEnds, Tick, HopsCounted, Sent
<1>6. ASSUME NEW h \in Hosts, DnsChanges(h)
      PROVE  HopsCounted'
  BY <1>6 DEF DnsChanges, HopsCounted
<1>7. CASE UNCHANGED vars
  BY <1>7 DEF vars, HopsCounted
<1>8. QED
  BY <1>1, <1>2, <1>3, <1>4, <1>5, <1>6, <1>7
     DEF Next, Invalid, BuildFails, SendFails, BadResponse, BadStatus,
         DeclaredTooLarge, BodyFails

\* A chain of redirects costs at most MAX_REDIRECT_HOPS + 1 connections, and
\* the content comes from the last one (ssrf.rs:258-262, 294-306).
THEOREM FetchChainBounded == Spec => []ChainBounded
<1>1. TypeOK /\ HopsCounted => ChainBounded
  <2> SUFFICES ASSUME TypeOK, HopsCounted PROVE ChainBounded
    OBVIOUS
  <2>1. Cardinality(dialled) \in Nat /\ redirects \in 0..MaxRedirectHops
    BY FS_CardinalityType DEF TypeOK, HopsCounted
  <2>2. Cardinality(dialled) <= MaxRedirectHops + 1
    BY <2>1, FetchAssumption DEF HopsCounted
  <2>3. QED
    BY <2>2 DEF HopsCounted, ChainBounded, Sent
<1>2. QED
  BY <1>1, CountedInit, CountedNext, TypesInit, TypesNext, PTL DEF Spec

-----------------------------------------------------------------------------
(* Fetch: the body is bounded                                                *)

\* The strengthening: a body still being read is within the limit, and "ok" is
\* only ever said of a body that was.
ReadWithin ==
    /\ size \in Nat
    /\ size <= MaxRawBytes + MaxChunk
    /\ pc \in {"read", "done"} => size <= MaxRawBytes
    /\ result = "ok" => pc = "done"

\* A chunk either leaves the body within the limit or ends the reading.
LEMMA WithinNext == ReadWithin /\ [Next]_vars => ReadWithin'
<1> SUFFICES ASSUME ReadWithin, [Next]_vars PROVE ReadWithin'
  OBVIOUS
<1> USE FetchAssumption DEF ReadWithin
<1>1. CASE Chunk
  <2>1. PICK n \in 0..MaxChunk : size' = size + n
    BY <1>1 DEF Chunk
  <2>2. size' \in Nat /\ size' <= MaxRawBytes + MaxChunk /\ size <= MaxRawBytes
    BY <1>1, <2>1 DEF Chunk
  <2>3. QED
    BY <1>1, <2>2 DEF Chunk
<1>2. CASE StartReading
  BY <1>2 DEF StartReading
<1>3. CASE BodyEnds
  BY <1>3 DEF BodyEnds
<1>4. ASSUME NEW e \in {"InvalidQuery", "ServiceUnavailable", "ContentTooLarge", "Internal"},
             Fail(e)
      PROVE  ReadWithin'
  BY <1>4 DEF Fail
<1>5. CASE Validate \/ Connect \/ Redirect \/ Tick
  BY <1>5 DEF Validate, Validates, Connect, Redirect, Tick, Sent
<1>6. CASE (\E h \in Hosts : DnsChanges(h)) \/ UNCHANGED vars
  BY <1>6 DEF DnsChanges, vars
<1>7. QED
  BY <1>1, <1>2, <1>3, <1>4, <1>5, <1>6
     DEF Next, Invalid, BuildFails, SendFails, BadResponse, BadStatus,
         DeclaredTooLarge, BodyFails

\* The buffer exceeds the limit by one chunk at most, and what is parsed never
\* does (fetch.rs:53-83).
THEOREM FetchBodyBounded == Spec => []BodyBounded
<1>1. Init => ReadWithin
  BY FetchAssumption DEF Init, ReadWithin
<1>2. ReadWithin => BodyBounded
  BY DEF ReadWithin, BodyBounded
<1>3. QED
  BY <1>1, <1>2, WithinNext, PTL DEF Spec

-----------------------------------------------------------------------------
(* Fetch: it runs down                                                       *)

\* How far a hop has come.
HopRank ==
    [p \in Pcs |->
        CASE p = "validate" -> 0
          [] p = "connect" -> 1
          [] p = "respond" -> 2
          [] p = "read" -> 3
          [] p \in {"done", "failed"} -> 4]

\* The timeouts of the hops that are still to come: of the redirects that
\* may yet be followed, and of the request that is about to be sent.
HopsAhead ==
    CASE pc \in {"validate", "connect"} -> (MaxRedirectHops - redirects) + 1
      [] pc \in Sent -> MaxRedirectHops - redirects
      [] pc \in {"done", "failed"} -> 0

\* The ticks the fetch may still take.
TimeLeft == HopsAhead * HopBudget + hopLeft

\* What FetchEnds rests on, step by step (ssrf.rs:264-333): a hop goes
\* forward or gives way to the next one, of which there are finitely many; a
\* fetch that is over stays as it is; and all its hops and bodies together
\* never take longer than one timeout per hop: each tick is one less, and no
\* redirect, chunk or answer gives any of them back.
FetchSpends ==
    /\ \/ pc' = pc /\ redirects' = redirects
       \/ HopRank[pc] < HopRank[pc'] /\ redirects' = redirects
       \/ pc = "respond" /\ pc' = "validate" /\ redirects' = redirects + 1
    /\ pc \in {"done", "failed"} => UNCHANGED <<pc, url, redirects, size, result>>
    /\ TimeLeft' <= TimeLeft
    /\ pc' = pc /\ hopLeft' # hopLeft => TimeLeft' = TimeLeft - 1

\* The timer runs while the request is out and at no other time.
ClockShape == pc \notin Sent => hopLeft = 0

\* Every step keeps the timer in step with the hop.
LEMMA ClockNext == ClockShape /\ [Next]_vars => ClockShape'
BY DEF ClockShape, Next, Validate, Invalid, Connect, BuildFails, SendFails, Redirect,
       BadResponse, BadStatus, DeclaredTooLarge, StartReading, Chunk, BodyEnds, BodyFails, Tick,
       DnsChanges, Fail, Sent, vars

\* What one more hop costs.
LEMMA OneMoreHop ==
    ASSUME NEW n \in Nat
    PROVE  /\ n * HopBudget \in Nat
           /\ (n + 1) * HopBudget = n * HopBudget + HopBudget
           /\ 0 * HopBudget = 0
BY FetchAssumption

\* A fetch has the timeouts of its hops to come, and what is left of this
\* one's.
HopsLeft == MaxRedirectHops - redirects

TimeParts ==
    /\ HopsLeft \in Nat /\ HopsLeft * HopBudget \in Nat /\ hopLeft \in Nat
    /\ pc \in {"validate", "connect"} =>
          TimeLeft = HopsLeft * HopBudget + HopBudget + hopLeft
    /\ pc \in Sent => TimeLeft = HopsLeft * HopBudget + hopLeft
    /\ pc \in {"done", "failed"} => TimeLeft = hopLeft

LEMMA TimeAhead == TypeOK => TimeParts
<1> SUFFICES ASSUME TypeOK PROVE TimeParts
  OBVIOUS
<1>1. HopsLeft \in Nat /\ hopLeft \in Nat
  BY FetchAssumption DEF TypeOK, HopsLeft
<1>2. /\ HopsLeft * HopBudget \in Nat
      /\ (HopsLeft + 1) * HopBudget = HopsLeft * HopBudget + HopBudget
  BY <1>1, OneMoreHop
<1>3. pc \in {"validate", "connect"} => HopsAhead = HopsLeft + 1
  BY DEF HopsAhead, HopsLeft, Sent
<1>4. pc \in Sent => HopsAhead = HopsLeft
  BY DEF HopsAhead, Sent, HopsLeft
<1>5. pc \in {"done", "failed"} => HopsAhead = 0
  BY DEF HopsAhead, Sent
<1>6. pc \in {"validate", "connect"} => TimeLeft = HopsLeft * HopBudget + HopBudget + hopLeft
  BY <1>2, <1>3 DEF TimeLeft
<1>7. pc \in Sent => TimeLeft = HopsLeft * HopBudget + hopLeft
  BY <1>4 DEF TimeLeft
<1>8. pc \in {"done", "failed"} => TimeLeft = hopLeft
  BY <1>1, <1>5, OneMoreHop DEF TimeLeft
<1>9. QED
  BY <1>1, <1>2, <1>6, <1>7, <1>8 DEF TimeParts

\* It has them after a step as before it.
LEMMA TimeAheadNext == TypeOK' => TimeParts'
BY TimeAhead, PTL

\* A step that ends the fetch.
LEMMA EndSpends ==
    ASSUME TypeOK, TypeOK', pc \notin {"done", "failed"},
           pc' \in {"done", "failed"}, redirects' = redirects, hopLeft' = 0
    PROVE  FetchSpends
<1>1. TimeLeft' = 0
  BY TimeAheadNext DEF TimeParts
<1>2. TimeLeft \in Nat
  BY TimeAhead, FetchAssumption DEF TimeParts, TypeOK, Pcs, Sent
<1>3. HopRank[pc] < HopRank[pc']
  BY DEF HopRank, TypeOK, Pcs
<1>4. pc' # pc
  OBVIOUS
<1>5. QED
  BY <1>1, <1>2, <1>3, <1>4 DEF FetchSpends

\* A step that changes neither the hop nor the clock costs nothing.
LEMMA FreeStep ==
    ASSUME TypeOK, TypeOK', pc' = pc, pc \notin {"done", "failed"},
           redirects' = redirects, hopLeft' = hopLeft
    PROVE  FetchSpends
<1>1. TimeLeft' = TimeLeft
  BY DEF TimeLeft, HopsAhead, Sent
<1>2. TimeLeft \in Nat
  BY TimeAhead, FetchAssumption DEF TimeParts, TypeOK, Pcs, Sent
<1>3. QED
  BY <1>1, <1>2 DEF FetchSpends

\* Whatever the servers, the redirects and the names do, the time of a fetch
\* only runs down: MAX_REDIRECT_HOPS + 1 timeouts, and then it is over.
THEOREM FetchTimeRunsOut == Spec => [](TimeLeft <= (MaxRedirectHops + 1) * HopBudget)
                                    /\ [][FetchSpends]_vars
<1> USE DEF Sent
<1>1. TypeOK /\ TypeOK' /\ ClockShape /\ Next => FetchSpends \/ UNCHANGED vars
  <2> SUFFICES ASSUME TypeOK, TypeOK', ClockShape, Next
               PROVE  FetchSpends \/ UNCHANGED vars
    OBVIOUS
  <2>0. TimeParts /\ TimeParts' /\ pc \in Pcs /\ pc' \in Pcs
    BY TimeAhead, TimeAheadNext DEF TypeOK
  <2>1. CASE Invalid \/ BuildFails \/ SendFails \/ BadResponse
             \/ BadStatus \/ DeclaredTooLarge \/ BodyFails
    BY <2>1, EndSpends
       DEF Invalid, BuildFails, SendFails, BadResponse,
           BadStatus, DeclaredTooLarge, BodyFails, Fail
  <2>2. CASE BodyEnds
    BY <2>2, EndSpends DEF BodyEnds
  <2>3. CASE Chunk
    <3>1. CASE size' > MaxRawBytes
      BY <2>3, <3>1, EndSpends DEF Chunk
    <3>2. CASE ~(size' > MaxRawBytes)
      BY <2>3, <3>2, FreeStep DEF Chunk
    <3>3. QED
      BY <3>1, <3>2
  <2>4. CASE Validate
    <3>1. pc = "validate" /\ pc' = "connect" /\ redirects' = redirects /\ hopLeft' = hopLeft
      BY <2>4 DEF Validate
    <3>2. TimeLeft' = TimeLeft /\ TimeLeft \in Nat
      BY <2>0, <3>1, FetchAssumption DEF TimeParts, HopsLeft
    <3>3. HopRank[pc] < HopRank[pc']
      BY <3>1 DEF HopRank, Pcs
    <3>4. QED
      BY <3>1, <3>2, <3>3 DEF FetchSpends
  <2>5. CASE Connect
    <3>1. /\ pc = "connect" /\ pc' = "respond" /\ redirects' = redirects
          /\ hopLeft = 0 /\ hopLeft' = HopBudget
      BY <2>5 DEF Connect, ClockShape
    <3>2. TimeLeft' = TimeLeft /\ TimeLeft \in Nat
      BY <2>0, <3>1, FetchAssumption DEF TimeParts, HopsLeft
    <3>3. HopRank[pc] < HopRank[pc']
      BY <3>1 DEF HopRank, Pcs
    <3>4. QED
      BY <3>1, <3>2, <3>3 DEF FetchSpends
  <2>6. CASE Redirect
    <3>1. /\ pc = "respond" /\ pc' = "validate" /\ redirects' = redirects + 1
          /\ hopLeft' = 0
      BY <2>6 DEF Redirect
    <3>2. PICK n \in Nat : n = HopsLeft'
      BY <2>0 DEF TimeParts
    <3>3. HopsLeft = n + 1
      BY <3>1, <3>2, FetchAssumption DEF HopsLeft, TypeOK
    <3>4. HopsLeft * HopBudget = n * HopBudget + HopBudget
      BY <3>3, OneMoreHop
    <3>5. TimeLeft' = n * HopBudget + HopBudget + hopLeft'
      BY <2>0, <3>1, <3>2 DEF TimeParts
    <3>6. TimeLeft = n * HopBudget + HopBudget + hopLeft
      BY <2>0, <3>1, <3>4 DEF TimeParts
    <3>7. TimeLeft' <= TimeLeft
      BY <2>0, <3>1, <3>5, <3>6, OneMoreHop, FetchAssumption DEF TimeParts
    <3>8. QED
      BY <3>1, <3>7 DEF FetchSpends
  <2>7. CASE StartReading
    <3>1. pc = "respond" /\ pc' = "read" /\ redirects' = redirects /\ hopLeft' = hopLeft
      BY <2>7 DEF StartReading
    <3>2. TimeLeft' = TimeLeft /\ TimeLeft \in Nat
      BY <2>0, <3>1, FetchAssumption DEF TimeParts, HopsLeft
    <3>3. HopRank[pc] < HopRank[pc']
      BY <3>1 DEF HopRank, Pcs
    <3>4. QED
      BY <3>1, <3>2, <3>3 DEF FetchSpends
  <2>8. CASE Tick
    <3>1. /\ pc \in Sent /\ pc' = pc /\ redirects' = redirects
          /\ hopLeft' = hopLeft - 1
      BY <2>8 DEF Tick
    <3>2. TimeLeft' = TimeLeft - 1 /\ TimeLeft' <= TimeLeft
      BY <2>0, <3>1, FetchAssumption DEF TimeParts, HopsLeft
    <3>3. QED
      BY <3>1, <3>2 DEF FetchSpends
  <2>9. ASSUME NEW h \in Hosts, DnsChanges(h) PROVE FetchSpends
    <3>1. /\ pc' = pc /\ url' = url /\ redirects' = redirects /\ size' = size
          /\ result' = result /\ hopLeft' = hopLeft
      BY <2>9 DEF DnsChanges
    <3>2. TimeLeft' = TimeLeft /\ TimeLeft \in Int
      BY <2>0, <3>1, FetchAssumption DEF TimeParts, HopsLeft, Pcs
    <3>3. QED
      BY <3>1, <3>2 DEF FetchSpends
  <2>10. QED
    BY <2>1, <2>2, <2>3, <2>4, <2>5, <2>6, <2>7, <2>8, <2>9 DEF Next
<1>2. TypeOK /\ ClockShape => TimeLeft <= (MaxRedirectHops + 1) * HopBudget
  <2> SUFFICES ASSUME TypeOK, ClockShape
               PROVE  TimeLeft <= (MaxRedirectHops + 1) * HopBudget
    OBVIOUS
  <2>1. TimeParts /\ pc \in Pcs /\ hopLeft <= HopBudget
    BY TimeAhead, FetchAssumption DEF TypeOK
  <2>2. HopsLeft \in 0..MaxRedirectHops
    BY FetchAssumption DEF TypeOK, HopsLeft
  <2>3. HopsLeft * HopBudget <= MaxRedirectHops * HopBudget
    BY <2>2, FetchAssumption
  <2>4. /\ (MaxRedirectHops + 1) * HopBudget = MaxRedirectHops * HopBudget + HopBudget
        /\ MaxRedirectHops * HopBudget \in Nat
    BY OneMoreHop, FetchAssumption
  <2>5. QED
    BY <2>1, <2>3, <2>4, FetchAssumption DEF TimeParts, ClockShape, Pcs
<1>3. Init => ClockShape
  BY DEF Init, ClockShape
<1>4. QED
  BY FetchTypeCorrect, ClockNext, <1>1, <1>2, <1>3, PTL DEF Spec

-----------------------------------------------------------------------------
(* Cascade: arithmetic of the ratio                                          *)

\* A percentage of a length is at most the length.
LEMMA PercentAtMost ==
    ASSUME NEW t \in 1..100, NEW w \in Nat
    PROVE  t * w <= 100 * w
OBVIOUS

\* A percentage grows with the length it is taken of.
LEMMA PercentMonotone ==
    ASSUME NEW t \in 1..100, NEW v \in Nat, NEW w \in Nat, v <= w
    PROVE  t * v <= t * w
OBVIOUS

\* The threshold is one of the two percentages.
LEMMA ThresholdType ==
    ASSUME NEW p
    PROVE  Threshold(p) \in 1..100
BY CascadeAssumption DEF Threshold

\* A call has the fields of Calls, and the library keeps to the cap.
LEMMA PageType ==
    ASSUME NEW p \in Pages
    PROVE  /\ p.cap \in Nat \ {0} /\ p.whole \in Nat /\ p.raw \in Nat
           /\ p.md \in Strings /\ p.text \in Strings
           /\ p.md.len <= p.cap /\ p.text.len <= p.cap
BY CascadeAssumption DEF Calls

\* Restoring the markers gives a length, no longer than what it restores.
LEMMA RestoredType ==
    ASSUME NEW s \in Strings
    PROVE  RestoredLen(s) \in Nat /\ RestoredLen(s) <= s.len
BY DEF Strings, RestoredLen

-----------------------------------------------------------------------------
(* Cascade: types and method                                                 *)

\* One step keeps the types.
LEMMA TypeNext == CascadeTypeOK /\ [CascadeNext]_cascadeVars => CascadeTypeOK'
<1> SUFFICES ASSUME CascadeTypeOK, [CascadeNext]_cascadeVars PROVE CascadeTypeOK'
  OBVIOUS
<1>0. /\ page.cap \in Nat \ {0} /\ page.whole \in Nat
      /\ RestoredLen(page.md) \in Nat /\ RestoredLen(page.md) <= page.cap
      /\ RestoredLen(page.text) \in Nat /\ RestoredLen(page.text) <= page.cap
  <2>1. page \in Pages
    BY DEF CascadeTypeOK
  <2>2. /\ page.cap \in Nat \ {0} /\ page.whole \in Nat
        /\ page.md \in Strings /\ page.text \in Strings
        /\ page.md.len <= page.cap /\ page.text.len <= page.cap
    BY <2>1, PageType
  <2>3. page.md.len \in Nat /\ page.text.len \in Nat
    BY <2>2 DEF Strings
  <2>4. /\ RestoredLen(page.md) \in Nat /\ RestoredLen(page.md) <= page.md.len
        /\ RestoredLen(page.text) \in Nat /\ RestoredLen(page.text) <= page.text.len
    BY <2>2, RestoredType
  <2>5. QED
    BY <2>2, <2>3, <2>4
<1>1. CASE ExtractMarkdown
  BY <1>0, <1>1 DEF ExtractMarkdown, CascadeTypeOK, Methods
<1>2. CASE ExtractText
  BY <1>0, <1>2 DEF ExtractText, CascadeTypeOK, Methods, Nothing
<1>3. CASE ExtractError
  BY <1>0, <1>3 DEF ExtractError, CascadeTypeOK, Methods, Nothing
<1>4. CASE Trust \/ Pass
  BY <1>4 DEF Trust, Pass, CascadeTypeOK
<1>5. CASE Rescue
  BY <1>0, <1>5 DEF Rescue, CascadeTypeOK, Methods
<1>6. CASE GiveUp
  BY <1>0, <1>6 DEF GiveUp, CascadeTypeOK, Nothing
<1>7. CASE Cap
  <2>1. CASE chosen.len <= page.cap /\ UNCHANGED chosen
    BY <1>7, <2>1 DEF Cap, CascadeTypeOK
  <2>2. ASSUME chosen.len > page.cap,
               NEW n \in (page.cap - 3)..page.cap,
               n >= 0 /\ chosen' = [chosen EXCEPT !.len = n]
        PROVE  CascadeTypeOK'
    <3>1. chosen.from # "nothing"
      BY <1>0, <2>2 DEF CascadeTypeOK
    <3>2. n \in Nat /\ n <= page.cap
      BY <1>0, <2>2
    <3>3. /\ chosen' \in [from : {"nothing", "markdown", "text", "whole"}, len : Nat]
          /\ chosen'.from = chosen.from /\ chosen'.len = n
      BY <2>2, <3>2 DEF CascadeTypeOK
    <3>4. QED
      BY <1>7, <3>1, <3>2, <3>3 DEF Cap, CascadeTypeOK
  <2>3. QED
    BY <1>7, <2>1, <2>2 DEF Cap
<1>8. CASE UNCHANGED cascadeVars
  BY <1>8 DEF cascadeVars, CascadeTypeOK
<1>9. QED
  BY <1>1, <1>2, <1>3, <1>4, <1>5, <1>6, <1>7, <1>8 DEF CascadeNext

\* The cascade keeps its types, and what it serves keeps to the cap
\* (extract.rs:369-374).
THEOREM CascadeTypeCorrect == CascadeSpec => []CascadeTypeOK
<1>1. CascadeInit => CascadeTypeOK
  <2> SUFFICES ASSUME CascadeInit PROVE CascadeTypeOK
    OBVIOUS
  <2>1. page \in Pages /\ page.cap \in Nat \ {0}
    BY PageType DEF CascadeInit
  <2>2. chosen \in [from : {"nothing", "markdown", "text", "whole"}, len : Nat]
        /\ chosen.from = "nothing" /\ chosen.len = 0
    BY DEF CascadeInit, Nothing
  <2>3. chosen.len <= page.cap
    BY <2>1, <2>2
  <2>4. QED
    BY <2>1, <2>2, <2>3 DEF CascadeInit, CascadeTypeOK, Methods
<1>2. QED
  BY <1>1, TypeNext, PTL DEF CascadeSpec

\* One step keeps method and content together.
LEMMA MethodNext ==
    CascadeTypeOK /\ MethodTellsTruth /\ [CascadeNext]_cascadeVars => MethodTellsTruth'
<1> SUFFICES ASSUME CascadeTypeOK, MethodTellsTruth, [CascadeNext]_cascadeVars
             PROVE  MethodTellsTruth'
  OBVIOUS
<1>1. CASE ExtractMarkdown \/ ExtractText \/ ExtractError
  BY <1>1 DEF ExtractMarkdown, ExtractText, ExtractError, MethodTellsTruth
<1>2. CASE Trust \/ Pass
  BY <1>2 DEF Trust, Pass, MethodTellsTruth
<1>3. CASE Rescue \/ GiveUp
  BY <1>3 DEF Rescue, GiveUp, MethodTellsTruth
<1>4. CASE Cap
  <2>1. chosen'.from = chosen.from /\ method' = method /\ stage = "cap"
    BY <1>4 DEF Cap, CascadeTypeOK
  <2>2. chosen = Nothing => chosen' = Nothing
    <3> SUFFICES ASSUME chosen = Nothing PROVE chosen' = Nothing
      OBVIOUS
    <3>1. page.cap \in Nat
      BY PageType DEF CascadeTypeOK
    <3>2. QED
      BY <1>4, <3>1 DEF Cap, Nothing
  <2>3. QED
    BY <2>1, <2>2 DEF MethodTellsTruth
<1>5. CASE UNCHANGED cascadeVars
  BY <1>5 DEF cascadeVars, MethodTellsTruth
<1>6. QED
  BY <1>1, <1>2, <1>3, <1>4, <1>5 DEF CascadeNext

\* ExtractOutcome::method names the stage the content is from
\* (extract.rs:145-163).
THEOREM MethodTruthful == CascadeSpec => []MethodTellsTruth
<1>1. CascadeInit => MethodTellsTruth
  BY DEF CascadeInit, MethodTellsTruth
<1>2. QED
  BY <1>1, CascadeTypeCorrect, MethodNext, PTL DEF CascadeSpec

-----------------------------------------------------------------------------
(* Cascade: the audit                                                        *)

\* More is never worse (extract.rs:334-343): of two extracts of one page, the
\* longer is kept whenever the shorter is.
THEOREM KeepMonotone == CascadeSpec => []KeepIsMonotone
<1>1. CascadeTypeOK => KeepIsMonotone
  <2> SUFFICES ASSUME CascadeTypeOK, stage = "audit", chosen # Nothing,
                      ~Replaced(page, method, chosen.len, TRUE),
                      NEW n \in Lengths, n > chosen.len, n <= page.cap,
                      Replaced(page, method, n, TRUE)
               PROVE  FALSE
    BY DEF KeepIsMonotone
  <2> DEFINE c == chosen.len
             share == Threshold(page) * page.whole
  <2>1. /\ c \in Nat /\ n \in Nat /\ page.cap \in Nat /\ page.whole \in Nat
        /\ WholeDocCheckFloor \in Nat /\ HealthyMarkdownFloor \in Nat
    BY CascadeAssumption, PageType DEF CascadeTypeOK
  <2>2. share \in Int
    BY <2>1, ThresholdType
  <2>3. 100 * n < share /\ page.whole > 0
    BY DEF Replaced, Gutted
  <2>4. 100 * c < share
    <3> HIDE DEF share
    <3> QED BY <2>1, <2>2, <2>3
  <2>5. ~AuditNeeded(page, method, c, TRUE)
    BY <2>3, <2>4 DEF Replaced, Gutted
  <2>6. ~IsLarge(page)
    BY <2>1, <2>5 DEF AuditNeeded
  <2>7. c >= WholeDocCheckFloor \/ (method = "Markdown" /\ c >= HealthyMarkdownFloor)
    BY <2>1, <2>5 DEF AuditNeeded, InBand
  <2>8. n >= WholeDocCheckFloor \/ (method = "Markdown" /\ n >= HealthyMarkdownFloor)
    BY <2>1, <2>7
  <2>9. ~AuditNeeded(page, method, n, TRUE)
    BY <2>1, <2>6, <2>8 DEF AuditNeeded, InBand
  <2>10. QED
    BY <2>9 DEF Replaced
<1>2. QED
  BY <1>1, CascadeTypeCorrect, PTL

\* What a replaced extract can have been (extract.rs:345-365).
LEMMA LosesNothing ==
    CascadeTypeOK /\ [CascadeNext]_cascadeVars =>
        (stage = "audit" /\ chosen' # chosen =>
            /\ chosen'.from = "whole" => chosen'.len > chosen.len
            /\ chosen' = Nothing =>
                  100 * chosen.len < RatioPercent * MinFallbackChars
                  \/ 100 * chosen.len < LargeRatioPercent * MinFallbackChars)
<1> SUFFICES ASSUME CascadeTypeOK, [CascadeNext]_cascadeVars, stage = "audit", chosen' # chosen
             PROVE  /\ chosen'.from = "whole" => chosen'.len > chosen.len
                    /\ chosen' = Nothing =>
                          100 * chosen.len < RatioPercent * MinFallbackChars
                          \/ 100 * chosen.len < LargeRatioPercent * MinFallbackChars
  OBVIOUS
<1> DEFINE c == chosen.len
           w == page.whole
           t == Threshold(page)
<1>0. c \in Nat /\ w \in Nat /\ t \in 1..100 /\ MinFallbackChars \in Nat
  BY CascadeAssumption, PageType, ThresholdType DEF CascadeTypeOK
<1>1. Rescue \/ GiveUp
  BY DEF CascadeNext, ExtractMarkdown, ExtractText, ExtractError, Trust, Pass, Cap, cascadeVars
<1>2. 100 * c < t * w
  BY <1>1 DEF Rescue, GiveUp, Gutted
<1>3. CASE Rescue
  <2>1. chosen'.from = "whole" /\ chosen'.len = w /\ chosen' # Nothing
    BY <1>3 DEF Rescue, Nothing
  <2>2. t * w <= 100 * w
    BY <1>0, PercentAtMost
  <2>3. t * w \in Int
    BY <1>0
  <2>4. c < w
    BY <1>0, <1>2, <2>2, <2>3
  <2>5. QED
    BY <1>0, <2>1, <2>4
<1>4. CASE GiveUp
  <2>1. w <= MinFallbackChars /\ chosen'.from # "whole"
    BY <1>0, <1>4 DEF GiveUp, Nothing
  <2>2. t * w <= t * MinFallbackChars
    BY <1>0, <2>1, PercentMonotone
  <2>3. t * w \in Int /\ t * MinFallbackChars \in Int
    BY <1>0
  <2>4. 100 * c < t * MinFallbackChars
    BY <1>0, <1>2, <2>2, <2>3
  <2>5. t = RatioPercent \/ t = LargeRatioPercent
    BY DEF Threshold
  <2>6. QED
    BY <2>1, <2>4, <2>5
<1>5. QED
  BY <1>1, <1>3, <1>4

\* The audit serves the whole document only in place of a shorter extract,
\* and throws away only what is short (extract.rs:345-365).
THEOREM NeverLoses == CascadeSpec => AuditNeverLoses
<1>1. CascadeTypeOK /\ [CascadeNext]_cascadeVars =>
          [stage = "audit" /\ chosen' # chosen =>
              /\ chosen'.from = "whole" => chosen'.len > chosen.len
              /\ chosen' = Nothing =>
                    100 * chosen.len < RatioPercent * MinFallbackChars
                    \/ 100 * chosen.len < LargeRatioPercent * MinFallbackChars]_cascadeVars
  BY LosesNothing
<1>2. QED
  BY <1>1, CascadeTypeCorrect, PTL DEF CascadeSpec, AuditNeverLoses

-----------------------------------------------------------------------------
(* Cascade: saturated extracts                                               *)

\* The strengthening: from the extraction to the audit, an unmarked extract
\* that fills the cap is the one chosen, with all its length.
SaturatedSoFar ==
    FillsCap(page) /\ Proposed(page).marks = 0 /\ ~CapBelowFloor(page)
    /\ stage # "extract" =>
        /\ method \in {"Markdown", "TextFallback"}
        /\ method = "Markdown" <=> HealthyMarkdown(page)
        /\ chosen.len = page.cap /\ chosen # Nothing

\* Restoring changes nothing where there is no marker.
LEMMA UnmarkedLength ==
    ASSUME NEW s \in Strings, s.marks = 0
    PROVE  RestoredLen(s) = s.len
BY DEF Strings, RestoredLen

\* One step keeps the strengthening.
LEMMA SaturatedNext ==
    CascadeTypeOK /\ SaturatedSoFar /\ [CascadeNext]_cascadeVars => SaturatedSoFar'
<1> SUFFICES ASSUME CascadeTypeOK, SaturatedSoFar, [CascadeNext]_cascadeVars,
                    FillsCap(page)', (Proposed(page).marks = 0)', ~CapBelowFloor(page)',
                    stage' # "extract"
             PROVE  /\ method' \in {"Markdown", "TextFallback"}
                    /\ method' = "Markdown" <=> HealthyMarkdown(page)'
                    /\ (chosen.len = page.cap /\ chosen # Nothing)'
  BY DEF SaturatedSoFar
<1>0. /\ page' = page /\ FillsCap(page) /\ Proposed(page).marks = 0 /\ ~CapBelowFloor(page)
      /\ HealthyMarkdown(page)' = HealthyMarkdown(page)
      /\ HealthyMarkdownFloor \in Nat /\ page.cap \in Nat \ {0} /\ WholeDocCheckFloor \in Nat
      /\ page.md \in Strings /\ page.text \in Strings
  <2>1. page' = page
    BY DEF CascadeNext, ExtractMarkdown, ExtractText, ExtractError, Trust, Pass,
           Rescue, GiveUp, Cap, cascadeVars
  <2>2. /\ FillsCap(page) /\ Proposed(page).marks = 0 /\ ~CapBelowFloor(page)
        /\ HealthyMarkdown(page)' = HealthyMarkdown(page)
    BY <2>1
  <2>3. QED
    BY <2>1, <2>2, PageType, CascadeAssumption DEF CascadeTypeOK
<1>1. CASE ExtractMarkdown
  <2>1. RestoredLen(page.md) = page.cap
    BY <1>0, <1>1, UnmarkedLength DEF ExtractMarkdown, FillsCap, Proposed
  <2>2. QED
    BY <1>0, <1>1, <2>1 DEF ExtractMarkdown, Nothing
<1>2. CASE ExtractText
  <2>1. RestoredLen(page.text) = page.cap /\ page.text.ink
    BY <1>0, <1>2, UnmarkedLength DEF ExtractText, FillsCap, Proposed
  <2>2. QED
    BY <1>0, <1>2, <2>1 DEF ExtractText, Nothing
<1>3. CASE ExtractError
  BY <1>0, <1>3 DEF ExtractError, FillsCap
<1>4. CASE Trust \/ Pass
  BY <1>0, <1>4 DEF Trust, Pass, SaturatedSoFar
<1>5. CASE Rescue \/ GiveUp
  <2>1. chosen.len = page.cap /\ (method = "Markdown" <=> HealthyMarkdown(page))
    BY <1>0, <1>5 DEF Rescue, GiveUp, SaturatedSoFar
  <2>2. ~Needed
    BY <1>0, <2>1 DEF Needed, AuditNeeded, InBand, CapBelowFloor
  <2>3. QED
    BY <1>5, <2>2 DEF Rescue, GiveUp
<1>6. CASE Cap
  BY <1>0, <1>6 DEF Cap, SaturatedSoFar
<1>7. CASE UNCHANGED cascadeVars
  BY <1>0, <1>7 DEF cascadeVars, SaturatedSoFar
<1>8. QED
  BY <1>1, <1>2, <1>3, <1>4, <1>5, <1>6, <1>7 DEF CascadeNext

\* An extract of a large page that filled a cap above the audit's floor, without
\* a marker in it, is served whatever the ratio (extract.rs:115-119).
THEOREM SaturatedIsKept == CascadeSpec => []SaturatedKept
<1>1. CascadeInit => SaturatedSoFar
  BY DEF CascadeInit, SaturatedSoFar
<1>2. SaturatedSoFar => SaturatedKept
  BY DEF SaturatedSoFar, SaturatedKept
<1>3. QED
  BY <1>1, <1>2, CascadeTypeCorrect, SaturatedNext, PTL DEF CascadeSpec
=============================================================================
