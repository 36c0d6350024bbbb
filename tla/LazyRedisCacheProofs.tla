------------------------ MODULE LazyRedisCacheProofs ------------------------
(***************************************************************************)
(* What holds of LazyRedisCache for any number of tasks, and any timeouts: *)
(* one task connects at a time, no sooner than the throttle allows, the    *)
(* lock is never idle while it is wanted, and calm weather heals.          *)
(***************************************************************************)
EXTENDS LazyRedisCache, FiniteSetTheorems, WellFoundedInduction, TLAPS

-----------------------------------------------------------------------------
(* The lock                                                                *)

\* At most one task connects, and there is no connection while it does.
LockInv ==
    /\ \A o, p \in Ops : pc[o] = "connecting" /\ pc[p] = "connecting" => o = p
    /\ \A o \in Ops : pc[o] = "connecting" => conn = NoConn

Typed ==
    /\ conn \in Conns \cup {NoConn}
    /\ sinceAttempt \in 0..Throttle
    /\ pc \in [Ops -> Pc]
    /\ handle \in [Ops -> Conns \cup {NoConn}]
    /\ ahead \in [Ops -> SUBSET Ops]
    /\ connectLeft \in 0..ConnectBudget
    /\ callerLeft \in [Ops -> 0..CallerBudget]
    /\ broken \subseteq Conns
    /\ redis \in {"up", "down", "silent"}
    /\ calm \in BOOLEAN

Inv == Typed /\ LockInv

\* One task is what the cardinality in TypeOK says.
LEMMA InvTypes == Inv => TypeOK
<1> SUFFICES ASSUME Inv PROVE TypeOK
  OBVIOUS
<1>1. Cardinality(Connecting) <= 1
  <2>1. CASE Connecting = {}
    BY <2>1, FS_EmptySet
  <2>2. CASE Connecting # {}
    <3>1. PICK o \in Ops : pc[o] = "connecting"
      BY <2>2 DEF Connecting
    <3>2. Connecting = {o}
      BY <3>1 DEF Connecting, Inv, LockInv
    <3>3. QED
      BY <3>2, FS_Singleton
  <2>3. QED
    BY <2>1, <2>2
<1>2. Connecting # {} => conn = NoConn
  BY DEF Connecting, Inv, LockInv
<1>3. QED
  BY <1>1, <1>2 DEF Inv, Typed, TypeOK

\* While a task connects there is a name for what it may get.
LEMMA FreshConn ==
    ASSUME Typed, conn = NoConn
    PROVE  \E c \in Conns : c \notin InUse
<1> DEFINE H == {handle[o] : o \in Ops}
<1>1. SUFFICES ASSUME Conns \subseteq InUse PROVE FALSE
  OBVIOUS
<1>2. Conns \subseteq H
  BY <1>1, CacheAssumption DEF InUse
<1>3. handle \in Surjection(Ops, H)
  BY DEF Typed, Surjection
<1>4. IsFiniteSet(H) /\ Cardinality(H) <= Cardinality(Ops)
  BY <1>3, CacheAssumption, FS_Surjection
<1>5. Cardinality(Conns) <= Cardinality(H)
  BY <1>2, <1>4, FS_Subset
<1>6. Cardinality(Conns) \in Nat /\ Cardinality(Ops) \in Nat /\ Cardinality(H) \in Nat
  BY <1>4, CacheAssumption, FS_CardinalityType
<1>7. QED
  BY <1>4, <1>5, <1>6, CacheAssumption

-----------------------------------------------------------------------------
(* Moves                                                                   *)

\* A task that goes anywhere but to connect.
LEMMA Moves ==
    ASSUME Inv, NEW o \in Ops, NEW where \in Pc \ {"connecting"},
           GoTo(o, where) \/ QueueFor(o, where)
    PROVE  /\ pc' \in [Ops -> Pc] /\ ahead' \in [Ops -> SUBSET Ops]
           /\ \A p \in Ops : pc'[p] = "connecting" => pc[p] = "connecting" /\ p # o
<1>1. pc' = [pc EXCEPT ![o] = where] /\ pc \in [Ops -> Pc]
  BY DEF GoTo, QueueFor, Inv, Typed
<1>2. ahead' \in [Ops -> SUBSET Ops]
  BY DEF GoTo, QueueFor, Inv, Typed, Queued
<1>3. QED
  BY <1>1, <1>2

\* And one whose operation is over.
LEMMA Returns ==
    ASSUME Inv, NEW o \in Ops, Return(o)
    PROVE  /\ pc' \in [Ops -> Pc] /\ ahead' \in [Ops -> SUBSET Ops]
           /\ \A p \in Ops : pc'[p] = "connecting" => pc[p] = "connecting" /\ p # o
           /\ handle' \in [Ops -> Conns \cup {NoConn}]
           /\ callerLeft' \in [Ops -> 0..CallerBudget]
<1>1. GoTo(o, "idle") /\ "idle" \in Pc \ {"connecting"}
  BY DEF Return, Pc
<1>2. handle' \in [Ops -> Conns \cup {NoConn}]
  BY DEF Return, Inv, Typed
<1>3. callerLeft' \in [Ops -> 0..CallerBudget]
  BY CacheAssumption DEF Return, Inv, Typed
<1>4. QED
  BY <1>1, <1>2, <1>3, Moves

\* Or that goes on with the connection there is.
LEMMA Uses ==
    ASSUME Inv, NEW o \in Ops, UseCurrent(o)
    PROVE  /\ pc' \in [Ops -> Pc] /\ ahead' \in [Ops -> SUBSET Ops]
           /\ \A p \in Ops : pc'[p] = "connecting" => pc[p] = "connecting" /\ p # o
           /\ handle' \in [Ops -> Conns \cup {NoConn}]
           /\ callerLeft' = callerLeft
<1>1. GoTo(o, "command") /\ "command" \in Pc \ {"connecting"}
  BY DEF UseCurrent, Pc
<1>2. handle' \in [Ops -> Conns \cup {NoConn}]
  BY DEF UseCurrent, Inv, Typed
<1>3. QED
  BY <1>1, <1>2, Moves DEF UseCurrent

\* The start.
LEMMA InvInit == Init => Inv
<1> SUFFICES ASSUME Init PROVE Inv
  OBVIOUS
<1>1. pc \in [Ops -> Pc] /\ ahead \in [Ops -> SUBSET Ops]
  BY DEF Init, Pc
<1>2. sinceAttempt \in 0..Throttle /\ connectLeft \in 0..ConnectBudget
      /\ callerLeft \in [Ops -> 0..CallerBudget]
  BY CacheAssumption DEF Init
<1>3. LockInv
  BY DEF Init, LockInv
<1>4. QED
  BY <1>1, <1>2, <1>3 DEF Init, Inv, Typed

-----------------------------------------------------------------------------
(* Invariance                                                              *)

LEMMA InvCall == ASSUME Inv, NEW o \in Ops, Call(o) PROVE Inv'
<1>1. callerLeft' \in [Ops -> 0..CallerBudget]
  BY CacheAssumption DEF Call, Inv, Typed
<1>2. "read" \in Pc \ {"connecting"}
  BY DEF Pc, AtLock
<1>3. QED
  BY <1>1, <1>2, Moves DEF Call, Inv, Typed, LockInv

\* Who has the lock goes on, gives up, or asks for it again.
LEMMA InvReadLocked == ASSUME Inv, NEW o \in Ops, ReadLocked(o) PROVE Inv'
<1>1. CASE UseCurrent(o)
  BY <1>1, Uses DEF ReadLocked, Inv, Typed, LockInv
<1>2. CASE Return(o)
  BY <1>2, Returns DEF ReadLocked, Inv, Typed, LockInv
<1>3. CASE QueueFor(o, "write") /\ UNCHANGED <<handle, callerLeft>>
  <2>1. "write" \in Pc \ {"connecting"}
    BY DEF Pc, AtLock
  <2>2. QED
    BY <1>3, <2>1, Moves DEF ReadLocked, Inv, Typed, LockInv
<1>4. QED
  BY <1>1, <1>2, <1>3 DEF ReadLocked

\* Nobody else connects when a task starts to.
LEMMA InvWriteLocked == ASSUME Inv, NEW o \in Ops, WriteLocked(o) PROVE Inv'
<1>1. CASE UseCurrent(o) /\ UNCHANGED <<sinceAttempt, connectLeft>>
  BY <1>1, Uses DEF WriteLocked, Inv, Typed, LockInv
<1>2. CASE Return(o) /\ UNCHANGED <<sinceAttempt, connectLeft>>
  BY <1>2, Returns DEF WriteLocked, Inv, Typed, LockInv
<1>3. CASE conn = NoConn /\ StartConnecting(o)
  <2>1. /\ pc' = [pc EXCEPT ![o] = "connecting"] /\ pc \in [Ops -> Pc]
        /\ \A p \in Ops : pc[p] # "connecting"
    BY <1>3 DEF StartConnecting, GoTo, WriteLocked, Granted, Connecting, Inv, Typed
  <2>2. ahead' \in [Ops -> SUBSET Ops] /\ pc' \in [Ops -> Pc]
    BY <1>3, <2>1 DEF StartConnecting, GoTo, Inv, Typed, Pc
  <2>3. sinceAttempt' \in 0..Throttle /\ connectLeft' \in 0..ConnectBudget
    BY <1>3, CacheAssumption DEF StartConnecting
  <2>4. LockInv'
    BY <1>3, <2>1 DEF LockInv, WriteLocked
  <2>5. QED
    BY <1>3, <2>2, <2>3, <2>4 DEF StartConnecting, WriteLocked, Inv, Typed
<1>4. QED
  BY <1>1, <1>2, <1>3 DEF WriteLocked

\* The attempt ends, the lock is released and its outcome is kept.
LEMMA InvConnect ==
    ASSUME Inv, NEW o \in Ops, ConnectOk(o) \/ ConnectFails(o)
    PROVE  Inv'
<1>1. conn = NoConn /\ \A p \in Ops : pc[p] = "connecting" => p = o
  BY DEF ConnectOk, ConnectFails, Inv, LockInv
<1>2. 0 \in 0..ConnectBudget
  BY CacheAssumption
<1>3. CASE ConnectOk(o)
  <2> DEFINE fresh == CHOOSE c \in Conns : c \notin InUse
  <2>1. fresh \in Conns
    BY <1>1, FreshConn DEF Inv
  <2>2. "command" \in Pc \ {"connecting"} /\ GoTo(o, "command")
    BY <1>3 DEF ConnectOk, Pc
  <2>3. conn' = fresh /\ handle' = [handle EXCEPT ![o] = fresh] /\ broken' = broken \ {fresh}
    BY <1>3 DEF ConnectOk
  <2> HIDE DEF fresh
  <2>4. handle' \in [Ops -> Conns \cup {NoConn}] /\ broken' \subseteq Conns
    BY <2>1, <2>3 DEF Inv, Typed
  <2>5. \A p \in Ops : pc'[p] # "connecting"
    BY <1>1, <2>2, Moves
  <2>6. LockInv'
    BY <2>5 DEF LockInv
  <2>7. Typed'
    BY <1>2, <1>3, <2>1, <2>2, <2>3, <2>4, Moves DEF ConnectOk, Inv, Typed
  <2>8. QED
    BY <2>6, <2>7 DEF Inv
<1>4. CASE ConnectFails(o)
  BY <1>2, <1>4, Returns DEF ConnectFails, Inv, Typed, LockInv
<1>5. QED
  BY <1>3, <1>4

\* A command or a departure starts no attempt.
LEMMA InvCommand ==
    ASSUME Inv, NEW o \in Ops,
           CommandOk(o) \/ CommandErr(o) \/ Invalidate(o) \/ Abandon(o)
    PROVE  Inv'
<1>1. 0 \in 0..ConnectBudget
  BY CacheAssumption
<1>2. CASE CommandOk(o)
  BY <1>2, Returns DEF CommandOk, Inv, Typed, LockInv
<1>3. CASE CommandErr(o)
  <2>1. "invalidate" \in Pc \ {"connecting"}
    BY DEF Pc, AtLock
  <2>2. QED
    BY <1>3, <2>1, Moves DEF CommandErr, Inv, Typed, LockInv
<1>4. CASE Invalidate(o)
  BY <1>4, Returns DEF Invalidate, Inv, Typed, LockInv
<1>5. CASE Abandon(o)
  BY <1>1, <1>5, Returns DEF Abandon, Inv, Typed, LockInv
<1>6. QED
  BY <1>2, <1>3, <1>4, <1>5

\* Redis, and time.
LEMMA InvWorld ==
    ASSUME Inv, RedisChanges \/ (\E c \in Conns : Heal(c)) \/ CalmDown \/ Tick
    PROVE  Inv'
<1>1. UNCHANGED <<pc, conn, handle, ahead>>
  BY DEF RedisChanges, Heal, CalmDown, Tick
<1>2. LockInv'
  BY <1>1 DEF Inv, LockInv
<1>3. CASE RedisChanges
  <2>1. broken' \subseteq Conns
    BY <1>3 DEF RedisChanges, InUse, Inv, Typed
  <2>2. QED
    BY <1>1, <1>2, <1>3, <2>1 DEF RedisChanges, Inv, Typed
<1>4. CASE (\E c \in Conns : Heal(c)) \/ CalmDown
  BY <1>1, <1>2, <1>4 DEF Heal, CalmDown, Inv, Typed
<1>5. CASE Tick
  <2>1. sinceAttempt' \in 0..Throttle
    BY <1>5, CacheAssumption DEF Tick, Throttled, Inv, Typed
  <2>2. connectLeft' \in 0..ConnectBudget
    BY <1>5, CacheAssumption DEF Tick, Less, Inv, Typed
  <2>3. callerLeft' \in [Ops -> 0..CallerBudget]
    BY <1>5, CacheAssumption DEF Tick, Less, Inv, Typed
  <2>4. QED
    BY <1>1, <1>2, <1>5, <2>1, <2>2, <2>3 DEF Tick, Inv, Typed
<1>6. QED
  BY <1>3, <1>4, <1>5

\* Each step keeps the types and the lock.
LEMMA InvNext == Inv /\ [Next]_vars => Inv'
<1> SUFFICES ASSUME Inv, [Next]_vars PROVE Inv'
  OBVIOUS
<1>1. CASE UNCHANGED vars
  BY <1>1 DEF vars, Inv, Typed, LockInv
<1>2. QED
  BY <1>1, InvCall, InvReadLocked, InvWriteLocked, InvConnect, InvCommand, InvWorld
  DEF Next

\* The invariant holds for ever.
LEMMA Invariance == Spec => []Inv
BY InvInit, InvNext, PTL DEF Spec

-----------------------------------------------------------------------------
(* Theorems                                                                *)

\* However many tasks find the cache disconnected, one of them connects.
THEOREM OneConnects == Spec => []TypeOK
BY Invariance, InvTypes, PTL

\* A task that did not connect and does now found the throttle over.
LEMMA StartsUnthrottled ==
    ASSUME Inv, [Next]_vars, NEW o \in Ops, pc[o] # "connecting", pc'[o] = "connecting"
    PROVE  sinceAttempt = Throttle
<1>1. pc \in [Ops -> Pc] /\ sinceAttempt \in 0..Throttle
  BY DEF Inv, Typed
<1>2. PICK p \in Ops : WriteLocked(p) /\ StartConnecting(p) /\ ~Throttled
  <2>1. pc' # pc
    OBVIOUS
  <2>2. PICK p \in Ops : \/ Call(p) \/ ReadLocked(p) \/ WriteLocked(p) \/ ConnectOk(p)
                         \/ ConnectFails(p) \/ CommandOk(p) \/ CommandErr(p)
                         \/ Invalidate(p) \/ Abandon(p)
    BY <2>1 DEF Next, RedisChanges, Heal, CalmDown, Tick, vars
  <2>3. ASSUME NEW where \in {"read", "write", "invalidate", "command", "idle"},
               GoTo(p, where) \/ QueueFor(p, where)
        PROVE  FALSE
    BY <1>1, <2>3 DEF GoTo, QueueFor
  <2>4. ~Return(p) /\ ~UseCurrent(p)
    BY <2>3 DEF Return, UseCurrent
  <2>5. QED
    BY <2>2, <2>3, <2>4 DEF Call, ReadLocked, WriteLocked, ConnectOk, ConnectFails,
       CommandOk, CommandErr, Invalidate, Abandon
<1>3. QED
  BY <1>1, <1>2, CacheAssumption DEF Throttled

\* Connection attempts are at least RECONNECT_MIN_INTERVAL apart.
THEOREM AttemptsApart == Spec => AttemptsThrottled
<1>1. Inv /\ [Next]_vars =>
         [\A o \in Ops : pc[o] # "connecting" /\ pc'[o] = "connecting" =>
             sinceAttempt = Throttle]_vars
  BY StartsUnthrottled
<1>2. QED
  BY <1>1, Invariance, PTL DEF Spec, AttemptsThrottled

-----------------------------------------------------------------------------
(* The queue of the lock                                                   *)

\* Who waits behind whom: a total order of those who wait.
QueueInv ==
    /\ \A o \in Ops : \A p \in ahead[o] : o \in Queued /\ p \in Queued /\ p # o
    /\ \A o, p \in Queued : o # p => (p \in ahead[o] <=> o \notin ahead[p])
    /\ \A o \in Queued : \A p \in ahead[o] : \A q \in ahead[p] : q \in ahead[o]

\* Leaving the queue moves up those behind.
LEMMA QueueLeft ==
    ASSUME Typed, QueueInv, NEW o \in Ops, NEW where \in Pc \ AtLock, GoTo(o, where)
    PROVE  QueueInv' /\ Queued' = Queued \ {o}
<1>1. /\ \A q \in Ops : pc'[q] = IF q = o THEN where ELSE pc[q]
      /\ \A q \in Ops : \A p : p \in ahead'[q] <=> q # o /\ p # o /\ p \in ahead[q]
      /\ \A q : (q \in Queued => q \in Ops) /\ (q \in Queued' => q \in Ops)
  BY DEF GoTo, Typed, Queued
<1>2. \A m : m \in Queued' <=> m \in Queued /\ m # o
  BY <1>1 DEF Queued
<1>3. ASSUME NEW q \in Ops, NEW p \in ahead'[q]
      PROVE  q \in Queued' /\ p \in Queued' /\ p # q
  BY <1>1, <1>2, <1>3 DEF QueueInv
<1>4. ASSUME NEW q \in Queued', NEW p \in Queued', q # p
      PROVE  p \in ahead'[q] <=> q \notin ahead'[p]
  BY <1>1, <1>2, <1>4 DEF QueueInv
<1>5. ASSUME NEW q \in Queued', NEW p \in ahead'[q], NEW r \in ahead'[p]
      PROVE  r \in ahead'[q]
  BY <1>1, <1>2, <1>3, <1>5 DEF QueueInv
<1>6. QED
  BY <1>2, <1>3, <1>4, <1>5 DEF QueueInv

\* Joining it, or rejoining, is at its end.
LEMMA QueueJoined ==
    ASSUME Typed, QueueInv, NEW o \in Ops, NEW what \in AtLock, QueueFor(o, what)
    PROVE  QueueInv' /\ Queued' = Queued \cup {o}
<1>1. /\ \A q \in Ops : pc'[q] = IF q = o THEN what ELSE pc[q]
      /\ \A q \in Ops : \A p :
            p \in ahead'[q] <=> p # o /\ (IF q = o THEN p \in Queued ELSE p \in ahead[q])
      /\ \A q : (q \in Queued => q \in Ops) /\ (q \in Queued' => q \in Ops)
  BY DEF QueueFor, Typed, Queued
<1>2. \A m : m \in Queued' <=> m \in Queued \/ m = o
  BY <1>1 DEF Queued
<1>3. ASSUME NEW q \in Ops, NEW p \in ahead'[q]
      PROVE  q \in Queued' /\ p \in Queued' /\ p # q
  BY <1>1, <1>2, <1>3 DEF QueueInv
<1>4. ASSUME NEW q \in Queued', NEW p \in Queued', q # p
      PROVE  p \in ahead'[q] <=> q \notin ahead'[p]
  BY <1>1, <1>2, <1>4 DEF QueueInv
<1>5. ASSUME NEW q \in Queued', NEW p \in ahead'[q], NEW r \in ahead'[p]
      PROVE  r \in ahead'[q]
  BY <1>1, <1>2, <1>3, <1>5 DEF QueueInv
<1>6. QED
  BY <1>2, <1>3, <1>4, <1>5 DEF QueueInv

\* What each step is to the queue: somebody leaves it, joins it, or nothing.
LEMMA QueueSteps ==
    ASSUME Inv, [Next]_vars
    PROVE  \/ UNCHANGED <<pc, ahead>>
           \/ \E o \in Ops : \E where \in Pc \ AtLock : GoTo(o, where)
           \/ \E o \in Ops : \E what \in AtLock : QueueFor(o, what)
<1>1. {"idle", "connecting", "command"} \subseteq Pc \ AtLock
  BY DEF Pc, AtLock
<1>2. {"read", "write", "invalidate"} = AtLock
  BY DEF AtLock
<1>3. ASSUME NEW o \in Ops, Call(o) \/ CommandErr(o)
      PROVE  \E what \in AtLock : QueueFor(o, what)
  BY <1>2, <1>3 DEF Call, CommandErr
<1>4. ASSUME NEW o \in Ops, Return(o) \/ UseCurrent(o) \/ StartConnecting(o)
      PROVE  \E where \in Pc \ AtLock : GoTo(o, where)
  BY <1>1, <1>4 DEF Return, UseCurrent, StartConnecting
<1>5. ASSUME NEW o \in Ops, ReadLocked(o) \/ WriteLocked(o)
      PROVE  \/ \E where \in Pc \ AtLock : GoTo(o, where)
             \/ \E what \in AtLock : QueueFor(o, what)
  BY <1>2, <1>4, <1>5 DEF ReadLocked, WriteLocked
<1>6. ASSUME NEW o \in Ops,
             ConnectOk(o) \/ ConnectFails(o) \/ CommandOk(o) \/ Invalidate(o) \/ Abandon(o)
      PROVE  \E where \in Pc \ AtLock : GoTo(o, where)
  BY <1>1, <1>4, <1>6 DEF ConnectOk, ConnectFails, CommandOk, Invalidate, Abandon
<1>7. CASE RedisChanges \/ (\E c \in Conns : Heal(c)) \/ CalmDown \/ Tick \/ UNCHANGED vars
  BY <1>7 DEF RedisChanges, Heal, CalmDown, Tick, vars
<1>8. QED
  BY <1>3, <1>5, <1>6, <1>7 DEF Next

\* Each step keeps the order.
LEMMA QueueNext == Inv /\ QueueInv /\ [Next]_vars => QueueInv'
<1> SUFFICES ASSUME Inv, QueueInv, [Next]_vars PROVE QueueInv'
  OBVIOUS
<1>1. Typed
  BY DEF Inv
<1>2. CASE UNCHANGED <<pc, ahead>>
  BY <1>2 DEF QueueInv, Queued
<1>3. QED
  BY <1>1, <1>2, QueueSteps, QueueLeft, QueueJoined

\* Nobody waits at first.
LEMMA QueueInit == Init => QueueInv
BY DEF Init, QueueInv, Queued, AtLock

\* Any set of numbers has a least one.
LEMMA LeastOne ==
    ASSUME NEW T \in SUBSET Nat, T # {}
    PROVE  \E n \in T : \A m \in T : n <= m
<1> DEFINE R == OpToRel(<, Nat)
<1>1. IsWellFoundedOn(R, Nat)
  BY NatLessThanWellFounded
<1>2. \A x, y \in Nat : x < y => <<x, y>> \in R
  BY DEF OpToRel
<1> HIDE DEF R
<1>3. T \subseteq Nat
  OBVIOUS
<1>4. PICK n \in T : \A m \in T : ~(<<m, n>> \in R)
  BY <1>1, <1>3, WFMin
<1>5. ASSUME NEW m \in T PROVE n <= m
  <2>1. m \in Nat /\ n \in Nat /\ ~(m < n)
    BY <1>2, <1>3, <1>4
  <2>2. QED
    BY <2>1
<1>6. QED
  BY <1>5

\* Somebody is first.
LEMMA SomebodyFirst ==
    ASSUME QueueInv, Queued # {}
    PROVE  \E o \in Queued : ahead[o] = {}
<1> DEFINE T == {Cardinality(ahead[o]) : o \in Queued}
<1>1. \A o \in Queued : IsFiniteSet(ahead[o]) /\ Cardinality(ahead[o]) \in Nat
  <2>1. ASSUME NEW o \in Queued PROVE IsFiniteSet(ahead[o]) /\ Cardinality(ahead[o]) \in Nat
    <3>1. ahead[o] \subseteq Ops
      BY DEF QueueInv, Queued
    <3>2. QED
      BY <3>1, CacheAssumption, FS_Subset, FS_CardinalityType
  <2>2. QED
    BY <2>1
<1>2. T \in SUBSET Nat /\ T # {}
  BY <1>1
<1>3. PICK n \in T : \A m \in T : n <= m
  <2> HIDE DEF T
  <2>1. QED
    BY <1>2, LeastOne
<1>4. PICK o \in Queued : \A p \in Queued : Cardinality(ahead[o]) <= Cardinality(ahead[p])
  BY <1>3
<1>5. ASSUME NEW p \in ahead[o] PROVE FALSE
  <2>1. p \in Queued /\ p # o /\ ahead[p] \subseteq ahead[o] /\ p \notin ahead[p]
    BY <1>5 DEF QueueInv, Queued
  <2>2. ahead[p] \subseteq ahead[o] \ {p}
    BY <2>1
  <2>3. Cardinality(ahead[o] \ {p}) = Cardinality(ahead[o]) - 1 /\ IsFiniteSet(ahead[o] \ {p})
    BY <1>1, <1>5, FS_RemoveElement
  <2>4. Cardinality(ahead[p]) <= Cardinality(ahead[o] \ {p})
    BY <2>2, <2>3, FS_Subset
  <2>5. QED
    BY <1>1, <1>4, <2>1, <2>3, <2>4
<1>6. QED
  BY <1>5

\* What LockMakesProgress rests on, whoever comes, leaves or is dropped
\* (redis.rs:10-15, 163-184): when tasks wait on the lock, one connects under
\* it or one of them may have it now; and who connects is let go by an answer
\* of Redis or by CONNECT_TIMEOUT, since a silent Redis is never calm.
LockNeverWedged ==
    /\ Queued # {} => Connecting # {} \/ \E o \in Queued : Granted(o)
    /\ Connecting # {} => redis # "silent" \/ ~calm

\* The lock is never idle while somebody waits for it, for any number of
\* tasks.
THEOREM LockNeverIdle == Spec => []LockNeverWedged
<1> DEFINE CalmUp == calm => redis = "up"
<1>1. Init => CalmUp
  BY DEF Init
<1>2. CalmUp /\ [Next]_vars => CalmUp'
  BY DEF Next, vars, Call, ReadLocked, WriteLocked, ConnectOk, ConnectFails, CommandOk,
     CommandErr, Invalidate, Abandon, RedisChanges, Heal, CalmDown, Tick
<1>3. Inv /\ QueueInv /\ CalmUp => LockNeverWedged
  <2> SUFFICES ASSUME Inv, QueueInv, CalmUp PROVE LockNeverWedged
    OBVIOUS
  <2>1. Queued # {} => Connecting # {} \/ \E o \in Queued : Granted(o)
    BY SomebodyFirst DEF Granted
  <2>2. QED
    BY <2>1 DEF LockNeverWedged, Inv, Typed
<1>4. QED
  BY <1>1, <1>2, <1>3, Invariance, QueueInit, QueueNext, PTL DEF Spec

\* The lock is served first come, first served: nobody who waits is overtaken
\* by one who comes later, nobody leaves the queue but the first or one whose
\* caller is gone, and nothing prolongs the attempt made under the lock
\* (redis.rs:163-184).
ServedInOrder ==
    /\ \A o \in Ops : pc[o] \in AtLock /\ pc'[o] = pc[o] => ahead'[o] \subseteq ahead[o]
    /\ \A o \in Ops :
          pc[o] \in AtLock /\ pc'[o] # pc[o] =>
              Granted(o) \/ (o \in Deadlined /\ ~calm /\ pc'[o] = "idle")
    /\ \A o \in Ops :
          pc[o] = "connecting" /\ pc'[o] = "connecting" => connectLeft' <= connectLeft

\* Who moves, and who does not.
LEMMA OneMoves ==
    ASSUME Inv, QueueInv, NEW o \in Ops, NEW p \in Pc, GoTo(o, p) \/ QueueFor(o, p),
           pc[o] \in AtLock =>
              p # pc[o] /\ (Granted(o) \/ (o \in Deadlined /\ ~calm /\ p = "idle")),
           pc[o] # "connecting" /\ p # "connecting" => connectLeft' = connectLeft,
           pc[o] # "connecting" /\ p = "connecting" => Connecting = {},
           pc[o] = "connecting" => p # "connecting"
    PROVE  ServedInOrder
<1>1. /\ \A q \in Ops : pc'[q] = IF q = o THEN p ELSE pc[q]
      /\ \A q \in Ops : q # o => ahead'[q] = ahead[q] \ {o}
  BY DEF GoTo, QueueFor, Inv, Typed
<1>2. ASSUME NEW q \in Ops, pc[q] \in AtLock, pc'[q] = pc[q]
      PROVE  ahead'[q] \subseteq ahead[q]
  BY <1>1, <1>2
<1>3. ASSUME NEW q \in Ops, pc[q] \in AtLock, pc'[q] # pc[q]
      PROVE  Granted(q) \/ (q \in Deadlined /\ ~calm /\ pc'[q] = "idle")
  BY <1>1, <1>3
<1>4. ASSUME NEW q \in Ops, pc[q] = "connecting", pc'[q] = "connecting"
      PROVE  connectLeft' <= connectLeft
  <2>1. q # o /\ pc[o] # "connecting" /\ p # "connecting"
    BY <1>1, <1>4 DEF Inv, LockInv, Connecting
  <2>2. QED
    BY <2>1 DEF Inv, Typed
<1>5. QED
  BY <1>2, <1>3, <1>4 DEF ServedInOrder

\* No step lets anybody jump the queue, or gives a connection attempt more
\* time.
THEOREM LockServedInOrder == Spec => [][ServedInOrder]_vars
<1>1. ASSUME Inv, QueueInv, Next PROVE ServedInOrder
  <2>1. Typed
    BY <1>1 DEF Inv
  <2>2. AtLock = {"read", "write", "invalidate"}
        /\ {"read", "write", "invalidate", "idle", "connecting", "command"} \subseteq Pc
    BY DEF AtLock, Pc
  <2>3. ASSUME NEW o \in Ops,
               Call(o) \/ CommandErr(o) \/ CommandOk(o)
        PROVE  ServedInOrder
    <3>1. PICK p \in {"read", "invalidate", "idle"} : GoTo(o, p) \/ QueueFor(o, p)
      BY <2>3 DEF Call, CommandErr, CommandOk, Return
    <3>2. pc[o] \in {"idle", "command"} /\ connectLeft' = connectLeft /\ p \in Pc
      BY <2>2, <2>3 DEF Call, CommandErr, CommandOk
    <3>3. QED
      BY <1>1, <2>2, <3>1, <3>2, OneMoves
  <2>4. ASSUME NEW o \in Ops, ReadLocked(o) \/ Invalidate(o)
        PROVE  ServedInOrder
    <3>1. PICK p \in {"write", "command", "idle"} : GoTo(o, p) \/ QueueFor(o, p)
      BY <2>4 DEF ReadLocked, Invalidate, UseCurrent, Return
    <3>2. /\ pc[o] \in {"read", "invalidate"} /\ connectLeft' = connectLeft
          /\ Granted(o) /\ p \in Pc
      BY <2>2, <2>4 DEF ReadLocked, Invalidate
    <3>3. QED
      BY <1>1, <2>2, <3>1, <3>2, OneMoves
  <2>5. ASSUME NEW o \in Ops, WriteLocked(o)
        PROVE  ServedInOrder
    <3>1. PICK p \in {"connecting", "command", "idle"} :
             GoTo(o, p) /\ (p # "connecting" => connectLeft' = connectLeft)
      BY <2>5 DEF WriteLocked, UseCurrent, StartConnecting, Return
    <3>2. pc[o] = "write" /\ Granted(o) /\ Connecting = {} /\ p \in Pc
      BY <2>2, <2>5 DEF WriteLocked, Granted
    <3>3. QED
      BY <1>1, <2>2, <3>1, <3>2, OneMoves
  <2>6. ASSUME NEW o \in Ops, ConnectOk(o) \/ ConnectFails(o)
        PROVE  ServedInOrder
    <3>1. PICK p \in {"command", "idle"} : GoTo(o, p)
      BY <2>6 DEF ConnectOk, ConnectFails, Return
    <3>2. pc[o] = "connecting" /\ p \in Pc
      BY <2>2, <2>6 DEF ConnectOk, ConnectFails
    <3>3. QED
      BY <1>1, <2>2, <3>1, <3>2, OneMoves
  <2>7. ASSUME NEW o \in Ops, Abandon(o)
        PROVE  ServedInOrder
    <3>1. GoTo(o, "idle") /\ o \in Deadlined /\ ~calm /\ "idle" \in Pc
          /\ (pc[o] # "connecting" => connectLeft' = connectLeft)
      BY <2>2, <2>7 DEF Abandon, Return
    <3>2. QED
      BY <1>1, <2>2, <3>1, OneMoves
  <2>8. CASE RedisChanges \/ (\E c \in Conns : Heal(c)) \/ CalmDown \/ Tick
    <3>1. UNCHANGED <<pc, ahead>> /\ connectLeft' \in {connectLeft, Less(connectLeft)}
      BY <2>8 DEF RedisChanges, Heal, CalmDown, Tick
    <3>2. connectLeft \in Nat /\ connectLeft' <= connectLeft
      BY <2>1, <3>1, CacheAssumption DEF Typed, Less
    <3>3. QED
      BY <3>1, <3>2 DEF ServedInOrder
  <2>9. QED
    BY <1>1, <2>3, <2>4, <2>5, <2>6, <2>7, <2>8 DEF Next
<1>2. Inv /\ QueueInv /\ [Next]_vars => [ServedInOrder]_vars
  BY <1>1
<1>3. QED
  BY <1>2, Invariance, QueueInit, QueueNext, PTL DEF Spec

-----------------------------------------------------------------------------
(* What CachingResumes rests on                                            *)

\* Operations that will throw the connection away: a command of theirs failed,
\* or is about to.
Threats ==
    {o \in Ops : pc[o] = "invalidate" \/ (pc[o] = "command" /\ handle[o] \in broken)}

\* In calm weather a connection that works is thrown away at most once by each
\* operation that failed on an older one: such operations only get fewer, the
\* one that throws the connection away is no longer among them, and what is
\* there stays good (redis.rs:117-119, 204-209).
CalmHeals ==
    calm /\ conn \notin broken =>
        /\ calm' /\ conn' \notin broken'
        /\ Threats' \subseteq Threats
        /\ conn # NoConn /\ conn' # conn =>
              \E o \in Threats \ Threats' : pc[o] = "invalidate"

\* A task that goes its way without breaking anything.
LEMMA HealsMove ==
    ASSUME Inv, calm, conn \notin broken, NEW o \in Ops, NEW p \in Pc,
           GoTo(o, p) \/ QueueFor(o, p),
           p = "invalidate" => o \in Threats,
           p = "command" => handle'[o] \notin broken',
           \A q \in Ops : q # o => handle'[q] = handle[q],
           broken' \subseteq broken, calm' = calm
    PROVE  /\ Threats' \subseteq Threats
           /\ p \notin {"command", "invalidate"} => o \notin Threats'
<1>1. \A q \in Ops : pc'[q] = IF q = o THEN p ELSE pc[q]
  BY DEF GoTo, QueueFor, Inv, Typed
<1>2. QED
  BY <1>1 DEF Threats

\* However many tasks worked with dead connections when Redis came back, they
\* cannot keep throwing the new one away.
THEOREM CalmWeatherHeals == Spec => [][CalmHeals]_vars
<1>1. ASSUME Inv, Next, calm, conn \notin broken
      PROVE  /\ calm' /\ conn' \notin broken'
             /\ Threats' \subseteq Threats
             /\ conn # NoConn /\ conn' # conn =>
                   \E o \in Threats \ Threats' : pc[o] = "invalidate"
  <2>1. Typed /\ NoConn \notin broken
    BY <1>1, CacheAssumption DEF Inv, Typed
  <2>2. {"read", "write", "invalidate", "idle", "connecting", "command"} \subseteq Pc
    BY DEF AtLock, Pc
  <2>3. ASSUME NEW o \in Ops, Call(o) \/ CommandErr(o) \/ CommandOk(o)
        PROVE  calm' /\ conn' = conn /\ broken' = broken /\ Threats' \subseteq Threats
    <3>1. PICK p \in {"read", "invalidate", "idle"} :
             (GoTo(o, p) \/ QueueFor(o, p)) /\ (p = "invalidate" => CommandErr(o))
      BY <2>3 DEF Call, CommandErr, CommandOk, Return
    <3>2. p = "invalidate" => o \in Threats
      BY <3>1 DEF CommandErr, Threats
    <3>3. \A q \in Ops : q # o => handle'[q] = handle[q]
      BY <2>1, <2>3 DEF Call, CommandErr, CommandOk, Return, Typed
    <3>4. calm' = calm /\ conn' = conn /\ broken' = broken /\ p \in Pc
      BY <2>2, <2>3 DEF Call, CommandErr, CommandOk
    <3>5. QED
      BY <1>1, <3>1, <3>2, <3>3, <3>4, HealsMove
  <2>4. ASSUME NEW o \in Ops, ReadLocked(o) \/ WriteLocked(o)
        PROVE  calm' /\ conn' = conn /\ broken' = broken /\ Threats' \subseteq Threats
    <3>1. PICK p \in {"write", "command", "idle", "connecting"} :
             (GoTo(o, p) \/ QueueFor(o, p)) /\ (p = "command" => UseCurrent(o))
      BY <2>4 DEF ReadLocked, WriteLocked, UseCurrent, StartConnecting, Return
    <3>2. calm' = calm /\ conn' = conn /\ broken' = broken /\ p \in Pc
      BY <2>2, <2>4 DEF ReadLocked, WriteLocked
    <3>3. \A q \in Ops : q # o => handle'[q] = handle[q]
      BY <2>1, <2>4
      DEF ReadLocked, WriteLocked, UseCurrent, StartConnecting, Return, Typed
    <3>4. p = "command" => handle'[o] \notin broken'
      BY <1>1, <2>1, <3>1, <3>2 DEF UseCurrent, Typed
    <3>5. QED
      BY <1>1, <3>1, <3>2, <3>3, <3>4, HealsMove
  <2>5. ASSUME NEW o \in Ops, ConnectFails(o)
        PROVE  calm' /\ conn' = conn /\ broken' = broken /\ Threats' \subseteq Threats
    <3>1. GoTo(o, "idle") /\ calm' = calm /\ conn' = conn /\ broken' = broken
          /\ "idle" \in Pc /\ \A q \in Ops : q # o => handle'[q] = handle[q]
      BY <2>1, <2>2, <2>5 DEF ConnectFails, Return, Typed
    <3>2. QED
      BY <1>1, <3>1, HealsMove
  <2>6. ASSUME NEW o \in Ops, ConnectOk(o)
        PROVE  calm' /\ conn = NoConn /\ conn' \notin broken' /\ Threats' \subseteq Threats
    <3> DEFINE fresh == CHOOSE c \in Conns : c \notin InUse
    <3>1. conn' = fresh /\ handle' = [handle EXCEPT ![o] = fresh] /\ broken' = broken \ {fresh}
          /\ GoTo(o, "command") /\ calm' = calm /\ pc[o] = "connecting" /\ "command" \in Pc
      BY <2>2, <2>6 DEF ConnectOk
    <3> HIDE DEF fresh
    <3>2. handle'[o] \notin broken' /\ \A q \in Ops : q # o => handle'[q] = handle[q]
      BY <2>1, <3>1 DEF Typed
    <3>3. Threats' \subseteq Threats
      BY <1>1, <3>1, <3>2, HealsMove
    <3>4. QED
      BY <1>1, <3>1, <3>3 DEF Inv, LockInv
  <2>7. ASSUME NEW o \in Ops, Invalidate(o)
        PROVE  /\ calm' /\ conn' \notin broken' /\ Threats' \subseteq Threats
               /\ o \in Threats \ Threats' /\ pc[o] = "invalidate"
    <3>1. GoTo(o, "idle") /\ calm' = calm /\ conn' = NoConn /\ broken' = broken
          /\ "idle" \in Pc /\ pc[o] = "invalidate"
          /\ \A q \in Ops : q # o => handle'[q] = handle[q]
      BY <2>1, <2>2, <2>7 DEF Invalidate, Return, Typed
    <3>2. Threats' \subseteq Threats /\ o \notin Threats'
      BY <1>1, <3>1, HealsMove
    <3>3. o \in Threats
      BY <3>1 DEF Threats
    <3>4. QED
      BY <1>1, <2>1, <3>1, <3>2, <3>3
  <2>8. ASSUME (\E c \in Conns : Heal(c)) \/ Tick
        PROVE  calm' /\ conn' = conn /\ broken' \subseteq broken /\ Threats' \subseteq Threats
    <3>1. UNCHANGED <<pc, handle, conn, calm>> /\ broken' \subseteq broken
      BY <2>8 DEF Heal, Tick
    <3>2. QED
      BY <1>1, <3>1 DEF Threats
  <2>9. (\A o \in Ops : ~Abandon(o)) /\ ~RedisChanges /\ ~CalmDown
    BY <1>1 DEF Abandon, RedisChanges, CalmDown
  <2>10. QED
    BY <1>1, <2>3, <2>4, <2>5, <2>6, <2>7, <2>8, <2>9 DEF Next
<1>2. Inv /\ [Next]_vars => [CalmHeals]_vars
  BY <1>1 DEF CalmHeals
<1>3. QED
  BY <1>2, Invariance, PTL DEF Spec
=============================================================================
