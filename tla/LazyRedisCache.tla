-------------------------- MODULE LazyRedisCache --------------------------
(***************************************************************************)
(* LazyRedisCache (src/src/cache/redis.rs): one shared connection behind a *)
(* tokio RwLock, connected on first use, throttled, and dropped by any     *)
(* operation that fails on its own clone of it.                            *)
(*                                                                         *)
(* get and set take the same steps (ensure_conn, one command, invalidate   *)
(* on error), so an operation here is either.  The read-locked section has *)
(* no await in it: it is one step, and the RwLock, which tokio serves in   *)
(* FIFO order, is a lock that only a connecting operation holds for long.  *)
(***************************************************************************)
EXTENDS Naturals, FiniteSets

CONSTANTS
    Ops,            \* the tasks that use the cache
    Deadlined,      \* those whose future a TimeoutLayer or a client may drop
    Conns,          \* names for connections, reused when no task has one
    NoConn,         \* None
    CallerBudget,   \* search.default_timeout_ms, in ticks
    ConnectBudget,  \* CONNECT_TIMEOUT, in ticks
    Throttle        \* RECONNECT_MIN_INTERVAL, in ticks

ASSUME CacheAssumption ==
    /\ IsFiniteSet(Ops) /\ Deadlined \subseteq Ops
    /\ IsFiniteSet(Conns) /\ Cardinality(Conns) > Cardinality(Ops)
    /\ NoConn \notin Conns
    /\ CallerBudget \in Nat \ {0}
    /\ ConnectBudget \in Nat \ {0}
    /\ Throttle \in Nat \ {0}

VARIABLES
    conn,          \* state.conn
    sinceAttempt,  \* ticks since state.last_attempt, Throttle if at least that
    pc,            \* where each task stands in get or set
    handle,        \* the clone of the connection a task works with
    ahead,         \* who was queued on the lock before each task
    connectLeft,   \* ticks left of the connection attempt under way
    callerLeft,    \* ticks left of the caller's own deadline
    broken,        \* connections on which a command now fails
    redis,         \* the server: up, down (refuses), silent (never answers)
    calm           \* from now on Redis answers and callers wait for it

vars == <<conn, sinceAttempt, pc, handle, ahead, connectLeft, callerLeft,
          broken, redis, calm>>

-----------------------------------------------------------------------------
AtLock == {"read", "write", "invalidate"}   \* queued on the RwLock
Pc == AtLock \cup {"idle", "connecting", "command"}

Queued == {o \in Ops : pc[o] \in AtLock}
Connecting == {o \in Ops : pc[o] = "connecting"}
InUse == {conn} \cup {handle[o] : o \in Ops}

\* The lock is granted: nobody connects under it, nobody was there before.
Granted(o) == Connecting = {} /\ ahead[o] = {}

Throttled == sinceAttempt < Throttle

CallerDue(o) == o \in Deadlined /\ pc[o] # "idle" /\ callerLeft[o] = 0

-----------------------------------------------------------------------------
(* Moves of a task on the lock and out of the operation                    *)

\* Leave the lock's queue for a place outside it.
GoTo(o, where) ==
    /\ pc' = [pc EXCEPT ![o] = where]
    /\ ahead' = [q \in Ops |-> IF q = o THEN {} ELSE ahead[q] \ {o}]

\* Join (or rejoin) the lock's queue behind everybody there.
QueueFor(o, what) ==
    /\ pc' = [pc EXCEPT ![o] = what]
    /\ ahead' = [q \in Ops |-> IF q = o THEN Queued \ {o} ELSE ahead[q] \ {o}]

\* The operation is over: its clone of the connection is dropped.
Return(o) ==
    /\ GoTo(o, "idle")
    /\ handle' = [handle EXCEPT ![o] = NoConn]
    /\ callerLeft' = [callerLeft EXCEPT ![o] = 0]

UseCurrent(o) ==
    /\ GoTo(o, "command")
    /\ handle' = [handle EXCEPT ![o] = conn]
    /\ UNCHANGED callerLeft

-----------------------------------------------------------------------------
(* ensure_conn                                                             *)

\* get or set is called; what is left of the caller's budget is arbitrary.
Call(o) ==
    /\ pc[o] = "idle"
    /\ QueueFor(o, "read")
    /\ IF o \in Deadlined
       THEN \E b \in 1..CallerBudget : callerLeft' = [callerLeft EXCEPT ![o] = b]
       ELSE UNCHANGED callerLeft
    /\ UNCHANGED <<conn, sinceAttempt, handle, connectLeft, broken, redis, calm>>

\* Bug: being refused counts as an attempt.
Bug_RefusalRestartsThrottle(o) ==
    /\ pc[o] = "read"
    /\ Granted(o)
    /\ CASE conn # NoConn -> UseCurrent(o) /\ UNCHANGED sinceAttempt
         [] conn = NoConn /\ Throttled -> Return(o) /\ sinceAttempt' = 0
         [] conn = NoConn /\ ~Throttled ->
              QueueFor(o, "write") /\ UNCHANGED <<handle, callerLeft, sinceAttempt>>
    /\ UNCHANGED <<conn, connectLeft, broken, redis, calm>>

\* Under the read lock: a connection, or a refusal to try so soon, or on to
\* the write lock.
ReadLocked(o) ==
    /\ pc[o] = "read"
    /\ Granted(o)
    /\ CASE conn # NoConn -> UseCurrent(o)
         [] conn = NoConn /\ Throttled -> Return(o)
         [] conn = NoConn /\ ~Throttled ->
              QueueFor(o, "write") /\ UNCHANGED <<handle, callerLeft>>
    /\ UNCHANGED <<conn, sinceAttempt, connectLeft, broken, redis, calm>>

StartConnecting(o) ==
    /\ GoTo(o, "connecting")
    /\ sinceAttempt' = 0
    /\ connectLeft' = ConnectBudget
    /\ UNCHANGED <<handle, callerLeft>>

\* Bug: the throttle is not looked at again under the write lock.
Bug_NoThrottleRecheck(o) ==
    /\ pc[o] = "write"
    /\ Granted(o)
    /\ \/ conn # NoConn /\ UseCurrent(o) /\ UNCHANGED <<sinceAttempt, connectLeft>>
       \/ conn = NoConn /\ StartConnecting(o)
    /\ UNCHANGED <<conn, broken, redis, calm>>

\* Bug: the connection is not looked at again under the write lock.
Bug_NoConnRecheck(o) ==
    /\ pc[o] = "write"
    /\ Granted(o)
    /\ \/ Throttled /\ Return(o) /\ UNCHANGED <<sinceAttempt, connectLeft>>
       \/ ~Throttled /\ StartConnecting(o)
    /\ UNCHANGED <<conn, broken, redis, calm>>

\* Under the write lock everything is looked at again, since another task
\* may have connected, or tried to, in between.
WriteLocked(o) ==
    /\ pc[o] = "write"
    /\ Granted(o)
    /\ \/ /\ conn # NoConn
          /\ UseCurrent(o)
          /\ UNCHANGED <<sinceAttempt, connectLeft>>
       \/ /\ conn = NoConn /\ Throttled
          /\ Return(o)
          /\ UNCHANGED <<sinceAttempt, connectLeft>>
       \/ /\ conn = NoConn /\ ~Throttled
          /\ StartConnecting(o)
    /\ UNCHANGED <<conn, broken, redis, calm>>

ConnectOk(o) ==
    /\ pc[o] = "connecting"
    /\ redis = "up"
    /\ LET fresh == CHOOSE c \in Conns : c \notin InUse
       IN  /\ conn' = fresh
           /\ handle' = [handle EXCEPT ![o] = fresh]
           /\ broken' = broken \ {fresh}
    /\ GoTo(o, "command")
    /\ connectLeft' = 0
    /\ UNCHANGED <<sinceAttempt, callerLeft, redis, calm>>

\* Bug: no timeout around the connection attempt.
Bug_ConnectUntimed(o) ==
    /\ pc[o] = "connecting"
    /\ redis = "down"
    /\ Return(o)
    /\ connectLeft' = 0
    /\ UNCHANGED <<conn, sinceAttempt, broken, redis, calm>>

\* Refused, or CONNECT_TIMEOUT elapsed: None, and last_attempt stands.  In
\* calm weather the handshake is done before that.
ConnectFails(o) ==
    /\ pc[o] = "connecting"
    /\ redis = "down" \/ (connectLeft = 0 /\ ~calm)
    /\ Return(o)
    /\ connectLeft' = 0
    /\ UNCHANGED <<conn, sinceAttempt, broken, redis, calm>>

-----------------------------------------------------------------------------
(* The command and invalidate                                              *)

CommandOk(o) ==
    /\ pc[o] = "command"
    /\ redis = "up" /\ handle[o] \notin broken
    /\ Return(o)
    /\ UNCHANGED <<conn, sinceAttempt, connectLeft, broken, redis, calm>>

CommandErr(o) ==
    /\ pc[o] = "command"
    /\ handle[o] \in broken
    /\ QueueFor(o, "invalidate")
    /\ UNCHANGED <<conn, sinceAttempt, handle, connectLeft, callerLeft, broken,
                   redis, calm>>

\* conn = None, whichever connection is there by now.
Invalidate(o) ==
    /\ pc[o] = "invalidate"
    /\ Granted(o)
    /\ conn' = NoConn
    /\ Return(o)
    /\ UNCHANGED <<sinceAttempt, connectLeft, broken, redis, calm>>

\* The caller's deadline passes, or its client hangs up: the future is
\* dropped wherever it is, and with it the lock or its place in the queue.
Abandon(o) ==
    /\ o \in Deadlined
    /\ pc[o] # "idle"
    /\ ~calm
    /\ Return(o)
    /\ connectLeft' = IF pc[o] = "connecting" THEN 0 ELSE connectLeft
    /\ UNCHANGED <<conn, sinceAttempt, broken, redis, calm>>

-----------------------------------------------------------------------------
(* Redis and time                                                          *)

\* Going down breaks every connection there is; going silent just hangs.
RedisChanges ==
    /\ ~calm
    /\ \E mode \in {"up", "down", "silent"} \ {redis} :
          /\ redis' = mode
          /\ broken' = IF mode = "down" THEN InUse \ {NoConn} ELSE broken
    /\ UNCHANGED <<conn, sinceAttempt, pc, handle, ahead, connectLeft, callerLeft,
                   calm>>

\* A ConnectionManager reconnects by itself once the server is back.
Heal(c) ==
    /\ redis = "up"
    /\ c \in broken
    /\ broken' = broken \ {c}
    /\ UNCHANGED <<conn, sinceAttempt, pc, handle, ahead, connectLeft, callerLeft,
                   redis, calm>>

CalmDown ==
    /\ ~calm
    /\ redis = "up"
    /\ calm' = TRUE
    /\ UNCHANGED <<conn, sinceAttempt, pc, handle, ahead, connectLeft, callerLeft,
                   broken, redis>>

Less(n) == IF n = 0 THEN 0 ELSE n - 1

\* Timers are served within the tick they are due in.
Tick ==
    /\ calm \/ \A o \in Ops : ~CallerDue(o)
    /\ calm \/ Connecting = {} \/ connectLeft > 0
    /\ sinceAttempt' = IF Throttled THEN sinceAttempt + 1 ELSE sinceAttempt
    /\ connectLeft' = Less(connectLeft)
    /\ callerLeft' = [o \in Ops |-> Less(callerLeft[o])]
    /\ UNCHANGED <<conn, pc, handle, ahead, broken, redis, calm>>

-----------------------------------------------------------------------------
Init ==
    /\ conn = NoConn
    /\ sinceAttempt = Throttle      \* last_attempt is None: no throttle
    /\ pc = [o \in Ops |-> "idle"]
    /\ handle = [o \in Ops |-> NoConn]
    /\ ahead = [o \in Ops |-> {}]
    /\ connectLeft = 0
    /\ callerLeft = [o \in Ops |-> 0]
    /\ broken = {}
    /\ redis \in {"up", "down", "silent"}
    /\ calm = FALSE

Next ==
    \/ \E o \in Ops :
          \/ Call(o) \/ ReadLocked(o) \/ WriteLocked(o) \/ ConnectOk(o)
          \/ ConnectFails(o) \/ CommandOk(o) \/ CommandErr(o) \/ Invalidate(o)
          \/ Abandon(o)
    \/ RedisChanges
    \/ \E c \in Conns : Heal(c)
    \/ CalmDown
    \/ Tick

(* The runtime polls what is ready and timers fire.  A command has no      *)
(* timeout of its own, so nothing is assumed of it while Redis is silent,  *)
(* and nothing at all of clients or of Redis changing.                     *)
Fairness ==
    /\ WF_vars(Tick)
    /\ \A o \in Ops :
          /\ WF_vars(ReadLocked(o) \/ WriteLocked(o) \/ Invalidate(o))
          /\ WF_vars(ConnectOk(o) \/ ConnectFails(o))
          /\ WF_vars(CommandOk(o) \/ CommandErr(o))
          /\ WF_vars(CallerDue(o) /\ Abandon(o))

Spec == Init /\ [][Next]_vars /\ Fairness

-----------------------------------------------------------------------------
(* Properties                                                              *)

\* Types, and the lock: at most one task connects, under the write lock
\* (redis.rs:171), and only a task that works on a connection has one.
TypeOK ==
    /\ conn \in Conns \cup {NoConn}
    /\ sinceAttempt \in 0..Throttle
    /\ pc \in [Ops -> Pc]
    /\ handle \in [Ops -> Conns \cup {NoConn}]
    /\ ahead \in [Ops -> SUBSET Ops]
    /\ connectLeft \in 0..ConnectBudget
    /\ callerLeft \in [Ops -> 0..CallerBudget]
    /\ broken \subseteq Conns
    /\ redis \in {"up", "down", "silent"}
    /\ calm \in BOOLEAN
    /\ Cardinality(Connecting) <= 1
    /\ Connecting # {} => conn = NoConn

\* Connection attempts are at least RECONNECT_MIN_INTERVAL apart, however
\* many tasks saw the cache disconnected at once and queued for the write
\* lock, and even when the attempt before was dropped half-way
\* (redis.rs:163-181).
AttemptsThrottled ==
    [][\A o \in Ops : pc[o] # "connecting" /\ pc'[o] = "connecting" =>
          sinceAttempt = Throttle]_vars

\* A silent Redis blocks nobody on the lock for ever: CONNECT_TIMEOUT bounds
\* how long it is held, also when its holder's caller is gone
\* (redis.rs:10-15, 184).
LockMakesProgress ==
    \A o \in Ops : pc[o] \in AtLock \cup {"connecting"}
                     ~> pc[o] \in {"command", "idle"}

\* Once Redis answers, and within its callers' deadlines, and callers keep
\* coming, caching resumes by itself and stays: the failures of operations
\* on older connections cannot keep throwing the new one away
\* (redis.rs:117-119).
CachingResumes ==
    (\E o \in Ops : []<>(pc[o] = "read")) => [](calm => <>[](conn # NoConn))

\* redis.rs:114-117: while disconnected get is a miss, set a no-op, as with
\* NoopCache, and a dead Redis costs nothing: in particular no caller's
\* deadline passes while its own operation tries to connect.
DisconnectedIsMiss ==
    \A o \in Deadlined : pc[o] = "connecting" => callerLeft[o] > 0
=============================================================================
