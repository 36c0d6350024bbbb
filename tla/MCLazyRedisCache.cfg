CONSTANTS
    o1 = o1
    o2 = o2
    c1 = c1
    c2 = c2
    c3 = c3
    NoConn = NoConn
    Ops <- MCOps
    Deadlined <- MCDeadlined
    Conns <- MCConns
    CallerBudget = 2
    ConnectBudget = 3
    Throttle = 5
SPECIFICATION Spec
PROPERTIES
    AttemptsThrottled
    LockMakesProgress
    CachingResumes
