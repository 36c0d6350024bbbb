CONSTANTS
    q1 = q1
    q2 = q2
    Requests <- MCRequests
    Parsing <- MCParsing
    Drains = {0, 2}
    HandlerBudget = 2
    ProbeEvery = 3
    ProbeBudget = 2
    PollEvery = 1
SPECIFICATION Spec
INVARIANTS
    TypeOK
    NoRequestLost
    OutInTime
PROPERTIES
    ShutdownCompletes
    ReadinessRecovers
CHECK_DEADLOCK FALSE
