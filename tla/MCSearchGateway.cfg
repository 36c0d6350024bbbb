CONSTANTS
    s1 = s1
    s2 = s2
    s3 = s3
    NoRequest = NoRequest
    Requests <- MCRequests
    HttpRequests <- MCHttpRequests
    Params <- MCParams
    RouteBudget = 1
    EngineBudget = 2
SPECIFICATION FairSpec
INVARIANTS
    CountersExact
PROPERTIES
    ImplementsService
    EverySearchReturns
