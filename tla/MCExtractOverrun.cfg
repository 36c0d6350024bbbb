CONSTANTS
    r1 = r1
    r2 = r2
    r3 = r3
    k1 = k1
    k2 = k2
    NoRequest = NoRequest
    Requests <- MCRequests
    Keys <- MCKeys
    KeyOf <- MCKeyOf
    HttpRequests <- MCHttpRequests
    MaxConcurrent = 1
    InnerBudget = 2
    OuterBudget = 1
SPECIFICATION Spec
INVARIANT ParsesBounded
