CONSTANTS
    public = public
    private = private
    NoAddress = NoAddress
    Hosts <- MCHosts
    Addresses <- MCAddresses
    Forbidden <- MCForbidden
    MaxRedirectHops = 2
    MaxRawBytes = 2
    MaxChunk = 2
    HopBudget = 1
SPECIFICATION Spec
INVARIANTS
    TypeOK
    DialsOnlyValidated
    ChainBounded
    BodyBounded
PROPERTY
    FetchEnds
CHECK_DEADLOCK FALSE
