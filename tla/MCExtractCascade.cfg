CONSTANTS
    Pages <- MCPages
    Lengths <- MCLengths
    WholeDocCheckFloor = 3000
    HealthyMarkdownFloor = 1500
    MinFallbackChars = 200
    LargePageRawBytes = 524288
    RatioPercent = 30
    LargeRatioPercent = 5
SPECIFICATION CascadeSpec
INVARIANTS
    CascadeTypeOK
    KeepIsMonotone
    SaturatedKept
PROPERTY
    AuditNeverLoses
CHECK_DEADLOCK FALSE
