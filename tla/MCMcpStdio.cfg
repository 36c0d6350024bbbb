CONSTANTS
    Kind <- MCKind
    Hanging <- MCHanging
    Permits = 2
SPECIFICATION Spec
INVARIANTS
    InFlightBounded
    AnswersNotInterleaved
PROPERTY
    SlowCallsBlockNobody
CHECK_DEADLOCK FALSE
