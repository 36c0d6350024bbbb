SPECIFICATION ScanSpec
CONSTANTS
    Pages <- MCPages
    TidyPages <- MCTidyPages
INVARIANTS NothingLost WordsKept
PROPERTY ScanEnds
CHECK_DEADLOCK FALSE
