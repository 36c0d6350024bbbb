SPECIFICATION Spec
CONSTANTS
    Asks <- MCAsks
    Lines <- MCLines
    Urls <- MCUrls
    Corpus <- MCCorpus
    Region <- MCRegion
    TwoLetter = {"en", "de", "ja"}
    Strict <- MCStrict
    Moderate <- MCModerate
    Absent = Absent
    NotANumber = NotANumber
    SafeDefault = 1
    MaxPerPage = 2
    QueryMax = 8
    PageMax = 3
    PageMod = 5
    SafeMod = 4
    PageStride = 2
    Batches = {1, 2, 3}
    MaxCalls = 2
INVARIANTS AnswerFits PagesTile GatewaysAgree
CHECK_DEADLOCK FALSE
