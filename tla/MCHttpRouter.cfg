SPECIFICATION Spec
CONSTANTS
    Sources <- MCSources
    Default <- MCDefault
    MinRaw <- MCMinRaw
    MaxRaw <- MCMaxRaw
    Unset = Unset
    IllTyped = IllTyped
    Peers = {p1}
    Minute = 4
    MaxAge = 4
INVARIANTS ServesOnlySound WindowBounded AnswersTellWhy
PROPERTY RefusalsEnd
CHECK_DEADLOCK FALSE
