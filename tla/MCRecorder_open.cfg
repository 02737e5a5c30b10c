SPECIFICATION Spec
CONSTANTS
    w1 = w1
    Workers = {w1}
    None = None
    NChan = 2
    Images = {9}
    SegTime = 1
    Limit = 3
    ImageAge = 0
    ClockMoves = FALSE
    MaxTime = 2
    MaxCrashes = 1
    MaxErrors = 0
INVARIANTS
    OpenHasWriter
CHECK_DEADLOCK FALSE
