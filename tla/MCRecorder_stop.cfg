SPECIFICATION Spec
CONSTANTS
    w1 = w1
    Workers = {w1}
    None = None
    NChan = 1
    Images = {9}
    SegTime = 1
    Limit = 2
    ImageAge = 1
    ClockMoves = FALSE
    MaxTime = 4
    MaxCrashes = 1
    MaxErrors = 0
INVARIANTS
    StoppedIsClosed
CHECK_DEADLOCK FALSE
