SPECIFICATION Spec
CONSTANTS
    w1 = w1
    Workers = {w1}
    None = None
    NChan = 1
    Images = {9}
    SegTime = 1
    Limit = 2
    ImageAge = 0
    ClockMoves = TRUE
    MaxTime = 1
    MaxCrashes = 1
    MaxErrors = 1
INVARIANTS
    TypeOK
    RecordingIndexed
PROPERTIES
    ArchiveSpec
CHECK_DEADLOCK FALSE
