SPECIFICATION Spec
CONSTANTS
    pull = pull
    push = push
    Pulls = {pull}
    Pushes = {push}
    MaxReqs = 3
    MaxFails = 1
INVARIANTS
    TypeOK
    FreedAlone
    ErrIsLast
    InterruptHeeded
PROPERTIES
    TableSpec
    CloseEnds
    Reconnected
