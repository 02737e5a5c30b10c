SPECIFICATION PassSpec
CONSTANTS
    u1 = u1  u2 = u2  m1 = m1  m2 = m2  m3 = m3  cam = cam
    Urls = {u1, u2}
    Shms = {m1, m2, m3}
    None = None
    NChan = 2
    NStream = 1
    Hosts = {cam}
    Media <- FixedMedia
    Settings <- RtspSettings
    InOrder = FALSE
    TornCopy = TRUE
    MaxSets = 1
    MaxTimeouts = 1
    MaxStops = 1
    MaxOnvifRegs = 0
INVARIANTS
    TypeOK
    RefsCover
    PublishedLive
    LeakBound
    PassSettles
PROPERTY SettledStays
