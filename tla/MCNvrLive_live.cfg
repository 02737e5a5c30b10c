SPECIFICATION FairSpec
CONSTANTS
    u1 = u1  u2 = u2  m1 = m1  m2 = m2  m3 = m3  cam = cam
    Urls = {u1, u2}
    Shms = {m1, m2, m3}
    None = None
    NChan = 1
    NStream = 2
    Hosts = {cam}
    Media <- FixedMedia
    Settings <- RtspSettings
    InOrder = TRUE
    TornCopy = TRUE
    MaxSets = 2
    MaxTimeouts = 1
    MaxStops = 1
    MaxOnvifRegs = 0
PROPERTY Converges
