SPECIFICATION Spec
CONSTANTS
    u1 = u1  u2 = u2  m1 = m1  m2 = m2  m3 = m3  cam = cam
    Urls = {u1, u2}
    Shms = {m1, m2, m3}
    None = None
    NChan = 1
    NStream = 1
    Hosts = {cam}
    Media <- FixedMedia
    Settings <- CamSettings
    InOrder = TRUE
    TornCopy = FALSE
    MaxSets = 2
    MaxTimeouts = 0
    MaxStops = 0
    MaxOnvifRegs = 1
PROPERTY UserChoiceKept
