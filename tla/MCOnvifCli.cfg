SPECIFICATION Spec
CONSTANTS
    h1 = h1  h2 = h2
    Hosts = {h1, h2}
    w1 = w1  w2 = w2  w3 = w3
    Workers = {w1, w2, w3}
    c1 = c1  c2 = c2
    Clients = {c1, c2}
    a1 = a1  a2 = a2  a3 = a3
    Ctxs = {a1, a2, a3}
    None = None
    MaxLost = 1
SYMMETRY Symmetry
INVARIANTS
    TypeOK
    RefsExact
    PtzCtxLive
    HeldInHash
    OneOwner
PROPERTY CacheSpec
