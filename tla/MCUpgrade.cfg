SPECIFICATION Spec
CONSTANTS
    u1 = u1
    u2 = u2
    t1 = t1
    t2 = t2
    Conns = {u1, u2}
    Tasks = {t1, t2}
    MaxLines = 2
INVARIANTS
    TypeOK
    CopyUndisturbed
    LockFree
    ReleaseComing
    RebootComing
    RebootRefused
PROPERTIES
    Released
    Rebootable
