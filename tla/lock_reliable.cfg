CONSTANTS
    Clients = {c1, c2, c3}
    Patient = {c3}
    Unreliable = {}
    LockTime = 2
    WaitTime = 1
    MaxClears = 2
    None = None
    Nobody = Nobody
SPECIFICATION Spec
INVARIANTS
    MutualExclusion
    LockIsKept
PROPERTIES
    WaitsLongEnough
    IsMutex
CHECK_DEADLOCK FALSE
