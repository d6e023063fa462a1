CONSTANTS
    Clients = {c1, c2}
    Patient = {c1}
    Unreliable = {c1}
    LockTime = 2
    WaitTime = 2
    MaxClears = 2
    None = None
    Nobody = Nobody
SPECIFICATION FairSpec
PROPERTIES
    Answered
    LockFreed
CHECK_DEADLOCK FALSE
