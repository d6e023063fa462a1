CONSTANTS
    Workers = {w1, w2}
    Lease = 4
    StopWait = 2
    MaxCrashes = 1
    MaxStops = 1
    MaxStalls = 1
    Nobody = Nobody
    None = None
SPECIFICATION FairSpec
INVARIANTS
    RenewedInTime
    OneWriter
PROPERTIES
    TakenWhenStale
    SyncGoesOn
CHECK_DEADLOCK FALSE
