CONSTANTS
    Requests = {r1, r2}
    Gap = 1
    ScanGap = 2
    FirstSteps = {1, 2}
    Factor = 2
    Used = {1}
    MaxIndex <- MCMaxIndex
    Free = Free
    Orphan = Orphan
    None = None
SPECIFICATION Spec
CONSTRAINTS
    NothingLost
    FewScans
    FewPayments
SYMMETRY Interchangeable
INVARIANTS
    GivenOnce
    NoneSkipped
    GapBounded
CHECK_DEADLOCK FALSE
