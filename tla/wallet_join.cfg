CONSTANTS
    w1 = w1
    Wallets = {w1, w2}
    Copayers = {c1, c2}
    Keys = {k1, k2}
    First = First
    Requests = {r1, r2}
    Size <- MCSize
    MaxKeys = 1
    Free = Free
    Orphan = Orphan
    None = None
SPECIFICATION Spec
CONSTRAINT FewAccidents
SYMMETRY Interchangeable
INVARIANTS
    RegisteredOnce
    LookupsMatch
    KeysKept
PROPERTY CopayersStay
CHECK_DEADLOCK FALSE
