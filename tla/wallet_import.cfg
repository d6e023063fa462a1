CONSTANTS
    f = f
    a = a
    b = b
    f1 = f1
    f2 = f2
    a1 = a1
    b1 = b1
    x = x
    y = y
    None = None
    w1 = w1
    w2 = w2
    Txs = {f, a, b}
    Coins = {f1, f2, a1, b1}
    Mints <- TxMints
    Spends <- TxSpends
    Addresses = {x, y}
    AddressOf <- PaidTo
    Base = {}
    Relays = {r1}
    MaxHeight = 2
    MaxReorgs = 1
    MaxCrashes = 1
    Calls = {w1, w2}
    Batches <- OneOrBoth
    MaxCalls = 2
SPECIFICATION WalletSpec
CONSTRAINTS
    FewJobs
    FewAccidents
    FewRivals
SYMMETRY SameCalls
INVARIANTS
    WalletComplete
CHECK_DEADLOCK FALSE
