CONSTANTS
    f = f
    a = a
    b = b
    c = c
    f1 = f1
    f2 = f2
    a1 = a1
    b1 = b1
    c1 = c1
    None = None
    r1 = r1
    r2 = r2
    Txs = {f, a, b, c}
    Coins = {f1, f2, a1, b1, c1}
    Mints <- TxMints
    Spends <- TxSpends
    Addresses = {"other"}
    AddressOf <- OneAddress
    Base = {f}
    Relays = {r1, r2}
    MaxHeight = 2
    MaxReorgs = 1
    MaxCrashes = 1
SPECIFICATION Spec
CONSTRAINT FewJobs
SYMMETRY SameRelays
INVARIANTS
    ConfirmedStands
    PendingHoldsInputs
    CollectionsAgree
CHECK_DEADLOCK FALSE
