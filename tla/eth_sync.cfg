CONSTANTS
    g = g
    a1 = a1
    a2 = a2
    a3 = a3
    b2 = b2
    b3 = b3
    c3 = c3
    c4 = c4
    s = s
    t = t
    None = None
    Genesis = g
    Base = a3
    Blocks = {g, a1, a2, a3, b2, b3, c3, c4}
    Parent <- MCParent
    Height <- MCHeight
    Weight <- MCWeight
    TxsIn <- MCTxsIn
    Slot <- MCSlot
    Txs = {s, t}
    MaxEvents = 1
SPECIFICATION FairSpec
INVARIANTS
    FollowsNode
    TxsFollowBlocks
    NonceOnce
PROPERTIES
    SyncEnds
CHECK_DEADLOCK FALSE
