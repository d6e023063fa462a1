CONSTANTS
    a1 = a1
    a2 = a2
    a3 = a3
    a4 = a4
    b4 = b4
    b5 = b5
    t1 = t1
    t2 = t2
    t3 = t3
    t4 = t4
    t5 = t5
    c1 = c1
    c2 = c2
    c3 = c3
    c4 = c4
    Genesis = Genesis
    None = None
    Blocks <- ForkBlocks
    Parent <- ForkParent
    Height <- ForkHeight
    TxsIn <- ForkTxsIn
    Txs <- AllTxs
    Coins <- AllCoins
    Mints <- TxMints
    Spends <- TxSpends
    Peers = {p1}
    MaxHeaders = 2
    MaxCrashes = 1
    MaxRetries = 1
SPECIFICATION FairSpec
INVARIANTS
    ProcessedChain
    StoreMatchesChain
PROPERTIES
    IsChainStore
    CatchesUp
CHECK_DEADLOCK FALSE
