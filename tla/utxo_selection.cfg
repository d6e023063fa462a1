CONSTANTS
    Wallets <- MCWallets
    Amounts = {3, 7, 12}
    Unit = 2
    Rate = 1
    BaseSize = 3
    InputSize = 3
    InputMargin = 1
    MaxSize = 16
    MinOutput = 3
    Dust = 2
    MaxFee = 8
    BigFactor = 2
    MinShare = 4
    FeeShare = 3
    SingleFactor = 2
    Nothing = Nothing
SPECIFICATION SelectionSpec
INVARIANTS
    PaysInFull
    NoneSuperfluous
    PaysIfItCan
    BestConfirmed
    SendsMost
CHECK_DEADLOCK FALSE
