SPECIFICATION BuybackSpec
CONSTANTS
    b1 = b1
    b2 = b2
    b3 = b3
    agent = agent
    dex = dex
    myx = myx
    Buybacks <- MCBuybacks
    AmountIn <- MCAmountIn
    Accounts <- MCAccounts
    Agent = agent
    Dex = dex
    Myx = myx
    Word = 100
    Collaterals = {2}
    Funds = 4
CHECK_DEADLOCK FALSE
INVARIANTS
    AloneDoneIsSwapped
PROPERTY EveryBuybackEnds
