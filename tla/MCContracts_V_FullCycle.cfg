SPECIFICATION Spec
CONSTANTS
    p = p
    o = o
    w = w
    r = r
    x = x
    u = u
    Accounts <- MCAccounts
    Agents <- MCAgents
    Plugin = p
    Owner = o
    Wallet = w
    Router = r
    External = x
    Usdt = u
    PnlPct = 50
    ProviderUnit = 1
    Leverage = 1
    InitialBps = 3
    MaxBps = 5
    BpsBase = 10
    Floor = 1
    InitialTimelock = 2
    Start = 2
    Word = 9
    Amounts = {2, 4}
    Sizes = {2, 4}
    Approvals <- MCApprovals
    BpsChoices = {}
    TimelockChoices = {}
    Pnls = {}
    Buybacks = {}
    MaxWithdrawn = 0
    MaxPositions = 2
    MaxTrades = 0
    Horizon = 3
CHECK_DEADLOCK FALSE
INVARIANTS
    HeldIdsNamePositions
