SPECIFICATION Spec
CONSTANTS
    p = p
    o = o
    w = w
    r = r
    x = x
    u = u
    Accounts <- MCAccounts
    Agents <- MCAgents
    Plugin = p
    Owner = o
    Wallet = w
    Router = r
    External = x
    Usdt = u
    PnlPct = 50
    ProviderUnit = 1
    Leverage = 1
    InitialBps = 3
    MaxBps = 5
    BpsBase = 10
    Floor = 1
    InitialTimelock = 2
    Start = 2
    Word = 8
    Amounts = {2, 4}
    Sizes = {2}
    Approvals <- MCApprovals
    BpsChoices = {5, 10}
    TimelockChoices = {0, 1}
    Pnls <- MCPnls
    Buybacks = {0}
    MaxWithdrawn = 2
    MaxPositions = 2
    MaxTrades = 3
    Horizon = 4
CHECK_DEADLOCK FALSE
INVARIANTS
    RouterCoversPositions
    PacedSpending
    OpeningNeedsApproval
PROPERTIES
    PacedSpenderSpec
