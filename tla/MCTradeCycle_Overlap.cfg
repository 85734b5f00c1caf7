SPECIFICATION FairSpec
CONSTANTS
    Cycles = {c1, c2}
    MinConfidence = 55
    MinAgreement = 50
    MaxTradePct = 1
    Timelock = 2
    MaxOpenPositions = 1
    MaxDailyLossPct = 5
    MinTreasury = 10
    Day = 3
    NaN = NaN
    Hold = 1
    Window = 1
    TreasuryReadings = {0, 20}
    Decisions <- MCDecisions
    PnlValues <- MCPnl
    Collateral = 4
    WordRange = 16
    ExponentFrom = 12
    Overlap = 2
    Horizon = 3
    MaxCrashes = 1
CHECK_DEADLOCK FALSE
INVARIANTS
    CountMatchesHandlers
    OnlyApprovedOnChain
    UnattendedHasCause
    TimelockBreachNeedsOverlap
    NoLossIsBooked
    DailyFigureIsToday
    InvoicedIsClosed
    UnquotableWasDenied
PROPERTIES
    EveryCycleEnds
    ImplementsTrader
