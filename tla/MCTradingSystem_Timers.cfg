SPECIFICATION SystemSpec
CONSTANTS
    Cycles = {c1, c2}
    Timelock = 2
    MaxOpenPositions = 1
    a = a
    None = None
    Agents <- OneAgent
    Characters <- OneCharacter
    Interval = 1
    FirstDelay = 1
    MaxStarts = 1
    MaxStops = 0
    MadeUp = MadeUp
    Ttl = 1
    Horizon = 3
SYMMETRY MCSymmetry
CHECK_DEADLOCK FALSE
INVARIANTS
    CapIsRecentMoney
    LimitsNeedOneCaller
