SPECIFICATION Spec
CONSTANTS
    NaN = NaN
    Absent = Absent
    MinConfidence = 55
    MinAgreement = 50
    MaxTradePct = 1
    Timelock = 30
    MaxOpenPositions = 3
    MaxDailyLossPct = 5
    MinTreasury = 100
    Day = 100
    TechWeight = 60
    SentWeight = 40
    Neutral = 30
    Fallback = 50
    Raw <- MCRaw
CHECK_DEADLOCK FALSE
INVARIANTS
    DissentIsTheAnalysts
    UnreadableNeverDecides
    DirectionHasAVote
