SPECIFICATION Spec
CONSTANTS
    l = l
    m = m
    Agents <- TwoAgents
    Leader = l
    People = {h}
    Kinds <- MCKinds
    Answers <- MCAnswers
    None = None
    N = 3
    Partial = 0
    Decay = 1
    Horizon = 3
CHECK_DEADLOCK FALSE
INVARIANTS
    OthersLeaveMentions
    SilenceNeedsRace
    OnlyCallsAreTracked
    EmptyInterestHasCause
