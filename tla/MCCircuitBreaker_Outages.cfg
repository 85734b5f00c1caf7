SPECIFICATION Spec
CONSTANTS
    q = q
    r = r
    m = m
    Calls <- MCCalls
    Nested <- MCNested
    FailureThreshold = 3
    ResetTimeout = 2
    HalfOpenMaxAttempts = 2
    MaxRetries = 2
INVARIANTS
    FieldsAgree
PROPERTIES
    BlocksForTimeout
    EveryCallEnds
    Recovers
