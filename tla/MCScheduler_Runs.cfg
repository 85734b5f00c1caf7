SPECIFICATION SchedulerSpec
CONSTANTS
    a = a
    b = b
    None = None
    Agents <- TwoAgents
    Characters <- OneCharacter
    Interval = 3
    FirstDelay = 1
    MaxStarts = 2
    MaxStops = 1
CHECK_DEADLOCK FALSE
PROPERTIES
    KeepsTrading
    AloneIsServed
