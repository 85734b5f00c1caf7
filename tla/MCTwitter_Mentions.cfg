SPECIFICATION Spec
CONSTANTS
    p1 = p1
    p2 = p2
    Loop = Loop
    Polls <- TwoPolls
    N = 2
    Parent <- Thread
    MaxReplies = 3
    MaxAtOnce = 2
    MaxCrashes = 2
    Idle = Idle
    Pause = Pause
SYMMETRY Alike
INVARIANTS
    AnsweredTwiceNeedsRace
    DroppedHasCause
    WaitersAreQueued
