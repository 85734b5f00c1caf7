SPECIFICATION MediaSpec
CONSTANTS
    a = a
    b = b
    c = c
    d = d
    film = film
    lost = lost
    clip = clip
    anId = anId
    noId = noId
    photo = photo
    Callers <- FourCallers
    Videos <- ThreeVideos
    Pictures <- OnePicture
    Keys <- TwoKeys
    KeyOf <- Extracted
    Wants <- Asked
    Broken <- Unread
    MaxStarts = 1
CHECK_DEADLOCK FALSE
INVARIANT NothingLeftBehind
PROPERTIES
    EveryAskEnds
    BrokenUrlEndsProcess
