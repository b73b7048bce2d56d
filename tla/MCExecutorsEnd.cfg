SPECIFICATION MCFairSpec
CONSTANTS
    Parts = {"stream"}
    Works = {w1, w2, w3}
    Clients = {c1, c2}
    CheckPack = 2
    MaxFrame = 3
    NoCall = NoCall
    NoTime = NoTime
    MaxTime = 6
    MaxSleeps = 4
    MaxValue = 3
    MaxSeen = 5
PROPERTY
    EndIsSeen
CHECK_DEADLOCK FALSE
