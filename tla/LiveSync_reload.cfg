SPECIFICATION SyncSpec
CONSTANTS
    p1 = p1  p2 = p2  other = other
    Pages <- TwoPages
    Other <- other
    Transport = "ws"
    AckLimit = 2
    MaxCalls = 1
    MaxWrites = 0
    MaxDrops = 0
    MaxLost = 0
    MaxCorrupt = 0
INVARIANT AckedShows
CHECK_DEADLOCK FALSE
