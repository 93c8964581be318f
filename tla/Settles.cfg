SPECIFICATION SettlesSpec
CONSTANTS
    Pages = {tab}
    Other = other
    Transport = "ws"
    AckLimit = 1
    MaxCalls = 1
    MaxWrites = 1
    MaxDrops = 2
    MaxLost = 0
    MaxCorrupt = 1
INVARIANTS
    ConfirmedExact
    NothingForgotten
    AckedShows
PROPERTIES
    CallsSettle
    StoreRecovers
    KilledIsReaped
    EveryBatchSettles
    EveryRequestEnds
CHECK_DEADLOCK FALSE
