SPECIFICATION SideSpec
CONSTANTS
    Keys = {a, b}
    Capacity = 2
    RefillPerSec = 500
    MaxKeys = 1
    Costs = {1, 2}
    Times = {0, 2, 3}
    MaxForward = 4
    Requests = {"q1", "q2"}
    Inputs <- SomeInputs
    Burst = 3
    MaxBatch = 2
    Streams = {"x", "y"}
    Sources = {"i", "j"}
    Budget = 3
    Sizes = {1, 2}
    MaxSends = 3
    Insts = {1, 2}
    Principals = {"ann", "bob"}
    MaxSeq = 2
    Listeners = {1, 2, 3}
    Home <- TwoNodes
    Entries = {1, 2, 3}
    Messages = {"m"}
    Files = {1, 2, 3, 4, 5, 6, 7}
    Place <- FilePlace
    Kind <- FileKind
    Url <- FileUrl
    Contents <- FileContents
    MaxEdits = 3
    Builds = {1, 2}
    MaxSaves = 4
    q1 = q1  q2 = q2  q3 = q3
    none = none  a = a  b = b
    Reqs <- Three
    First <- q1
    NoReq <- none
    Props <- TwoProps
    Built <- a
    NoProps <- none
    Restored = FALSE
    MaxPatches = 1
    Pages = {"tab"}
    Other = "other"
    Transport = "sse"
    AckLimit = 1
    MaxCalls = 2
    MaxWrites = 0
    MaxDrops = 1
    MaxLost = 1
    MaxCorrupt = 0
INVARIANTS
    RateBounded
    AnswersAreTrue
    StreamsCostLittle
    RowFollowsInstance
    SubscriptionsUsed
    TablesFollowDisk
    ClientIsStripped
    NewestDefinition
    TypeOK
    GateOwned
    PaintHasData
    FirstPatchOpens
    LoadOrder
    KeyWasLoaded
PROPERTY KeepsPromise
CHECK_DEADLOCK FALSE
