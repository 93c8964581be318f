SPECIFICATION InstanceSpec
CONSTANTS
    e1 = e1  e2 = e2
    r1 = r1  r2 = r2  r3 = r3
    l1 = l1
    none = none
    NoRun <- none
    Runs <- TwoRuns
    RpcIds <- AllRpcs
    CallsOf <- Calls
    Rejected <- RefusedBatch
    Listeners <- OneListener
    AckLimit = 1
    BacklogCap = 1
    MaxWrites = 2
    MaxEvents = 0
    MaxPublish = 0
    MaxViews = 2
SYMMETRY RunSymmetry
INVARIANTS
    TypeOK
    ReplicaExact
    SnapshotFaithful
    FlushArmed
    AckAfterWritesButEarly
    ReactionAfterSender
    BacklogExact
    WritesConserved
    PatchOrderButEarly
CHECK_DEADLOCK FALSE
