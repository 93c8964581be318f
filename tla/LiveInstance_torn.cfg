SPECIFICATION Spec
CONSTANTS
    e1 = e1  e2 = e2
    r1 = r1  r2 = r2  r3 = r3
    l1 = l1
    none = none
    NoRun <- none
    Runs <- OneRun
    RpcIds <- OneRpc
    CallsOf <- Calls
    Rejected <- NoBatch
    Listeners <- OneListener
    AckLimit = 1
    BacklogCap = 1
    MaxWrites = 1
    MaxEvents = 0
    MaxPublish = 0
    MaxViews = 2
INVARIANT ReplicaIsState
CHECK_DEADLOCK FALSE
