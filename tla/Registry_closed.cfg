SPECIFICATION Spec
CONSTANTS
    m1 = m1  k1 = k1  i1 = i1  p1 = p1  ws = ws  none = none
    NoMount <- none
    NoStream <- none
    Mounts <- OneMount
    Keys <- OneKey
    Sids <- OneSid
    Principals <- OnePrincipal
    Streams <- OneSocket
    Sockets <- OneSocket
    sid <- SidOf
    Requests <- SocketMount
    MaxPerSession = 1
    MaxUnattached = 1
INVARIANT ClosedHoldsNothing
CHECK_DEADLOCK FALSE
