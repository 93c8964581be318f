SPECIFICATION MountsSpec
CONSTANTS
    m1 = m1  m2 = m2  m3 = m3
    p1 = p1  p2 = p2
    s1 = s1  s2 = s2
    k1 = k1  i1 = i1  ws = ws  none = none
    NoMount <- none
    NoStream <- none
    Mounts <- ThreeMounts
    Keys <- ThreeKeys
    Sids <- TwoSids
    Principals <- TwoPrincipals
    Streams <- TwoStreams
    Sockets <- WebSockets
    sid <- SessionOf
    Requests <- Mixed
    MaxPerSession = 1
    MaxUnattached = 1
    Slots <- TwoSlots
    Page = "page"
    Paths = {"a", "b"}
    Home = "a"
    Props = {1, 2}
    Transports = {"sse", "ws"}
    Budgets <- Mixes
SYMMETRY AnyMountOrSlot
INVARIANTS
    RegistryAgrees
    NoOrphans
    IdleArmedButReused
    JoinedOnSockets
    StoresMatchHandles
    GivenIsTold
    NewestWins
PROPERTY CapsSpareHeld
CHECK_DEADLOCK FALSE
