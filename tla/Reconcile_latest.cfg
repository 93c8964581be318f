SPECIFICATION Spec
CONSTANTS
    q1 = q1  q2 = q2  q3 = q3
    none = none  a = a  b = b
    Reqs <- Three
    First <- q1
    NoReq <- none
    Props <- TwoProps
    Built <- a
    NoProps <- none
    Restored = FALSE
    MaxPatches = 1
INVARIANT LatestWins
CHECK_DEADLOCK FALSE
