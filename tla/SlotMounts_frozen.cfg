SPECIFICATION SlotSpec
CONSTANTS
    s1 = s1  s2 = s2  page = page  a = a  b = b
    Slots <- TwoSlots
    Page = page
    Paths <- TwoPaths
    Home = a
    Props = {1, 2}
    Transports <- Sse
    Budgets <- TwoMounts
INVARIANTS
    BoundIsJoined
CHECK_DEADLOCK FALSE
