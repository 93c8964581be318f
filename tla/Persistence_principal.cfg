SPECIFICATION Spec
CONSTANTS
    Insts = {1, 2}
    Principals = {ann, bob}
    MaxSeq = 2
INVARIANT MadeForWhoAsked
CHECK_DEADLOCK FALSE
