CONSTANTS
    p1 = p1
    p2 = p2
    Proc = {p1}
    Frequency <- MCFrequency
SPECIFICATION Spec
INVARIANT DividerKept
CHECK_DEADLOCK FALSE
