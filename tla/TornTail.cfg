SPECIFICATION Spec
CONSTANTS
    p1 = p1
    p2 = p2
    Conns = {p1, p2}
    Capacity = 1
    BufCap = 3
    MaxAppends = 2
    MaxStarts = 2
CHECK_DEADLOCK FALSE
INVARIANT
    StopKeepsAll
